--------------------------- MODULE TurnCycleProofs ---------------------------
(***************************************************************************)
(* Theorems about TurnCycle, for any number of items, questions, workers,  *)
(* attempts and crashes, and any proposals and return targets the          *)
(* assumptions of TurnCycle allow: its types, its lock, that it implements *)
(* ItemLifecycle, and what a turn promises beside the life of its items:   *)
(* it commits what it writes, its agent acts on a committed claim, only    *)
(* the gate closes an item as done, the sweeps leave nothing due, and an   *)
(* item is left in `failed` only to be retried.                            *)
(***************************************************************************)
EXTENDS TurnCycle, TLAPS

-----------------------------------------------------------------------------
(* What the operators on views return.                                     *)

LEMMA AfterType ==
    ASSUME NEW v \in ItemView, NEW e \in Events, Accepts(v, e)
    PROVE  /\ After(v, e) \in ItemView
           /\ After(v, e).state = Target(v, e)
           /\ After(v, e).claims = v.claims
<1> DEFINE s == Target(v, e)
           a == After(v, e)
<1>1. s \in States
    BY DEF Accepts
<1>2. /\ NoBlock \in Block /\ Awaited(v, e) \in Block
      /\ NoFailure \in [recorded : BOOLEAN, attempt : Nat, retryable : BOOLEAN]
    BY DEF NoBlock, NoFailure, Block, NoRef, Awaited, ItemView
<1>3. a = [state |-> s, resumable |-> (s = "doing" /\ e = "gate_rejected"),
           claims |-> v.claims,
           attempt |-> IF s \in Behind THEN v.attempt ELSE 0,
           ttl |-> IF s \in Behind THEN v.ttl ELSE 0,
           block |-> IF s = "blocked" THEN Awaited(v, e) ELSE NoBlock,
           failure |-> IF s \in Terminal THEN NoFailure ELSE v.failure,
           wake |-> IF s \in Terminal THEN 0 ELSE v.wake,
           prio |-> IF s \in Terminal THEN 0 ELSE v.prio]
    BY DEF After
<1>4. (s = "doing" /\ e = "gate_rejected") \in BOOLEAN
    OBVIOUS
<1> HIDE DEF s
<1> HIDE DEF a
<1> QED
    BY <1>1, <1>2, <1>3, <1>4 DEF ItemView, s, a

LEMMA AfterClaimedType ==
    ASSUME NEW v \in ItemView, Accepts(v, "claimed"),
           NEW n \in Nat, NEW attempt \in Nat, NEW ttl \in Nat
    PROVE  AfterClaimed(v, n, attempt, ttl) \in ItemView
<1> "claimed" \in Events
    BY DEF Events
<1> QED
    BY AfterType DEF AfterClaimed, ItemView

LEMMA AfterFailedType ==
    ASSUME NEW v \in ItemView, Accepts(v, "failed"),
           NEW attempt \in Nat, NEW retryable \in BOOLEAN
    PROVE  AfterFailed(v, attempt, retryable) \in ItemView
<1> "failed" \in Events
    BY DEF Events
<1> QED
    BY AfterType DEF AfterFailed, ItemView

LEMMA AfterBlockedType ==
    ASSUME NEW v \in ItemView, Accepts(v, "blocked"), NEW b \in Block
    PROVE  AfterBlocked(v, b) \in ItemView
<1> "blocked" \in Events
    BY DEF Events
<1> QED
    BY AfterType DEF AfterBlocked, ItemView

LEMMA AfterSnoozedType ==
    ASSUME NEW v \in ItemView, Accepts(v, "snoozed"), NEW ttl \in Nat
    PROVE  AfterSnoozed(v, ttl) \in ItemView
<1> "snoozed" \in Events
    BY DEF Events
<1> QED
    BY AfterType DEF AfterSnoozed, ItemView

LEMMA AfterPrioritySetType ==
    ASSUME NEW v \in ItemView, Accepts(v, "priority_set"), NEW p \in Nat
    PROVE  AfterPrioritySet(v, p) \in ItemView
<1> "priority_set" \in Events
    BY DEF Events
<1> QED
    BY AfterType DEF AfterPrioritySet, ItemView

(* The events the harness appends without asking, and why the fold takes them. *)
LEMMA SweptEventsAreAccepted ==
    ASSUME NEW v \in ItemView
    PROVE  /\ v.state \in Leased => Accepts(v, "reclaimed") /\ Accepts(v, "failed")
           /\ v.state = "snoozed" => Accepts(v, "woke")
           /\ v.state = "failed" => Accepts(v, "retried")
           /\ v.state = Absent => Accepts(v, "created")
    BY DEF Accepts, Target, From, To, Events, Leased, States, Stay, Stored, Absent

-----------------------------------------------------------------------------
(* Type correctness, one lemma per part of Next.                           *)

LEMMA AppendType ==
    ASSUME TypeOK, NEW i \in Items \cup {None}, NEW v, i \in Items => v \in ItemView,
           Append(i, v)
    PROVE  item' \in [Items -> ItemView] /\ uncommitted' \subseteq Files
    BY DEF TypeOK, Append, Files, None, Ledger

LEMMA CommitType ==
    ASSUME TypeOK, NEW P, Commit(P)
    PROVE  uncommitted' \subseteq Files /\ orphaned' \subseteq Files
    BY DEF TypeOK, Commit

LEMMA StepNames ==
    /\ Sweeps \subseteq Steps /\ Resolutions \subseteq Steps
    /\ {"idle", "declare", "poison_lease", "commit_sweep", "classify", "claim",
        "start", "commit_claim", "agent", "suspend", "plan", "gate", "done",
        "propose", "poison", "reload", "finish", "commit_turn"} \subseteq Steps
    BY DEF Steps

LEMMA TurnFields ==
    ASSUME TypeOK, NEW w \in Workers
    PROVE  /\ turn[w] \in TurnState
           /\ turn[w].pc \in Steps /\ turn[w].cursor \in Nat
           /\ turn[w].target \in Items \cup {None}
           /\ turn[w].paths \subseteq Files
    BY DEF TypeOK, TurnState

LEMMA ConcludeType ==
    ASSUME TypeOK, NEW w \in Workers, NEW outcome \in Outcomes,
           turn' = [turn EXCEPT ![w].pc = "finish", ![w].outcome = outcome]
    PROVE  turn' \in [Workers -> TurnState]
<1>1. [turn[w] EXCEPT !.pc = "finish", !.outcome = outcome] \in TurnState
    BY TurnFields, StepNames DEF TurnState
<1> QED
    BY <1>1 DEF TypeOK

LEMMA GotoType ==
    ASSUME TypeOK, NEW w \in Workers, NEW p \in Steps, turn' = [turn EXCEPT ![w].pc = p]
    PROVE  turn' \in [Workers -> TurnState]
<1>1. [turn[w] EXCEPT !.pc = p] \in TurnState
    BY TurnFields DEF TurnState
<1> QED
    BY <1>1 DEF TypeOK

LEMMA SweptType ==
    ASSUME TypeOK, NEW w \in Workers, NEW x \in Files, NEW c \in Nat, Swept(w, x, c)
    PROVE  turn' \in [Workers -> TurnState]
<1>1. [turn[w] EXCEPT !.cursor = c, !.paths = @ \cup {x}] \in TurnState
    BY TurnFields DEF TurnState
<1>2. turn' = [turn EXCEPT ![w] = [turn[w] EXCEPT !.cursor = c, !.paths = @ \cup {x}]]
    BY DEF Swept
<1> QED
    BY <1>1, <1>2 DEF TypeOK

LEMMA LostType ==
    ASSUME TypeOK, NEW i \in Items \cup {None}, Lost(i)
    PROVE  losses' \in [Items -> Nat]
<1>1. CASE i \in Items
  <2>1. losses[i] + 1 \in Nat
    BY <1>1 DEF TypeOK
  <2> QED
    BY <2>1 DEF TypeOK, Lost
<1>2. CASE i \notin Items
    BY <1>2 DEF TypeOK, Lost
<1> QED
    BY <1>1, <1>2

LEMMA ItemsAreNumbers == Items \subseteq Nat /\ Questions \subseteq Nat
    BY TurnAssumption

(* What a turn's memory holds at the steps that rely on it: a suspending turn *)
(* has asked its question, one that claims or resolves has its item, one that *)
(* is still sweeping holds none, and one that may plan has written nothing since *)
(* its last commit.                                                           *)
TurnShape(t) ==
    /\ t.pc = "suspend" => \E q \in Questions : q \in t.paths
    /\ t.pc \in {"claim", "start", "commit_claim"} \cup Resolutions => t.target # None
    /\ t.pc \in Sweeps \cup {"declare", "commit_sweep", "classify"} => t.target = None
    /\ t.pc = "classify" \/ (t.pc = "agent" /\ t.target = None) => t.paths = {}

TurnShapes == \A w \in Workers : TurnShape(turn[w])

LEMMA SweepType ==
    ASSUME TypeOK, TurnShapes, NEW w \in Workers, Sweep(w)
    PROVE  TypeOK'
<1> USE ItemsAreNumbers, TurnFields
<1>1. ASSUME NEW q \in Questions, ApplyAnswer(w, q)
      PROVE  TypeOK'
  <2> DEFINE i == quest[q].item
  <2>1. i \in Items \cup {None}
    BY DEF TypeOK, QuestionView
  <2>2. i \in Items => After(item[i], "unblocked") \in ItemView
    BY <1>1, AfterType DEF ApplyAnswer, TypeOK, Events
  <2>3. item' \in [Items -> ItemView] /\ uncommitted' \subseteq Files
    BY <1>1, <2>1, <2>2, AppendType DEF ApplyAnswer
  <2>4. turn' \in [Workers -> TurnState]
    <3>1. q \in Nat /\ i \in Files
      BY <2>1 DEF Files, None, Ledger
    <3>2. Swept(w, i, q)
      BY <1>1 DEF ApplyAnswer
    <3> QED
      BY <3>1, <3>2, SweptType
  <2> QED
    BY <1>1, <2>3, <2>4 DEF ApplyAnswer, TypeOK
<1>2. ASSUME NEW i \in Items, Reclaim(w, i)
      PROVE  TypeOK'
  <2>1. item[i] \in ItemView /\ item[i].state \in Leased
    BY <1>2 DEF Reclaim, NextUp, Ahead, At, Due, LeaseExpired, TypeOK
  <2>2. After(item[i], "reclaimed") \in ItemView
    BY <2>1, AfterType, SweptEventsAreAccepted DEF Events
  <2>3. item' \in [Items -> ItemView] /\ uncommitted' \subseteq Files
    BY <1>2, <2>2, AppendType DEF Reclaim
  <2>4. turn' \in [Workers -> TurnState]
    BY <1>2, SweptType DEF Reclaim, Files
  <2> QED
    BY <1>2, <2>3, <2>4, LostType DEF Reclaim, TypeOK
<1>3. ASSUME NEW i \in Items, FailLease(w, i)
      PROVE  TypeOK'
  <2>1. item[i] \in ItemView /\ item[i].state \in Leased /\ item[i].attempt \in Nat
    BY <1>3 DEF FailLease, NextUp, Ahead, At, Due, LeaseExpired, TypeOK, ItemView
  <2>2. AfterFailed(item[i], item[i].attempt, FALSE) \in ItemView
    BY <2>1, AfterFailedType, SweptEventsAreAccepted
  <2>3. item' \in [Items -> ItemView] /\ uncommitted' \subseteq Files
    BY <1>3, <2>2, AppendType DEF FailLease
  <2>4. turn' \in [Workers -> TurnState]
    <3> DEFINE t == [turn[w] EXCEPT !.pc = "poison_lease", !.target = i, !.cursor = i,
                                    !.paths = @ \cup {i}]
    <3>1. t \in TurnState
      BY StepNames DEF TurnState, Files
    <3>2. turn' = [turn EXCEPT ![w] = t]
      BY <1>3 DEF FailLease
    <3> QED
      BY <3>1, <3>2 DEF TypeOK
  <2> QED
    BY <1>3, <2>3, <2>4, LostType DEF FailLease, TypeOK
<1>4. ASSUME NEW i \in Items, Wake(w, i)
      PROVE  TypeOK'
  <2>1. item[i] \in ItemView /\ item[i].state = "snoozed"
    BY <1>4 DEF Wake, NextUp, Ahead, At, Due, TypeOK
  <2>2. After(item[i], "woke") \in ItemView
    BY <2>1, AfterType, SweptEventsAreAccepted DEF Events
  <2>3. item' \in [Items -> ItemView] /\ uncommitted' \subseteq Files
    BY <1>4, <2>2, AppendType DEF Wake
  <2>4. turn' \in [Workers -> TurnState]
    BY <1>4, SweptType DEF Wake, Files
  <2> QED
    BY <1>4, <2>3, <2>4 DEF Wake, TypeOK
<1>5. ASSUME NEW i \in Items, TimeOut(w, i)
      PROVE  TypeOK'
  <2> DEFINE q == item[i].block.ref
             closes == IF OnQuestion(item[i]) THEN {q} ELSE {}
  <2>1. closes \subseteq Questions
    BY <1>5 DEF TimeOut, NextUp, Ahead, At, Due, BoundElapsed, OnQuestion
  <2>2. quest' \in [Questions -> QuestionView]
    BY <1>5 DEF TimeOut, QuestionAfter, TypeOK, QuestionView, QuestionStates, Closed
  <2>3. turn' \in [Workers -> TurnState]
    <3> DEFINE t == [turn[w] EXCEPT !.pc = Resolution(item[i]), !.cursor = i,
                                    !.target = i, !.paths = @ \cup closes]
    <3>1. Resolution(item[i]) \in Steps
      BY StepNames DEF Resolution, Resolutions
    <3>2. t \in TurnState
      BY <2>1, <3>1 DEF TurnState, Files
    <3>3. turn' = [turn EXCEPT ![w] = t]
      BY <1>5 DEF TimeOut
    <3> QED
      BY <3>2, <3>3 DEF TypeOK
  <2> QED
    BY <1>5, <2>1, <2>2, <2>3 DEF TimeOut, TypeOK, Files
<1>6. ASSUME NEW i \in Items, Retry(w, i)
      PROVE  TypeOK'
  <2>1. item[i] \in ItemView /\ item[i].state = "failed"
    BY <1>6 DEF Retry, NextUp, Ahead, At, Due, Retryable, TypeOK
  <2>2. After(item[i], "retried") \in ItemView
    BY <2>1, AfterType, SweptEventsAreAccepted DEF Events
  <2>3. item' \in [Items -> ItemView] /\ uncommitted' \subseteq Files
    BY <1>6, <2>2, AppendType DEF Retry
  <2>4. turn' \in [Workers -> TurnState]
    BY <1>6, SweptType DEF Retry, Files
  <2> QED
    BY <1>6, <2>3, <2>4 DEF Retry, TypeOK
<1>7. CASE PoisonLease(w)
  <2> DEFINE i == turn[w].target
  <2>1. i \in Items => After(item[i], "poisoned") \in ItemView
    BY <1>7, AfterType DEF PoisonLease, TypeOK, Events
  <2>2. item' \in [Items -> ItemView] /\ uncommitted' \subseteq Files
    BY <1>7, <2>1, AppendType DEF PoisonLease
  <2>3. turn' \in [Workers -> TurnState]
    BY <1>7, StepNames DEF PoisonLease, TypeOK, TurnState, Sweeps
  <2> QED
    BY <1>7, <2>2, <2>3 DEF PoisonLease, TypeOK
<1>8. CASE Resolve(w)
  <2> DEFINE i == turn[w].target
  <2>1. i \in Items => After(item[i], turn[w].pc) \in ItemView
    BY <1>8, AfterType DEF Resolve, Resolutions, TypeOK, Events
  <2>2. item' \in [Items -> ItemView] /\ uncommitted' \subseteq Files
    BY <1>8, <2>1, AppendType DEF Resolve
  <2>3. turn' \in [Workers -> TurnState]
    <3> DEFINE t == [turn[w] EXCEPT !.pc = "deadlines", !.target = None, !.paths = @ \cup {i},
                              !.returned = IF turn[w].pc = "unblocked" THEN @ \cup {i} ELSE @]
    <3>0. i \in Items
      BY <1>8 DEF Resolve, TurnShapes, TurnShape
    <3>1. t \in TurnState
      BY <3>0, StepNames DEF TurnState, Sweeps, Files, None, Ledger
    <3>2. turn' = [turn EXCEPT ![w] = t]
      BY <1>8 DEF Resolve
    <3> QED
      BY <3>1, <3>2 DEF TypeOK
  <2> QED
    BY <1>8, <2>2, <2>3 DEF Resolve, TypeOK
<1>9. CASE EndSweep(w)
  <2>1. Following[turn[w].pc] \in Steps
    BY <1>9 DEF EndSweep, Following, Sweeps, Steps
  <2>2. turn' \in [Workers -> TurnState]
    BY <1>9, <2>1 DEF EndSweep, TypeOK, TurnState
  <2> QED
    BY <1>9, <2>2 DEF EndSweep, TypeOK
<1>10. CASE CommitSweep(w)
  <2>1. uncommitted' \subseteq Files /\ orphaned' \subseteq Files
    BY <1>10, CommitType DEF CommitSweep
  <2>2. turn' \in [Workers -> TurnState]
    <3>1. [turn[w] EXCEPT !.pc = "classify", !.paths = {}] \in TurnState
      BY StepNames DEF TurnState
    <3> QED
      BY <1>10, <3>1 DEF CommitSweep, TypeOK
  <2> QED
    BY <1>10, <2>1, <2>2 DEF CommitSweep, TypeOK
<1> QED
    BY <1>1, <1>2, <1>3, <1>4, <1>5, <1>6, <1>7, <1>8, <1>9, <1>10 DEF Sweep

LEMMA DropType ==
    ASSUME TypeOK, NEW w \in Workers, Drop(w), crashes' \in Nat
    PROVE  TypeOK'
<1>1. NoTurn \in TurnState
    BY StepNames DEF NoTurn, TurnState, Outcomes
<1> QED
    BY <1>1 DEF Drop, TypeOK

LEMMA ClaimType ==
    ASSUME TypeOK, NEW w \in Workers, Classify(w) \/ Claim(w) \/ Start(w) \/ CommitClaim(w)
    PROVE  TypeOK'
<1> USE TurnFields
<1>1. ASSUME NEW i \in Items, Pick(w, i)
      PROVE  TypeOK'
  <2> DEFINE t == [turn[w] EXCEPT
                      !.pc = IF item[i].state = "doing" THEN "agent" ELSE "claim",
                      !.target = i, !.paths = {i}, !.returned = {}]
  <2>1. t \in TurnState
    BY StepNames DEF TurnState, Files
  <2>2. turn' = [turn EXCEPT ![w] = t]
    BY <1>1 DEF Pick
  <2> QED
    BY <1>1, <2>1, <2>2 DEF Pick, TypeOK
<1>2. CASE Plan(w)
  <2>1. [turn[w] EXCEPT !.pc = "agent", !.returned = {}] \in TurnState
    BY StepNames DEF TurnState
  <2> QED
    BY <1>2, <2>1 DEF Plan, TypeOK
<1>3. CASE NothingReady(w)
  <2>1. [turn[w] EXCEPT !.pc = "finish", !.returned = {}, !.outcome = "nothing_ready"] \in TurnState
    BY StepNames DEF TurnState, Outcomes
  <2> QED
    BY <1>3, <2>1 DEF NothingReady, TypeOK
<1>4. CASE Claim(w)
  <2> DEFINE i == turn[w].target
             n == NextClaim(item[i])
  <2>1. i \in Items => AfterClaimed(item[i], n, n, LeaseTicks) \in ItemView
    <3> SUFFICES ASSUME i \in Items PROVE AfterClaimed(item[i], n, n, LeaseTicks) \in ItemView
      OBVIOUS
    <3>1. item[i].claims \in Nat
      BY DEF TypeOK, ItemView
    <3>2. n \in Nat
      BY <3>1, TurnAssumption DEF NextClaim
    <3> QED
      BY <1>4, <3>2, AfterClaimedType, TurnAssumption DEF Claim, TypeOK
  <2>2. item' \in [Items -> ItemView] /\ uncommitted' \subseteq Files
    BY <1>4, <2>1, AppendType DEF Claim
  <2> QED
    BY <1>4, <2>2, GotoType, StepNames DEF Claim, Goto, TypeOK
<1>5. CASE Start(w)
  <2> DEFINE i == turn[w].target
  <2>1. i \in Items => After(item[i], "started") \in ItemView
    BY <1>5, AfterType DEF Start, TypeOK, Events
  <2>2. item' \in [Items -> ItemView] /\ uncommitted' \subseteq Files
    BY <1>5, <2>1, AppendType DEF Start
  <2> QED
    BY <1>5, <2>2, GotoType, StepNames DEF Start, Goto, TypeOK
<1>6. CASE CommitClaim(w)
    BY <1>6, CommitType, GotoType, StepNames DEF CommitClaim, Goto, TypeOK
<1> QED
    BY <1>1, <1>2, <1>3, <1>4, <1>5, <1>6 DEF Classify

LEMMA AgentType ==
    ASSUME TypeOK, NEW w \in Workers, Agent(w)
    PROVE  TypeOK'
<1> USE TurnFields
<1>1. CASE AgentEnds(w)
  <2>1. PICK outcome \in {"failed", "blocked"} : Conclude(w, outcome)
    BY <1>1 DEF AgentEnds
  <2>2. turn' \in [Workers -> TurnState]
    BY <2>1, ConcludeType DEF Conclude, TypeOK, Outcomes
  <2> QED
    BY <1>1, <2>2 DEF AgentEnds, TypeOK
<1>2. CASE AgentProposes(w)
    BY <1>2, GotoType, StepNames DEF AgentProposes, Goto, TypeOK
<1>3. ASSUME NEW q \in Questions, AgentDenied(w, q)
      PROVE  TypeOK'
  <2>1. quest' \in [Questions -> QuestionView]
    BY <1>3, TurnAssumption DEF AgentDenied, TypeOK, QuestionView, QuestionStates, Policies
  <2>2. turn' \in [Workers -> TurnState]
    <3>1. [turn[w] EXCEPT !.pc = "suspend", !.paths = @ \cup {q}] \in TurnState
      BY TurnFields, StepNames DEF TurnState, Files
    <3> QED
      BY <1>3, <3>1 DEF AgentDenied, TypeOK
  <2> QED
    BY <1>3, <2>1, <2>2 DEF AgentDenied, TypeOK, Files
<1> QED
    BY <1>1, <1>2, <1>3 DEF Agent

LEMMA AgentBlocksType == AgentBlocks \subseteq Block
<1>1. Nameable \subseteq Questions \cup {NoRef}
    BY TurnAssumption DEF Nameable
<1>2. {0} \subseteq Nat /\ {DeadlineTicks} \subseteq Nat
    BY TurnAssumption
<1>3. {"none"} \subseteq Policies \cup {"none"} /\ BlockPolicies \subseteq Policies \cup {"none"}
    BY TurnAssumption
<1> QED
    BY <1>1, <1>2, <1>3 DEF AgentBlocks, Block

LEMMA DisposeType ==
    ASSUME TypeOK, TurnShapes, NEW w \in Workers, Dispose(w)
    PROVE  TypeOK'
<1> DEFINE i == turn[w].target
<1> USE TurnFields
<1>1. CASE Suspend(w)
  <2> DEFINE b == [kind |-> "question", ref |-> AskedNow(w), ret |-> "doing", ttl |-> 0,
                   policy |-> "none"]
  <2>1. AskedNow(w) \in Questions
    BY <1>1 DEF Suspend, At, TurnShapes, TurnShape, AskedNow
  <2>2. b \in Block
    BY <2>1 DEF Block
  <2>3. i \in Items => AfterBlocked(item[i], b) \in ItemView
    BY <1>1, <2>2, AfterBlockedType DEF Suspend, TypeOK
  <2>4. item' \in [Items -> ItemView] /\ uncommitted' \subseteq Files
    BY <1>1, <2>3, AppendType DEF Suspend
  <2>5. turn' \in [Workers -> TurnState]
    BY <1>1, ConcludeType DEF Suspend, Conclude, Outcomes
  <2> QED
    BY <1>1, <2>4, <2>5 DEF Suspend, TypeOK
<1>2. ASSUME NEW j \in Items, PlanItem(w, j)
      PROVE  TypeOK'
  <2>1. After(item[j], "created") \in ItemView
    BY <1>2, AfterType, SweptEventsAreAccepted DEF PlanItem, TypeOK, Events
  <2>2. item' \in [Items -> ItemView] /\ uncommitted' \subseteq Files
    BY <1>2, <2>1, AppendType DEF PlanItem
  <2> QED
    BY <1>2, <2>2 DEF PlanItem, TypeOK, TurnState, Files
<1>3. CASE PlanDone(w)
    BY <1>3, ConcludeType DEF PlanDone, Conclude, TypeOK, Outcomes
<1>4. CASE PlanRefused(w)
  <2>1. NoItem \in ItemView
    BY DEF NoItem, ItemView, NoBlock, Block, NoRef, NoFailure
  <2>2. turn' \in [Workers -> TurnState]
    <3> DEFINE t == [turn[w] EXCEPT !.pc = "finish", !.paths = {}, !.outcome = "failed"]
    <3>1. t \in TurnState
      BY StepNames DEF TurnState, Outcomes
    <3>2. turn' = [turn EXCEPT ![w] = t]
      BY <1>4 DEF PlanRefused
    <3> QED
      BY <3>1, <3>2 DEF TypeOK
  <2> QED
    BY <1>4, <2>1, <2>2 DEF PlanRefused, TypeOK
<1>5. CASE GatePasses(w)
    BY <1>5, GotoType, StepNames DEF GatePasses, Goto, TypeOK
<1>6. CASE GateRejects(w)
  <2>1. i \in Items => After(item[i], "gate_rejected") \in ItemView
    BY <1>6, AfterType DEF GateRejects, TypeOK, Events
  <2>2. item' \in [Items -> ItemView] /\ uncommitted' \subseteq Files
    BY <1>6, <2>1, AppendType DEF GateRejects
  <2> QED
    BY <1>6, <2>2, ConcludeType DEF GateRejects, Conclude, TypeOK, Outcomes
<1>7. CASE AppendDone(w)
  <2>1. i \in Items => After(item[i], "done") \in ItemView
    BY <1>7, AfterType DEF AppendDone, TypeOK, Events
  <2>2. item' \in [Items -> ItemView] /\ uncommitted' \subseteq Files
    BY <1>7, <2>1, AppendType DEF AppendDone
  <2> QED
    BY <1>7, <2>2, ConcludeType DEF AppendDone, Conclude, TypeOK, Outcomes
<1>8. CASE ProposePlain(w)
  <2>1. PICK e \in Proposals \ {"failed", "blocked"} :
            Accepts(item[i], e) /\ Append(i, After(item[i], e))
    BY <1>8 DEF ProposePlain
  <2>2. i \in Items => After(item[i], e) \in ItemView
    BY <2>1, AfterType, TurnAssumption DEF TypeOK
  <2>3. item' \in [Items -> ItemView] /\ uncommitted' \subseteq Files
    BY <2>1, <2>2, AppendType
  <2> QED
    BY <1>8, <2>3, GotoType, StepNames DEF ProposePlain, Goto, TypeOK
<1>9. CASE ProposeBlocked(w)
  <2>1. PICK b \in AgentBlocks : Append(i, AfterBlocked(item[i], b))
    BY <1>9 DEF ProposeBlocked
  <2>2. i \in Items => AfterBlocked(item[i], b) \in ItemView
    BY <1>9, AgentBlocksType, AfterBlockedType DEF ProposeBlocked, TypeOK
  <2>3. item' \in [Items -> ItemView] /\ uncommitted' \subseteq Files
    BY <2>1, <2>2, AppendType
  <2> QED
    BY <1>9, <2>3, GotoType, StepNames DEF ProposeBlocked, Goto, TypeOK
<1>10. CASE ProposeFailed(w)
  <2>1. PICK attempt \in {item[i].attempt} \cup Misreports, retryable \in BOOLEAN :
            /\ Append(i, AfterFailed(item[i], attempt, retryable))
            /\ Goto(w, IF ~retryable \/ attempt >= MaxAttempts THEN "poison" ELSE "reload")
    BY <1>10 DEF ProposeFailed
  <2>2. i \in Items => AfterFailed(item[i], attempt, retryable) \in ItemView
    <3> SUFFICES ASSUME i \in Items
                 PROVE  AfterFailed(item[i], attempt, retryable) \in ItemView
      OBVIOUS
    <3>1. item[i] \in ItemView
      BY DEF TypeOK
    <3>2. attempt \in Nat
      BY <2>1, <3>1, TurnAssumption DEF ItemView
    <3> QED
      BY <1>10, <2>1, <3>1, <3>2, AfterFailedType DEF ProposeFailed
  <2>3. item' \in [Items -> ItemView] /\ uncommitted' \subseteq Files
    BY <2>1, <2>2, AppendType
  <2>4. turn' \in [Workers -> TurnState]
    BY <2>1, GotoType, StepNames DEF Goto, TypeOK
  <2>5. losses' \in [Items -> Nat]
    BY <1>10, LostType DEF ProposeFailed, Reported, TypeOK
  <2> QED
    BY <1>10, <2>3, <2>4, <2>5 DEF ProposeFailed, TypeOK
<1>11. CASE Poison(w)
  <2>1. i \in Items => After(item[i], "poisoned") \in ItemView
    BY <1>11, AfterType DEF Poison, TypeOK, Events
  <2>2. item' \in [Items -> ItemView] /\ uncommitted' \subseteq Files
    BY <1>11, <2>1, AppendType DEF Poison
  <2> QED
    BY <1>11, <2>2, GotoType, StepNames DEF Poison, Goto, TypeOK
<1>12. CASE Reload(w)
  <2>1. OutcomeFor(item[i].state) \in Outcomes
    BY DEF OutcomeFor, Outcomes
  <2>2. turn' \in [Workers -> TurnState]
    BY <1>12, <2>1, ConcludeType DEF Reload, Conclude, TypeOK
  <2> QED
    BY <1>12, <2>2 DEF Reload, TypeOK
<1>13. CASE ProposalRefused(w)
    BY <1>13, ConcludeType DEF ProposalRefused, Conclude, TypeOK, Outcomes
<1> QED
    BY <1>1, <1>2, <1>3, <1>4, <1>5, <1>6, <1>7, <1>8, <1>9, <1>10, <1>11, <1>12, <1>13
    DEF Dispose

LEMMA BoardType ==
    ASSUME TypeOK, Board
    PROVE  TypeOK'
<1> PICK i \in Items : \/ BoardAnswers(i) \/ BoardCancels(i)
                       \/ BoardCreates(i) \/ OperatorSnoozes(i)
                       \/ \E p \in Priorities : BoardSetsPriority(i, p)
    BY DEF Board
<1>1. ASSUME NEW v \in ItemView, BoardAppends(i, v)
      PROVE  TypeOK'
    BY <1>1, CommitType DEF BoardAppends, TypeOK
<1>2. item[i] \in ItemView
    BY DEF TypeOK
<1>3. CASE BoardAnswers(i)
  <2>1. quest' \in [Questions -> QuestionView]
    BY <1>3 DEF BoardAnswers, QuestionAfter, TypeOK, QuestionView, QuestionStates, Closed
  <2> QED
    BY <1>3, <2>1, CommitType DEF BoardAnswers, TypeOK
<1>4. CASE BoardCancels(i)
    BY <1>1, <1>2, <1>4, AfterType DEF BoardCancels, Events
<1>5. CASE BoardCreates(i)
    BY <1>1, <1>2, <1>5, AfterType DEF BoardCreates, Events
<1>6. CASE OperatorSnoozes(i)
  <2>1. DeadlineTicks + Elapsed \in Nat
    BY TurnAssumption DEF Elapsed
  <2> QED
    BY <1>1, <1>2, <1>6, <2>1, AfterSnoozedType DEF OperatorSnoozes
<1>7. ASSUME NEW p \in Priorities, BoardSetsPriority(i, p)
      PROVE  TypeOK'
    BY <1>1, <1>2, <1>7, AfterPrioritySetType, TurnAssumption DEF BoardSetsPriority
<1> QED
    BY <1>3, <1>4, <1>5, <1>6, <1>7

LEMMA TickType ==
    ASSUME TypeOK, Tick
    PROVE  TypeOK'
<1>1. \A t \in Nat : Less(t) \in Nat /\ Nearer(t) \in Nat
    BY DEF Less, Nearer, Elapsed
<1>2. item' \in [Items -> ItemView]
  <2>1. ASSUME NEW v \in ItemView
        PROVE  [v EXCEPT !.ttl = Less(@), !.wake = Nearer(@), !.block.ttl = Less(@)] \in ItemView
    <3>1. [v.block EXCEPT !.ttl = Less(@)] \in Block
      BY <1>1 DEF ItemView, Block
    <3>2. Less(v.ttl) \in Nat /\ Nearer(v.wake) \in Nat
      BY <1>1 DEF ItemView
    <3> QED
      BY <3>1, <3>2 DEF ItemView
  <2> QED
    BY <2>1 DEF Tick, TypeOK
<1>3. quest' \in [Questions -> QuestionView]
    BY <1>1 DEF Tick, TypeOK, QuestionView
<1> QED
    BY <1>2, <1>3 DEF Tick, TypeOK

\* Every step of every process keeps the types and the shape of a turn.
LEMMA TypeStep ==
    ASSUME TypeOK, TurnShapes, [Next]_vars
    PROVE  TypeOK'
<1>1. ASSUME NEW w \in Workers, TakeTurn(w)
      PROVE  TypeOK'
  <2>1. CASE StartTurn(w)
    <3>1. [NoTurn EXCEPT !.pc = "declare"] \in TurnState
      BY StepNames DEF NoTurn, TurnState, Outcomes
    <3> QED
      BY <2>1, <3>1 DEF StartTurn, TypeOK, Files
  <2>2. CASE Declare(w)
    BY <2>2, CommitType, GotoType, StepNames DEF Declare, Goto, TypeOK, Sweeps
  <2>3. CASE Finish(w)
    <3>1. (mess \/ (SameTree /\ uncommitted \ {Ledger} # {})) \in BOOLEAN
      OBVIOUS
    <3>2. PICK dirty \in BOOLEAN :
             turn' = [turn EXCEPT ![w] = [turn[w] EXCEPT !.pc = "commit_turn", !.dirty = dirty]]
      BY <2>3, <3>1 DEF Finish
    <3>3. [turn[w] EXCEPT !.pc = "commit_turn", !.dirty = dirty] \in TurnState
      BY TurnFields, StepNames DEF TurnState
    <3> QED
      BY <2>3, <3>2, <3>3 DEF Finish, TypeOK, Files
  <2>4. CASE CommitTurn(w)
    <3>1. NoTurn \in TurnState
      BY StepNames DEF NoTurn, TurnState, Outcomes
    <3> QED
      BY <2>4, <3>1, CommitType DEF CommitTurn, TypeOK
  <2>5. CASE Raise(w)
    BY <2>5, DropType DEF Raise, TypeOK
  <2> QED
    BY <1>1, <2>1, <2>2, <2>3, <2>4, <2>5, SweepType, ClaimType, AgentType, DisposeType
    DEF TakeTurn
<1>2. ASSUME NEW w \in Workers, Crash(w)
      PROVE  TypeOK'
    BY <1>2, DropType DEF Crash, TypeOK
<1>3. CASE UNCHANGED vars
    BY <1>3 DEF vars, TypeOK
<1> QED
    BY <1>1, <1>2, <1>3, BoardType, TickType DEF Next

-----------------------------------------------------------------------------
(* One turn at a time: what a step of w does to the processes and the lock. *)

\* w starts a turn, ends one, or goes on with it.
Flight(w) ==
    \/ ~Active(w) /\ lock = None /\ Active(w)' /\ lock' = w
    \/ Active(w) /\ ~Active(w)' /\ lock' = None
    \/ Active(w) /\ Active(w)' /\ lock' = lock

OthersStay(w) == \A v \in Workers \ {w} : turn'[v] = turn[v]

\* A turn that is planning has just begun to, or has written one more item.
Planning(w) ==
    turn'[w].pc = "plan" => turn'[w].paths = {} \/ \E i \in Items : PlanItem(w, i)

\* From the commit of its claim until it disposes of the proposal, a turn holds
\* its item: it has just started it, held it before, or resumes it.
Holding == {"commit_claim", "agent", "suspend", "gate", "done", "propose"}

Holds(w) == turn'[w].pc \in Holding /\ turn'[w].target # None =>
    \/ Start(w) /\ turn'[w].target = turn[w].target
    \/ /\ turn[w].pc \in Holding /\ turn'[w].target = turn[w].target
       /\ UNCHANGED item
    \/ item[turn'[w].target].state = "doing" /\ UNCHANGED item

LEMMA TurnStep ==
    ASSUME TypeOK, NEW w \in Workers, TurnShape(turn[w]), TakeTurn(w) \/ Crash(w)
    PROVE  Flight(w) /\ OthersStay(w) /\ TurnShape(turn'[w]) /\ Planning(w) /\ Holds(w)
<1> USE TurnFields DEF Flight, OthersStay, Planning, Holding, Holds, TurnShape, Active, At, Sweeps, Resolutions, Goto, Conclude, TypeOK, TurnState
<1>1. CASE StartTurn(w)
    BY <1>1 DEF StartTurn, NoTurn
<1>2. CASE Declare(w)
    BY <1>2 DEF Declare
<1>3. CASE Sweep(w)
  <2>1. ASSUME NEW q \in Questions, ApplyAnswer(w, q)
        PROVE  Flight(w) /\ OthersStay(w) /\ TurnShape(turn'[w]) /\ Planning(w) /\ Holds(w)
    BY <2>1 DEF ApplyAnswer, Swept
  <2>2. ASSUME NEW i \in Items,
               Reclaim(w, i) \/ FailLease(w, i) \/ Wake(w, i) \/ TimeOut(w, i) \/ Retry(w, i)
        PROVE  Flight(w) /\ OthersStay(w) /\ TurnShape(turn'[w]) /\ Planning(w) /\ Holds(w)
    <3>1. CASE Reclaim(w, i) \/ Wake(w, i) \/ Retry(w, i)
      BY <3>1 DEF Reclaim, Wake, Retry, Swept
    <3>2. CASE FailLease(w, i)
      BY <3>2 DEF FailLease
    <3>3. CASE TimeOut(w, i)
      <4>1. i # None /\ Resolution(item[i]) \in Resolutions
        BY TurnAssumption DEF Resolution
      <4> QED
        BY <3>3, <4>1 DEF TimeOut
    <3> QED
      BY <2>2, <3>1, <3>2, <3>3
  <2>3. CASE PoisonLease(w) \/ Resolve(w)
    BY <2>3 DEF PoisonLease, Resolve, Resolutions
  <2>4. CASE EndSweep(w)
    BY <2>4 DEF EndSweep, Following, Sweeps
  <2>5. CASE CommitSweep(w)
    BY <2>5 DEF CommitSweep
  <2> QED
    BY <1>3, <2>1, <2>2, <2>3, <2>4, <2>5 DEF Sweep
<1>4. CASE Classify(w) \/ Claim(w) \/ Start(w) \/ CommitClaim(w)
  <2>1. ASSUME NEW i \in Items, Pick(w, i)
        PROVE  Flight(w) /\ OthersStay(w) /\ TurnShape(turn'[w]) /\ Planning(w) /\ Holds(w)
    BY <2>1, TurnAssumption DEF Pick
  <2>2. CASE Plan(w) \/ NothingReady(w)
    BY <2>2 DEF Plan, NothingReady
  <2>3. CASE Claim(w) \/ Start(w) \/ CommitClaim(w)
    BY <2>3 DEF Claim, Start, CommitClaim
  <2> QED
    BY <1>4, <2>1, <2>2, <2>3 DEF Classify
<1>5. CASE Agent(w)
  <2>1. CASE AgentEnds(w) \/ AgentProposes(w)
    BY <2>1 DEF AgentEnds, AgentProposes
  <2>2. ASSUME NEW q \in Questions, AgentDenied(w, q)
        PROVE  Flight(w) /\ OthersStay(w) /\ TurnShape(turn'[w]) /\ Planning(w) /\ Holds(w)
    BY <2>2 DEF AgentDenied
  <2> QED
    BY <1>5, <2>1, <2>2 DEF Agent
<1>6. CASE Dispose(w)
  <2>1. ASSUME NEW i \in Items, PlanItem(w, i)
        PROVE  Flight(w) /\ OthersStay(w) /\ TurnShape(turn'[w]) /\ Planning(w) /\ Holds(w)
    BY <2>1 DEF PlanItem
  <2>2. CASE Suspend(w) \/ PlanDone(w) \/ PlanRefused(w)
    BY <2>2 DEF Suspend, PlanDone, PlanRefused
  <2>3. CASE GatePasses(w) \/ GateRejects(w) \/ AppendDone(w)
    BY <2>3 DEF GatePasses, GateRejects, AppendDone
  <2>4. CASE ProposePlain(w) \/ ProposeBlocked(w) \/ ProposeFailed(w)
    BY <2>4 DEF ProposePlain, ProposeBlocked, ProposeFailed
  <2>5. CASE Poison(w) \/ Reload(w) \/ ProposalRefused(w)
    BY <2>5 DEF Poison, Reload, ProposalRefused
  <2> QED
    BY <1>6, <2>1, <2>2, <2>3, <2>4, <2>5 DEF Dispose
<1>7. CASE Finish(w)
    BY <1>7 DEF Finish
<1>8. CASE CommitTurn(w)
    BY <1>8 DEF CommitTurn, NoTurn
<1>9. CASE Raise(w) \/ Crash(w)
    BY <1>9, StepNames DEF Raise, Refused, Crash, Drop, NoTurn, Sweeps, Resolutions
<1> QED
    BY <1>1, <1>2, <1>3, <1>4, <1>5, <1>6, <1>7, <1>8, <1>9 DEF TakeTurn

\* At most one turn is under way, and it is the holder of the lock.
LEMMA SingleFlightStep ==
    ASSUME TypeOK, TurnShapes, SingleFlight, [Next]_vars
    PROVE  SingleFlight' /\ TurnShapes'
<1>1. ASSUME NEW w \in Workers, TakeTurn(w) \/ Crash(w)
      PROVE  SingleFlight' /\ TurnShapes'
  <2>1. Flight(w) /\ OthersStay(w) /\ TurnShape(turn'[w])
    BY <1>1, TurnStep DEF TurnShapes
  <2>2. SingleFlight'
    BY <2>1, NoWorkerAssumption DEF Flight, OthersStay, Active, SingleFlight, TypeOK
  <2> QED
    BY <2>1, <2>2 DEF OthersStay, TurnShapes
<1>2. CASE Board
    BY <1>2 DEF Board, BoardAnswers, BoardAppends, BoardCancels, BoardCreates,
                OperatorSnoozes, BoardSetsPriority, SingleFlight, Active, TurnShapes
<1>3. CASE Tick \/ UNCHANGED vars
    BY <1>3 DEF Tick, vars, SingleFlight, Active, TurnShapes
<1> QED
    BY <1>1, <1>2, <1>3 DEF Next

LEMMA InitTyped == Init => TypeOK /\ TurnShapes /\ SingleFlight
<1> SUFFICES ASSUME Init PROVE TypeOK /\ TurnShapes /\ SingleFlight
    OBVIOUS
<1>1. NoItem \in ItemView
    BY DEF NoItem, ItemView, NoBlock, Block, NoRef, NoFailure
<1>2. NoQuestionAsked \in QuestionView
    BY DEF NoQuestionAsked, QuestionView, Policies
<1>3. NoTurn \in TurnState
    BY StepNames DEF NoTurn, TurnState, Outcomes
<1>4. TypeOK
    BY <1>1, <1>2, <1>3 DEF Init, TypeOK
<1> QED
    BY <1>4, NoWorkerAssumption DEF Init, NoTurn, TurnShapes, TurnShape, SingleFlight, Active, Resolutions

\* Every variable has its type: no fold ever leaves an item in an undeclared
\* state, whatever return_to the agents write (eventlog._fold's target check).
THEOREM TypeCorrect == Spec => []TypeOK
<1> DEFINE Inv == TypeOK /\ TurnShapes /\ SingleFlight
<1>1. Init => Inv
    BY InitTyped
<1>2. Inv /\ [Next]_vars => Inv'
    BY TypeStep, SingleFlightStep
<1> QED
    BY <1>1, <1>2, PTL DEF Spec

\* For any number of workers and crashes, one turn at a time, and the lock is
\* held exactly while one is under way (supervise.single_flight).
THEOREM OneTurnAtATime == Spec => []SingleFlight
<1> DEFINE Inv == TypeOK /\ TurnShapes /\ SingleFlight
<1>1. Init => Inv
    BY InitTyped
<1>2. Inv /\ [Next]_vars => Inv'
    BY TypeStep, SingleFlightStep
<1> QED
    BY <1>1, <1>2, PTL DEF Spec

-----------------------------------------------------------------------------
(***************************************************************************)
(* TurnCycle implements ItemLifecycle: every step of a turn, of the board  *)
(* or of time is a step of one item's life, or changes none.               *)
(*                                                                         *)
(* What the steps rely on beside the types: a lease that can still be read *)
(* is the latest claim, a closed item shows no failure, an item that does  *)
(* not exist has lost nothing, and what a planning turn may take back is as*)
(* it was created.                                                         *)
(***************************************************************************)
LeaseIsLatestClaim == \A i \in Items :
    item[i].state \in Behind => item[i].attempt = item[i].claims

FailureIsOpen == \A i \in Items :
    item[i].state \in Terminal => item[i].failure.attempt = 0

AbsentIsNew == \A i \in Items : item[i].state = Absent => losses[i] = 0

PlannedIsNew == \A w \in Workers : At(w, "plan") =>
    \A i \in Items \cap turn[w].paths : item[i].state = "ready" /\ losses[i] = 0

\* While a turn holds its item, it is being done, or somebody has closed it.
TurnHoldsItem == \A w \in Workers :
    turn[w].pc \in Holding /\ turn[w].target # None
        => item[turn[w].target].state \in {"doing"} \cup Terminal

LifeInv == /\ LeaseIsLatestClaim /\ FailureIsOpen /\ AbsentIsNew
           /\ PlannedIsNew /\ TurnHoldsItem

Inv == TypeOK /\ TurnShapes /\ SingleFlight /\ LifeInv

-----------------------------------------------------------------------------
(* The events one by one.                                                  *)

\* The events that take up no item and, appended as such, spend no attempt.
Plain == Events \ {"claimed", "failed", "retried"}

Goes(s, t) == \/ t = s
              \/ s = Absent /\ t = "ready"
              \/ t \in Lifecycle!Onward(s)
              \/ s \in NonTerminal /\ t \in Terminal

LEMMA PlainEvents ==
    ASSUME NEW v \in ItemView, NEW e \in Plain, Accepts(v, e)
    PROVE  /\ Goes(v.state, Target(v, e))
           /\ Target(v, e) \in Behind => v.state \in Behind
<1> DEFINE t == Target(v, e)
<1> USE DEF Goes, Behind, Leased, NonTerminal, Terminal, States, Absent, Stay, Stored,
            Lifecycle!Onward, Lifecycle!Terminal, Lifecycle!States
<1>1. v.state \in From[e] /\ t \in States
    BY DEF Accepts
<1>2. CASE e \in {"created", "priority_set", "frame_amended", "note", "gate_rejected"}
    BY <1>1, <1>2 DEF Target, From, To, Events, Plain
<1>3. CASE e \in {"started", "released", "reclaimed", "blocked"}
    BY <1>1, <1>3 DEF Target, From, To, Events, Plain
<1>4. CASE e \in {"snoozed", "woke", "needs_split"}
    BY <1>1, <1>4 DEF Target, From, To, Events, Plain
<1>5. CASE e \in {"falsified", "done", "poisoned"}
    BY <1>1, <1>5 DEF Target, From, To, Events, Plain
<1>6. CASE e \in {"cancelled", "duplicate", "abandoned"}
    BY <1>1, <1>6 DEF Target, From, To, Events, Plain
<1>7. CASE e = "unblocked"
  <2>1. v.state = "blocked" /\ t = v.block.ret
    BY <1>1, <1>7 DEF Target, From, To, Events
  <2>2. t \in ReturnTargets \cup {"none", "doing"}
    BY <2>1 DEF ItemView, Block
  <2> QED
    BY <1>1, <2>1, <2>2, TurnAssumption
<1> QED
    BY <1>2, <1>3, <1>4, <1>5, <1>6, <1>7 DEF Plain, Events

(* The conjuncts of LifeInv about items, and a step of one item's life.    *)
ItemInv == LeaseIsLatestClaim /\ FailureIsOpen /\ AbsentIsNew

LifeStep == [Lifecycle!Next]_(Lifecycle!vars)

\* v is the view after the event up to what ItemLifecycle does not see.
Like(v, a) == /\ v \in ItemView
              /\ v.state = a.state /\ v.claims = a.claims
              /\ v.attempt = a.attempt /\ v.failure = a.failure

\* The four variables of ItemLifecycle after item i's view has become v.
LEMMA LifeOfItem ==
    ASSUME TypeOK, NEW i \in Items, NEW v \in ItemView, item' = [item EXCEPT ![i] = v]
    PROVE  /\ [x \in Items |-> item'[x].state]
                 = [[x \in Items |-> item[x].state] EXCEPT ![i] = v.state]
           /\ [x \in Items |-> item'[x].claims]
                 = [[x \in Items |-> item[x].claims] EXCEPT ![i] = v.claims]
           /\ [x \in Items |-> item'[x].failure.attempt]
                 = [[x \in Items |-> item[x].failure.attempt] EXCEPT ![i] = v.failure.attempt]
    BY DEF TypeOK

LEMMA ItemInvAfter ==
    ASSUME TypeOK, ItemInv, NEW i \in Items, NEW v \in ItemView,
           item' = [item EXCEPT ![i] = v],
           \A j \in Items \ {i} : losses'[j] = losses[j],
           v.state \in Behind => v.attempt = v.claims,
           v.state \in Terminal => v.failure.attempt = 0,
           v.state # Absent
    PROVE  ItemInv'
    BY DEF TypeOK, ItemInv, LeaseIsLatestClaim, FailureIsOpen, AbsentIsNew

LEMMA PlainStep ==
    ASSUME TypeOK, ItemInv, NEW i \in Items, NEW e \in Plain, Accepts(item[i], e),
           NEW v, Like(v, After(item[i], e)),
           item' = [item EXCEPT ![i] = v], UNCHANGED losses
    PROVE  LifeStep /\ ItemInv'
<1> DEFINE u == item[i]
           t == Target(u, e)
<1>1. u \in ItemView /\ e \in Events
    BY DEF TypeOK, Plain
<1>2. /\ v \in ItemView /\ v.state = t /\ v.claims = u.claims
      /\ v.attempt = (IF t \in Behind THEN u.attempt ELSE 0)
      /\ v.failure.attempt = (IF t \in Terminal THEN 0 ELSE u.failure.attempt)
    BY DEF Like, After, NoFailure
<1>3. /\ Goes(u.state, t) /\ t \in States
      /\ t \in Behind => u.state \in Behind
    BY <1>1, PlainEvents DEF Accepts
<1>4. /\ u.state \in Behind => u.attempt = u.claims
      /\ u.state \in Terminal => u.failure.attempt = 0
    BY DEF ItemInv, LeaseIsLatestClaim, FailureIsOpen
<1> HIDE DEF u, t
<1>5. ItemInv'
  <2>1. t # Absent
    BY <1>3 DEF States, Absent
  <2> QED
    BY <1>1, <1>2, <1>3, <1>4, <2>1, ItemInvAfter
<1>6. LifeStep
  <2> DEFINE life == [x \in Items |-> item[x].state]
             rep == [x \in Items |-> item[x].failure.attempt]
             cl == [x \in Items |-> item[x].claims]
  <2>1. /\ [x \in Items |-> item'[x].state] = [life EXCEPT ![i] = t]
        /\ [x \in Items |-> item'[x].claims] = [cl EXCEPT ![i] = u.claims]
        /\ [x \in Items |-> item'[x].failure.attempt] = [rep EXCEPT ![i] = v.failure.attempt]
    <3>1. v \in ItemView
      BY <1>2
    <3>2. /\ [x \in Items |-> item'[x].state] = [life EXCEPT ![i] = v.state]
          /\ [x \in Items |-> item'[x].claims] = [cl EXCEPT ![i] = v.claims]
          /\ [x \in Items |-> item'[x].failure.attempt] = [rep EXCEPT ![i] = v.failure.attempt]
      BY <3>1, LifeOfItem
    <3> QED
      BY <1>2, <3>2
  <2>2. life[i] = u.state /\ [cl EXCEPT ![i] = u.claims] = cl
    BY DEF u
  <2>3. CASE t = u.state
    <3>1. v.failure.attempt = rep[i]
      BY <1>2, <1>4, <2>3 DEF u
    <3>2. [life EXCEPT ![i] = t] = life /\ [rep EXCEPT ![i] = v.failure.attempt] = rep
      BY <2>2, <2>3, <3>1
    <3> QED
      BY <2>1, <2>2, <3>2 DEF LifeStep, Lifecycle!vars
  <2>4. CASE t # u.state
    <3>1. v.failure.attempt = (IF t \in Terminal THEN 0 ELSE rep[i])
      BY <1>2 DEF u
    <3>2. t \notin Terminal => [rep EXCEPT ![i] = v.failure.attempt] = rep
      BY <3>1
    <3> HIDE DEF rep, life, cl
    <3>3. /\ Lifecycle!States = States /\ Lifecycle!Absent = Absent
          /\ Lifecycle!NonTerminal = NonTerminal /\ Lifecycle!Terminal = Terminal
          /\ "ready" \notin Terminal
      BY DEF Lifecycle!States, Lifecycle!Absent, Lifecycle!NonTerminal, Lifecycle!Terminal,
             States, Absent, NonTerminal, Terminal
    <3>4. CASE u.state = Absent /\ t = "ready"
      <4>1. Lifecycle!Create(i)
        BY <2>1, <2>2, <3>2, <3>3, <3>4 DEF life, rep, cl, Lifecycle!Create, Lifecycle!Enter
      <4> QED
        BY <4>1 DEF LifeStep, Lifecycle!Next, Lifecycle!Step
    <3>5. CASE t \in Lifecycle!Onward(u.state)
      <4>1. t \notin Terminal
        BY <3>5 DEF Lifecycle!Onward, Lifecycle!States, Lifecycle!Terminal, States, Terminal
      <4>2. Lifecycle!Move(i, t)
        BY <2>1, <2>2, <3>2, <3>5, <4>1 DEF life, rep, cl, Lifecycle!Move, Lifecycle!Enter
      <4> QED
        BY <1>3, <3>3, <4>2 DEF LifeStep, Lifecycle!Next, Lifecycle!Step
    <3>6. CASE u.state \in NonTerminal /\ t \in Terminal
      <4>1. PICK s \in Lifecycle!States : s = t
        BY <1>3, <3>3
      <4>2. Lifecycle!Close(i, s)
        BY <2>1, <2>2, <3>1, <3>3, <3>6, <4>1 DEF life, rep, cl, Lifecycle!Close
      <4>3. Lifecycle!Step(i)
        BY <4>2 DEF Lifecycle!Step
      <4> QED
        BY <4>3 DEF LifeStep, Lifecycle!Next
    <3> QED
      BY <1>3, <2>4, <3>4, <3>5, <3>6 DEF Goes
  <2> QED
    BY <2>3, <2>4
<1> QED
    BY <1>5, <1>6

-----------------------------------------------------------------------------
(* The events that spend an attempt or take an item up again.              *)

LEMMA ClaimStep ==
    ASSUME TypeOK, ItemInv, NEW i \in Items, Accepts(item[i], "claimed"),
           item' = [item EXCEPT ![i] = AfterClaimed(item[i], NextClaim(item[i]),
                                                    NextClaim(item[i]), LeaseTicks)],
           UNCHANGED losses
    PROVE  LifeStep /\ ItemInv'
<1> DEFINE n == NextClaim(item[i])
           v == AfterClaimed(item[i], n, n, LeaseTicks)
           cl == [x \in Items |-> item[x].claims]
<1>1. item[i] \in ItemView /\ item[i].claims \in Nat
    BY DEF TypeOK, ItemView
<1>2. n \in Nat /\ n = Lifecycle!Count(item[i].claims)
    BY <1>1, TurnAssumption DEF NextClaim, Lifecycle!Count
<1>3. v \in ItemView
    BY <1>1, <1>2, AfterClaimedType, TurnAssumption
<1>4. item[i].state = "ready" /\ Target(item[i], "claimed") = "claimed"
    BY DEF Accepts, Target, From, To, Events, Stay, Stored
<1>5. /\ v.state = "claimed" /\ v.claims = n /\ v.attempt = n
      /\ v.failure.attempt = item[i].failure.attempt
    BY <1>4 DEF AfterClaimed, After, Terminal
<1> HIDE DEF v, n
<1>6. /\ item' = [item EXCEPT ![i] = v]
      /\ [x \in Items |-> item'[x].state]
            = [[x \in Items |-> item[x].state] EXCEPT ![i] = "claimed"]
      /\ [x \in Items |-> item'[x].claims] = [cl EXCEPT ![i] = n]
      /\ [x \in Items |-> item'[x].failure.attempt] = [x \in Items |-> item[x].failure.attempt]
  <2>1. item' = [item EXCEPT ![i] = v]
    BY DEF v, n
  <2>2. /\ [x \in Items |-> item'[x].state]
              = [[x \in Items |-> item[x].state] EXCEPT ![i] = v.state]
        /\ [x \in Items |-> item'[x].claims] = [cl EXCEPT ![i] = v.claims]
        /\ [x \in Items |-> item'[x].failure.attempt]
              = [[x \in Items |-> item[x].failure.attempt] EXCEPT ![i] = v.failure.attempt]
    BY <1>3, <2>1, LifeOfItem
  <2> QED
    BY <1>5, <2>1, <2>2
<1>7. ItemInv'
    BY <1>3, <1>5, <1>6, ItemInvAfter DEF Absent, Terminal
<1>8. Lifecycle!Claim(i)
    BY <1>2, <1>4, <1>6 DEF Lifecycle!Claim, Lifecycle!Enter
<1> QED
    BY <1>7, <1>8 DEF LifeStep, Lifecycle!Next, Lifecycle!Step

LEMMA FailStep ==
    ASSUME TypeOK, ItemInv, NEW i \in Items, Accepts(item[i], "failed"),
           NEW attempt \in {item[i].attempt} \cup Misreports, NEW retryable \in BOOLEAN,
           item' = [item EXCEPT ![i] = AfterFailed(item[i], attempt, retryable)],
           Reported(i, attempt)
    PROVE  LifeStep /\ ItemInv'
<1> DEFINE v == AfterFailed(item[i], attempt, retryable)
           cl == [x \in Items |-> item[x].claims]
<1>1. item[i] \in ItemView /\ item[i].attempt \in Nat
    BY DEF TypeOK, ItemView
<1>2. item[i].state \in Leased /\ Target(item[i], "failed") = "failed"
    BY DEF Accepts, Target, From, To, Events, Stay, Stored
<1>3. attempt \in Nat /\ attempt \in {item[i].claims} \cup Misreports
    BY <1>1, <1>2, TurnAssumption DEF ItemInv, LeaseIsLatestClaim, Behind
<1>4. v \in ItemView
    BY <1>1, <1>3, AfterFailedType
<1>5. v.state = "failed" /\ v.claims = item[i].claims /\ v.failure.attempt = attempt
    BY <1>2 DEF AfterFailed, After
<1>6. item' = [item EXCEPT ![i] = v]
    OBVIOUS
<1> HIDE DEF v
<1>7. /\ [x \in Items |-> item'[x].state]
            = [[x \in Items |-> item[x].state] EXCEPT ![i] = v.state]
      /\ [x \in Items |-> item'[x].claims] = [cl EXCEPT ![i] = v.claims]
      /\ [x \in Items |-> item'[x].failure.attempt]
            = [[x \in Items |-> item[x].failure.attempt] EXCEPT ![i] = v.failure.attempt]
    BY <1>4, <1>6, LifeOfItem
<1>8. ItemInv'
  <2>1. \A j \in Items \ {i} : losses'[j] = losses[j]
    BY DEF Reported, Lost, TypeOK
  <2> QED
    BY <1>4, <1>5, <1>6, <2>1, ItemInvAfter DEF Absent, Behind, Leased, Terminal
<1>9. Lifecycle!Fail(i, attempt)
  <2>1. [cl EXCEPT ![i] = v.claims] = cl
    BY <1>5
  <2>2. item[i].attempt = item[i].claims
    BY <1>2 DEF ItemInv, LeaseIsLatestClaim, Behind
  <2> QED
    BY <1>2, <1>3, <1>5, <1>7, <2>1, <2>2
    DEF Lifecycle!Fail, Lifecycle!Leased, Leased, Reported, Lost
<1> QED
    BY <1>3, <1>8, <1>9 DEF LifeStep, Lifecycle!Next, Lifecycle!Step

\* `reclaimed` and `retried` make the item ready again.
LEMMA ReadyAgain ==
    ASSUME TypeOK, ItemInv, NEW i \in Items, NEW e \in {"reclaimed", "retried"},
           Accepts(item[i], e), item' = [item EXCEPT ![i] = After(item[i], e)],
           \A j \in Items \ {i} : losses'[j] = losses[j]
    PROVE  /\ ItemInv'
           /\ Lifecycle!Enter(i, "ready")
           /\ UNCHANGED [x \in Items |-> item[x].claims]
<1> DEFINE v == After(item[i], e)
           cl == [x \in Items |-> item[x].claims]
<1>1. item[i] \in ItemView /\ e \in Events
    BY DEF TypeOK, Events
<1>2. Target(item[i], e) = "ready"
    BY DEF Target, To, Events, Stay, Stored
<1>3. v \in ItemView
    BY <1>1, AfterType
<1>4. /\ v.state = "ready" /\ v.claims = item[i].claims
      /\ v.failure.attempt = item[i].failure.attempt
    BY <1>2 DEF After, Terminal
<1>5. item' = [item EXCEPT ![i] = v]
    OBVIOUS
<1> HIDE DEF v
<1>6. /\ [x \in Items |-> item'[x].state]
            = [[x \in Items |-> item[x].state] EXCEPT ![i] = v.state]
      /\ [x \in Items |-> item'[x].claims] = [cl EXCEPT ![i] = v.claims]
      /\ [x \in Items |-> item'[x].failure.attempt]
            = [[x \in Items |-> item[x].failure.attempt] EXCEPT ![i] = v.failure.attempt]
    BY <1>3, <1>5, LifeOfItem
<1>7. ItemInv'
    BY <1>3, <1>4, <1>5, ItemInvAfter DEF Absent, Behind, Leased, Terminal
<1>8. /\ [cl EXCEPT ![i] = v.claims] = cl
      /\ [[x \in Items |-> item[x].failure.attempt] EXCEPT ![i] = v.failure.attempt]
            = [x \in Items |-> item[x].failure.attempt]
    BY <1>4
<1> QED
    BY <1>4, <1>6, <1>7, <1>8 DEF Lifecycle!Enter

LEMMA ReclaimStep ==
    ASSUME TypeOK, ItemInv, NEW i \in Items, item[i].state \in Leased,
           item[i].attempt < MaxAttempts,
           item' = [item EXCEPT ![i] = After(item[i], "reclaimed")], Lost(i)
    PROVE  LifeStep /\ ItemInv'
<1>1. Accepts(item[i], "reclaimed")
    BY SweptEventsAreAccepted DEF TypeOK
<1>2. \A j \in Items \ {i} : losses'[j] = losses[j]
    BY DEF Lost, TypeOK
<1>3. /\ ItemInv' /\ Lifecycle!Enter(i, "ready")
      /\ UNCHANGED [x \in Items |-> item[x].claims]
    BY <1>1, <1>2, ReadyAgain
<1>4. item[i].attempt = item[i].claims
    BY DEF ItemInv, LeaseIsLatestClaim, Behind
<1>5. Lifecycle!Expire(i)
    BY <1>3, <1>4 DEF Lifecycle!Expire, Lifecycle!Leased, Leased, Lost
<1> QED
    BY <1>3, <1>5 DEF LifeStep, Lifecycle!Next, Lifecycle!Step

LEMMA RetryStep ==
    ASSUME TypeOK, ItemInv, NEW i \in Items, Retryable(item[i]),
           item' = [item EXCEPT ![i] = After(item[i], "retried")], UNCHANGED losses
    PROVE  LifeStep /\ ItemInv'
<1>1. Accepts(item[i], "retried")
    BY SweptEventsAreAccepted DEF TypeOK, Retryable
<1>2. /\ ItemInv' /\ Lifecycle!Enter(i, "ready")
      /\ UNCHANGED [x \in Items |-> item[x].claims]
    BY <1>1, ReadyAgain
<1>3. Lifecycle!Retry(i)
    BY <1>2 DEF Lifecycle!Retry, Retryable
<1> QED
    BY <1>2, <1>3 DEF LifeStep, Lifecycle!Next, Lifecycle!Step

LEMMA DiscardStep ==
    ASSUME TypeOK, ItemInv, NEW w \in Workers, PlannedIsNew, PlanRefused(w)
    PROVE  LifeStep /\ ItemInv'
<1>0. PICK created \in SUBSET Items : created = Items \cap turn[w].paths
    OBVIOUS
<1>1. \A i \in created : item[i].state = "ready" /\ losses[i] = 0
    BY <1>0 DEF PlannedIsNew, PlanRefused
<1>2. /\ item' = [i \in Items |-> IF i \in created THEN NoItem ELSE item[i]]
      /\ UNCHANGED losses
    BY <1>0 DEF PlanRefused
<1>3. ItemInv'
    BY <1>1, <1>2
    DEF ItemInv, LeaseIsLatestClaim, FailureIsOpen, AbsentIsNew, NoItem, NoFailure,
        Behind, Leased, Absent, Terminal
<1>4. Lifecycle!Discard(created)
    BY <1>1, <1>2 DEF Lifecycle!Discard, NoItem, NoFailure, Lifecycle!Absent, Absent
<1> QED
    BY <1>3, <1>4 DEF LifeStep, Lifecycle!Next

-----------------------------------------------------------------------------
(* The actions.                                                            *)

LEMMA StandStill ==
    ASSUME ItemInv, UNCHANGED <<item, losses>>
    PROVE  LifeStep /\ ItemInv'
    BY DEF LifeStep, Lifecycle!vars, ItemInv, LeaseIsLatestClaim, FailureIsOpen, AbsentIsNew

LEMMA LikeItself ==
    ASSUME NEW v \in ItemView, NEW e \in Events, Accepts(v, e)
    PROVE  Like(After(v, e), After(v, e))
    BY AfterType DEF Like

\* append() of an event that spends no attempt.
LEMMA PlainAppend ==
    ASSUME TypeOK, ItemInv, NEW i \in Items \cup {None}, NEW e \in Plain,
           Accepts(item[i], e), Append(i, After(item[i], e)), UNCHANGED losses
    PROVE  LifeStep /\ ItemInv'
<1>1. CASE i \in Items
  <2>1. item[i] \in ItemView /\ e \in Events
    BY <1>1 DEF TypeOK, Plain
  <2> QED
    BY <1>1, <2>1, LikeItself, PlainStep DEF Append
<1>2. CASE i \notin Items
    BY <1>2, StandStill DEF Append, TypeOK
<1> QED
    BY <1>1, <1>2

LEMMA BlockStep ==
    ASSUME TypeOK, ItemInv, NEW i \in Items \cup {None}, NEW b \in Block,
           Accepts(item[i], "blocked"), Append(i, AfterBlocked(item[i], b)),
           UNCHANGED losses
    PROVE  LifeStep /\ ItemInv'
<1>1. CASE i \in Items
  <2>1. item[i] \in ItemView
    BY <1>1 DEF TypeOK
  <2>2. Like(AfterBlocked(item[i], b), After(item[i], "blocked"))
    BY <2>1, AfterBlockedType DEF Like, AfterBlocked, After
  <2>3. "blocked" \in Plain
    BY DEF Plain, Events
  <2> QED
    BY <1>1, <2>2, <2>3, PlainStep DEF Append
<1>2. CASE i \notin Items
    BY <1>2, StandStill DEF Append, TypeOK
<1> QED
    BY <1>1, <1>2

LEMMA SweepImplements ==
    ASSUME TypeOK, ItemInv, NEW w \in Workers, Sweep(w)
    PROVE  LifeStep /\ ItemInv'
<1> USE TurnFields
<1>1. ASSUME NEW q \in Questions, ApplyAnswer(w, q)
      PROVE  LifeStep /\ ItemInv'
  <2>1. quest[q].item \in Items \cup {None} /\ "unblocked" \in Plain
    BY DEF TypeOK, QuestionView, Plain, Events
  <2> QED
    BY <1>1, <2>1, PlainAppend DEF ApplyAnswer
<1>2. ASSUME NEW i \in Items, Reclaim(w, i)
      PROVE  LifeStep /\ ItemInv'
  <2>1. item[i].state \in Leased
    BY <1>2 DEF Reclaim, NextUp, Ahead, At, Due, LeaseExpired
  <2> QED
    BY <1>2, <2>1, ReclaimStep DEF Reclaim, Append
<1>3. ASSUME NEW i \in Items, FailLease(w, i)
      PROVE  LifeStep /\ ItemInv'
  <2>1. item[i].state \in Leased
    BY <1>3 DEF FailLease, NextUp, Ahead, At, Due, LeaseExpired
  <2>2. Accepts(item[i], "failed")
    BY <2>1, SweptEventsAreAccepted DEF TypeOK
  <2>3. item[i].attempt \in Nat
    BY DEF TypeOK, ItemView
  <2>4. Reported(i, item[i].attempt)
    BY <1>3, <2>3 DEF FailLease, Reported
  <2> QED
    BY <1>3, <2>2, <2>4, FailStep DEF FailLease, Append
<1>4. ASSUME NEW i \in Items, Wake(w, i)
      PROVE  LifeStep /\ ItemInv'
  <2>1. item[i].state = "snoozed"
    BY <1>4 DEF Wake, NextUp, Ahead, At, Due
  <2>2. Accepts(item[i], "woke") /\ "woke" \in Plain
    BY <2>1, SweptEventsAreAccepted DEF TypeOK, Plain, Events
  <2> QED
    BY <1>4, <2>2, PlainAppend DEF Wake
<1>5. ASSUME NEW i \in Items, TimeOut(w, i)
      PROVE  LifeStep /\ ItemInv'
    BY <1>5, StandStill DEF TimeOut
<1>6. ASSUME NEW i \in Items, Retry(w, i)
      PROVE  LifeStep /\ ItemInv'
  <2>1. Retryable(item[i])
    BY <1>6 DEF Retry, NextUp, Ahead, At, Due
  <2> QED
    BY <1>6, <2>1, RetryStep DEF Retry, Append
<1>7. CASE PoisonLease(w)
  <2>1. "poisoned" \in Plain
    BY DEF Plain, Events
  <2> QED
    BY <1>7, <2>1, PlainAppend DEF PoisonLease
<1>8. CASE Resolve(w)
  <2>1. turn[w].pc \in Plain
    BY <1>8 DEF Resolve, Resolutions, Plain, Events
  <2> QED
    BY <1>8, <2>1, PlainAppend DEF Resolve
<1>9. CASE EndSweep(w) \/ CommitSweep(w)
    BY <1>9, StandStill DEF EndSweep, CommitSweep
<1> QED
    BY <1>1, <1>2, <1>3, <1>4, <1>5, <1>6, <1>7, <1>8, <1>9 DEF Sweep

LEMMA ActImplements ==
    ASSUME TypeOK, TurnShapes, ItemInv, NEW w \in Workers,
           Classify(w) \/ Claim(w) \/ Start(w) \/ CommitClaim(w) \/ Agent(w)
    PROVE  LifeStep /\ ItemInv'
<1> USE TurnFields
<1>1. CASE Claim(w)
  <2>1. turn[w].target \in Items
    BY <1>1 DEF Claim, At, TurnShapes, TurnShape
  <2> QED
    BY <1>1, <2>1, ClaimStep DEF Claim, Append
<1>2. CASE Start(w)
  <2>1. "started" \in Plain
    BY DEF Plain, Events
  <2> QED
    BY <1>2, <2>1, PlainAppend DEF Start
<1>3. CASE Classify(w) \/ CommitClaim(w) \/ Agent(w)
    BY <1>3, StandStill
    DEF Classify, Pick, Plan, NothingReady, CommitClaim,
        Agent, AgentEnds, AgentProposes, AgentDenied
<1> QED
    BY <1>1, <1>2, <1>3

LEMMA DisposeImplements ==
    ASSUME TypeOK, TurnShapes, ItemInv, PlannedIsNew, TurnHoldsItem,
           NEW w \in Workers, Dispose(w)
    PROVE  LifeStep /\ ItemInv'
<1> DEFINE i == turn[w].target
<1> USE TurnFields
<1>1. CASE Suspend(w)
  <2> DEFINE b == [kind |-> "question", ref |-> AskedNow(w), ret |-> "doing", ttl |-> 0,
                   policy |-> "none"]
  <2>1. AskedNow(w) \in Questions
    BY <1>1 DEF Suspend, At, TurnShapes, TurnShape, AskedNow
  <2>2. b \in Block
    BY <2>1 DEF Block
  <2> QED
    BY <1>1, <2>2, BlockStep DEF Suspend
<1>2. ASSUME NEW j \in Items, PlanItem(w, j)
      PROVE  LifeStep /\ ItemInv'
  <2>1. Accepts(item[j], "created") /\ "created" \in Plain
    BY <1>2, SweptEventsAreAccepted DEF PlanItem, TypeOK, Plain, Events
  <2> QED
    BY <1>2, <2>1, PlainAppend DEF PlanItem
<1>3. CASE PlanRefused(w)
    BY <1>3, DiscardStep
<1>4. CASE GateRejects(w)
  <2>1. "gate_rejected" \in Plain
    BY DEF Plain, Events
  <2> QED
    BY <1>4, <2>1, PlainAppend DEF GateRejects
<1>5. CASE AppendDone(w)
  <2>1. "done" \in Plain
    BY DEF Plain, Events
  <2> QED
    BY <1>5, <2>1, PlainAppend DEF AppendDone
<1>6. CASE ProposePlain(w)
  <2>1. PICK e \in Proposals \ {"failed", "blocked"} :
            Accepts(item[i], e) /\ Append(i, After(item[i], e))
    BY <1>6 DEF ProposePlain
  <2>2. CASE i \in Items
    <3>1. item[i].state \in {"doing"} \cup Terminal
      BY <1>6, <2>2, TurnAssumption DEF ProposePlain, At, TurnHoldsItem, Holding
    <3>2. e # "claimed" /\ e # "retried"
      BY <2>1, <3>1 DEF Accepts, From, Events, Terminal
    <3>3. e \in Plain
      BY <3>2, TurnAssumption DEF Plain
    <3> QED
      BY <1>6, <2>1, <3>3, PlainAppend DEF ProposePlain
  <2>3. CASE i \notin Items
    BY <1>6, <2>1, <2>3, StandStill DEF ProposePlain, Append, TypeOK
  <2> QED
    BY <2>2, <2>3
<1>7. CASE ProposeBlocked(w)
  <2>1. PICK b \in AgentBlocks : Append(i, AfterBlocked(item[i], b))
    BY <1>7 DEF ProposeBlocked
  <2> QED
    BY <1>7, <2>1, AgentBlocksType, BlockStep DEF ProposeBlocked
<1>8. CASE ProposeFailed(w)
  <2>1. PICK attempt \in {item[i].attempt} \cup Misreports, retryable \in BOOLEAN :
            Append(i, AfterFailed(item[i], attempt, retryable)) /\ Reported(i, attempt)
    BY <1>8 DEF ProposeFailed
  <2>2. CASE i \in Items
    BY <1>8, <2>1, <2>2, FailStep DEF ProposeFailed, Append
  <2>3. CASE i \notin Items
    BY <2>1, <2>3, StandStill DEF Reported, Lost, Append, TypeOK
  <2> QED
    BY <2>2, <2>3
<1>9. CASE Poison(w)
  <2>1. "poisoned" \in Plain
    BY DEF Plain, Events
  <2> QED
    BY <1>9, <2>1, PlainAppend DEF Poison
<1>10. CASE PlanDone(w) \/ GatePasses(w) \/ Reload(w) \/ ProposalRefused(w)
    BY <1>10, StandStill DEF PlanDone, GatePasses, Reload, ProposalRefused
<1> QED
    BY <1>1, <1>2, <1>3, <1>4, <1>5, <1>6, <1>7, <1>8, <1>9, <1>10 DEF Dispose

LEMMA BoardImplements ==
    ASSUME TypeOK, ItemInv, Board
    PROVE  LifeStep /\ ItemInv'
<1> PICK i \in Items : \/ BoardAnswers(i) \/ BoardCancels(i)
                       \/ BoardCreates(i) \/ OperatorSnoozes(i)
                       \/ \E p \in Priorities : BoardSetsPriority(i, p)
    BY DEF Board
<1>1. item[i] \in ItemView
    BY DEF TypeOK
<1>2. ASSUME NEW e \in Plain, Accepts(item[i], e), NEW v, Like(v, After(item[i], e)),
             BoardAppends(i, v)
      PROVE  LifeStep /\ ItemInv'
    BY <1>2, PlainStep DEF BoardAppends
<1>3. {"cancelled", "created", "snoozed", "priority_set"} \subseteq Plain \cap Events
    BY DEF Plain, Events
<1>4. CASE BoardAnswers(i)
    BY <1>4, StandStill DEF BoardAnswers
<1>5. CASE BoardCancels(i)
    BY <1>1, <1>2, <1>3, <1>5, LikeItself DEF BoardCancels
<1>6. CASE BoardCreates(i)
    BY <1>1, <1>2, <1>3, <1>6, LikeItself DEF BoardCreates
<1>7. CASE OperatorSnoozes(i)
  <2>1. Like(AfterSnoozed(item[i], DeadlineTicks + Elapsed), After(item[i], "snoozed"))
    BY <1>1, <1>7, AfterSnoozedType, TurnAssumption
    DEF OperatorSnoozes, Like, AfterSnoozed, After, Elapsed
  <2> QED
    BY <1>2, <1>3, <1>7, <2>1 DEF OperatorSnoozes
<1>8. ASSUME NEW p \in Priorities, BoardSetsPriority(i, p)
      PROVE  LifeStep /\ ItemInv'
  <2>1. Like(AfterPrioritySet(item[i], p), After(item[i], "priority_set"))
    BY <1>1, <1>8, AfterPrioritySetType, TurnAssumption
    DEF BoardSetsPriority, Like, AfterPrioritySet, After
  <2> QED
    BY <1>2, <1>3, <1>8, <2>1 DEF BoardSetsPriority
<1> QED
    BY <1>4, <1>5, <1>6, <1>7, <1>8

LEMMA TickImplements ==
    ASSUME TypeOK, ItemInv, Tick
    PROVE  LifeStep /\ ItemInv'
<1>1. \A i \in Items : /\ item'[i].state = item[i].state
                       /\ item'[i].claims = item[i].claims
                       /\ item'[i].attempt = item[i].attempt
                       /\ item'[i].failure = item[i].failure
    BY DEF Tick, TypeOK, ItemView
<1>2. UNCHANGED losses
    BY DEF Tick
<1>3. ItemInv'
    BY <1>1, <1>2 DEF ItemInv, LeaseIsLatestClaim, FailureIsOpen, AbsentIsNew
<1>4. UNCHANGED Lifecycle!vars
    BY <1>1, <1>2 DEF Lifecycle!vars
<1> QED
    BY <1>3, <1>4 DEF LifeStep

-----------------------------------------------------------------------------
(* The conjuncts of LifeInv about turns.                                   *)

LEMMA TurnKeepsItsInv ==
    ASSUME Inv, NEW w \in Workers, TakeTurn(w) \/ Crash(w)
    PROVE  PlannedIsNew' /\ TurnHoldsItem'
<1> USE DEF Inv
<1>1. /\ Flight(w) /\ OthersStay(w) /\ TurnShape(turn'[w]) /\ Planning(w) /\ Holds(w)
      /\ TypeOK'
  <2>1. [Next]_vars
    BY DEF Next
  <2> QED
    BY <2>1, TurnStep, TypeStep DEF TurnShapes
<1>2. \A v \in Workers \ {w} : turn'[v].pc = "idle"
    BY <1>1, NoWorkerAssumption DEF Flight, OthersStay, SingleFlight, Active
<1>3. ASSUME turn'[w].pc = "plan", NEW i \in Items, i \in turn'[w].paths
      PROVE  item'[i].state = "ready" /\ losses'[i] = 0
  <2>1. PICK j \in Items : PlanItem(w, j)
    BY <1>1, <1>3 DEF Planning
  <2>2. /\ turn'[w].paths = turn[w].paths \cup {j}
        /\ turn[w].pc = "plan" /\ item[j].state = Absent
        /\ item' = [item EXCEPT ![j] = After(item[j], "created")] /\ UNCHANGED losses
    BY <2>1 DEF PlanItem, Append, At, TypeOK, TurnState
  <2>3. CASE i = j
    <3>1. After(item[j], "created").state = "ready"
      BY DEF After, Target, To, Events, Stay, Stored
    <3> QED
      BY <2>2, <2>3, <3>1 DEF TypeOK, LifeInv, AbsentIsNew
  <2>4. CASE i # j
    BY <1>3, <2>2, <2>4 DEF TypeOK, LifeInv, PlannedIsNew, At
  <2> QED
    BY <2>3, <2>4
<1>4. ASSUME turn'[w].pc \in Holding, turn'[w].target # None
      PROVE  item'[turn'[w].target].state \in {"doing"} \cup Terminal
  <2> DEFINE i == turn'[w].target
  <2>1. i \in Items
    BY <1>1, <1>4 DEF TypeOK, TurnState
  <2>2. CASE Start(w) /\ i = turn[w].target
    <3>1. item' = [item EXCEPT ![i] = After(item[i], "started")]
      BY <2>2 DEF Start, Append
    <3>2. After(item[i], "started").state = "doing"
      BY DEF After, Target, To, Events, Stay, Stored
    <3> QED
      BY <2>1, <3>1, <3>2 DEF TypeOK
  <2>3. CASE /\ turn[w].pc \in Holding /\ i = turn[w].target
             /\ UNCHANGED item
    BY <1>4, <2>3 DEF LifeInv, TurnHoldsItem
  <2>4. CASE item[i].state = "doing" /\ UNCHANGED item
    BY <2>4
  <2> QED
    BY <1>1, <1>4, <2>2, <2>3, <2>4 DEF Holds
<1> QED
    BY <1>2, <1>3, <1>4 DEF PlannedIsNew, TurnHoldsItem, Holding, At

LEMMA BoardKeepsTurnInv ==
    ASSUME Inv, Board
    PROVE  PlannedIsNew' /\ TurnHoldsItem'
<1> USE DEF Inv, LifeInv
<1> PICK i \in Items : /\ ~BeingPlanned(i)
                       /\ \/ BoardAnswers(i) \/ BoardCancels(i)
                          \/ BoardCreates(i) \/ OperatorSnoozes(i)
                          \/ \E p \in Priorities : BoardSetsPriority(i, p)
    BY DEF Board
<1>1. UNCHANGED <<turn, losses>> /\ (\A j \in Items \ {i} : item'[j] = item[j])
    BY DEF BoardAnswers, BoardCancels, BoardCreates, OperatorSnoozes, BoardSetsPriority,
           BoardAppends, TypeOK
<1>2. item[i].state \in {"doing"} \cup Terminal => item'[i].state \in {"doing"} \cup Terminal
  <2> SUFFICES ASSUME item[i].state \in {"doing"} \cup Terminal
               PROVE  item'[i].state \in {"doing"} \cup Terminal
    OBVIOUS
  <2> USE DEF BoardAppends, After, Accepts, Target, From, To, Events, Stay, Stored,
              NonTerminal, Terminal, States, Absent, TypeOK
  <2>1. CASE BoardAnswers(i)
    BY <2>1 DEF BoardAnswers
  <2>2. CASE BoardCancels(i)
    BY <2>2 DEF BoardCancels
  <2>3. CASE BoardCreates(i) \/ OperatorSnoozes(i)
    BY <2>3 DEF BoardCreates, OperatorSnoozes
  <2>4. ASSUME NEW p \in Priorities, BoardSetsPriority(i, p)
        PROVE  item'[i].state \in {"doing"} \cup Terminal
    BY <2>4 DEF BoardSetsPriority, AfterPrioritySet
  <2> QED
    BY <2>1, <2>2, <2>3, <2>4
<1>3. PlannedIsNew'
    BY <1>1 DEF PlannedIsNew, BeingPlanned, At
<1>4. TurnHoldsItem'
    BY <1>1, <1>2 DEF TurnHoldsItem, TypeOK, TurnState
<1> QED
    BY <1>3, <1>4

-----------------------------------------------------------------------------
(* The invariant, and what follows from it.                                *)

LEMMA InvInit == Init => Inv /\ Lifecycle!Init
<1> SUFFICES ASSUME Init PROVE Inv /\ Lifecycle!Init
    OBVIOUS
<1>1. LifeInv
    BY DEF Init, NoItem, NoFailure, NoTurn, LifeInv, LeaseIsLatestClaim, FailureIsOpen,
           AbsentIsNew, PlannedIsNew, TurnHoldsItem, At, Holding, Behind, Leased, Absent
<1>2. Lifecycle!Init
    BY DEF Init, NoItem, NoFailure, Lifecycle!Init, Lifecycle!Absent, Absent
<1> QED
    BY <1>1, <1>2, InitTyped DEF Inv

LEMMA InvStep ==
    ASSUME Inv, [Next]_vars
    PROVE  Inv' /\ LifeStep
<1> USE DEF Inv, LifeInv
<1>1. TypeOK' /\ SingleFlight' /\ TurnShapes'
    BY TypeStep, SingleFlightStep
<1>2. ItemInv
    BY DEF ItemInv
<1> SUFFICES LifeStep /\ ItemInv' /\ PlannedIsNew' /\ TurnHoldsItem'
    BY <1>1 DEF ItemInv
<1>3. ASSUME NEW w \in Workers, TakeTurn(w) \/ Crash(w)
      PROVE  LifeStep /\ ItemInv' /\ PlannedIsNew' /\ TurnHoldsItem'
  <2>1. CASE \/ StartTurn(w) \/ Declare(w) \/ Finish(w) \/ CommitTurn(w)
             \/ Raise(w) \/ Crash(w)
    <3>1. UNCHANGED <<item, losses>>
      BY <2>1 DEF StartTurn, Declare, Finish, CommitTurn, Raise, Crash, Drop
    <3> QED
      BY <1>2, <1>3, <3>1, StandStill, TurnKeepsItsInv
  <2> QED
    BY <1>2, <1>3, <2>1, SweepImplements, ActImplements, DisposeImplements, TurnKeepsItsInv
    DEF TakeTurn
<1>4. CASE Board
    BY <1>2, <1>4, BoardImplements, BoardKeepsTurnInv
<1>5. CASE Tick
  <2>1. UNCHANGED <<turn, losses>> /\ \A i \in Items : item'[i].state = item[i].state
    BY <1>5 DEF Tick, TypeOK, ItemView
  <2>2. PlannedIsNew' /\ TurnHoldsItem'
    BY <2>1 DEF PlannedIsNew, TurnHoldsItem, At, TypeOK, TurnState
  <2> QED
    BY <1>2, <1>5, <2>2, TickImplements
<1>6. CASE UNCHANGED vars
    BY <1>2, <1>6, StandStill DEF vars, PlannedIsNew, TurnHoldsItem, At
<1> QED
    BY <1>3, <1>4, <1>5, <1>6 DEF Next

\* Whatever the turns, their crashes, the board and the clock do, each step is a
\* step of one item's life or changes none of them (runtime/turn.py and
\* board/inbox.py against the rules of protocol/backlog.py).
THEOREM Implementation == Spec => ImplementsLifecycle
<1>1. Init => Inv /\ Lifecycle!Init
    BY InvInit
<1>2. Inv /\ [Next]_vars => Inv' /\ [Lifecycle!Next]_(Lifecycle!vars)
    BY InvStep DEF LifeStep
<1> QED
    BY <1>1, <1>2, PTL DEF Spec, ImplementsLifecycle, Lifecycle!Spec

LEMMA Invariance == Spec => []Inv
<1>1. Init => Inv
    BY InvInit
<1>2. Inv /\ [Next]_vars => Inv'
    BY InvStep
<1> QED
    BY <1>1, <1>2, PTL DEF Spec

\* The lease in force is the latest claim, so that the number every cap reads
\* survives each return to ready (backlog.lease, backlog.claims).
THEOREM LeasesCountClaims == Spec => []LeaseCountsEveryClaim
<1>1. Inv => LeaseCountsEveryClaim
    BY DEF Inv, LifeInv, LeaseIsLatestClaim, LeaseCountsEveryClaim, Behind
<1> QED
    BY <1>1, Invariance, PTL

\* While an agent acts on an item nobody but a canceller touches its state: no
\* sweep, pick or planning turn of any worker (take_turn under single_flight).
THEOREM AgentsKeepTheirItems == Spec => []AgentKeepsItsItem
<1>1. Inv => AgentKeepsItsItem
    BY DEF Inv, LifeInv, TurnHoldsItem, Holding, AgentKeepsItsItem, At
<1> QED
    BY <1>1, Invariance, PTL

\* A closed item is closed for ever, also under a turn that read it open.
THEOREM ClosedIsClosed == Spec => TerminalIsFinal
<1>1. ASSUME LifeStep, NEW i \in Items, item[i].state \in Terminal
      PROVE  item'[i].state = item[i].state
  <2> DEFINE life == [x \in Items |-> item[x].state]
  <2>1. life[i] \in Terminal /\ life'[i] = item'[i].state
    BY <1>1
  <2>2. CASE UNCHANGED Lifecycle!vars
    BY <2>2 DEF Lifecycle!vars
  <2>3. CASE \E c \in SUBSET Items : Lifecycle!Discard(c)
    BY <1>1, <2>3 DEF Lifecycle!Discard, Terminal
  <2>4. ASSUME NEW j \in Items, Lifecycle!Step(j)
        PROVE  item'[i].state = item[i].state
    <3>1. PICK s : life' = [life EXCEPT ![j] = s]
      BY <2>4 DEF Lifecycle!Step, Lifecycle!Create, Lifecycle!Claim, Lifecycle!Move,
                  Lifecycle!Close, Lifecycle!Expire, Lifecycle!Fail, Lifecycle!Retry,
                  Lifecycle!Enter
    <3>2. life[j] \notin Terminal
      <4> USE DEF Lifecycle!NonTerminal, Lifecycle!Terminal, Lifecycle!Leased, Lifecycle!Absent,
                  Terminal
      <4>1. CASE Lifecycle!Create(j) \/ Lifecycle!Claim(j) \/ Lifecycle!Expire(j)
                 \/ Lifecycle!Retry(j)
        BY <4>1 DEF Lifecycle!Create, Lifecycle!Claim, Lifecycle!Expire, Lifecycle!Retry
      <4>2. ASSUME NEW t, Lifecycle!Move(j, t)
            PROVE  life[j] \notin Terminal
        BY <4>2 DEF Lifecycle!Move, Lifecycle!Onward
      <4>3. ASSUME NEW t, Lifecycle!Close(j, t)
            PROVE  life[j] \notin Terminal
        BY <4>3 DEF Lifecycle!Close
      <4>4. ASSUME NEW n, Lifecycle!Fail(j, n)
            PROVE  life[j] \notin Terminal
        BY <4>4 DEF Lifecycle!Fail
      <4> QED
        BY <2>4, <4>1, <4>2, <4>3, <4>4 DEF Lifecycle!Step
    <3> QED
      BY <2>1, <3>1, <3>2
  <2> QED
    BY <1>1, <2>2, <2>3, <2>4 DEF LifeStep, Lifecycle!Next
<1>2. Inv /\ [Next]_vars => [\A i \in Items : item[i].state \in Terminal
                                 => item'[i].state = item[i].state]_vars
    BY <1>1, InvStep
<1> QED
    BY <1>2, Invariance, PTL DEF Spec, TerminalIsFinal

(* ItemLifecycleProofs under the same mapping.                             *)
Proven == INSTANCE ItemLifecycleProofs WITH
    state <- [i \in Items |-> item[i].state],
    claims <- [i \in Items |-> item[i].claims],
    lost <- losses,
    reported <- [i \in Items |-> item[i].failure.attempt]

\* However its leases are lost, to crashes, to the clock or to reported failures,
\* and whatever attempts agents report, an item loses at most max_attempts of them:
\* only a failure that names an earlier attempt than its lease's is not counted
\* (reclaim_expired, _poison_if_exhausted, retry_failed).
THEOREM AttemptsRunOut == Spec => [](AttemptsAreCapped /\ LossesFollowClaims)
<1>1. Proven!ConstantsOK
    BY TurnAssumption DEF Proven!ConstantsOK
<1>2. Proven!Spec => [](Proven!LossesAreCapped /\ Proven!LossesFollowClaims)
    BY <1>1, Proven!AttemptCap
<1>3. Lifecycle!Init => Proven!Init
    BY DEF Lifecycle!Init, Proven!Init, Lifecycle!Absent, Proven!Absent
<1>4. [Lifecycle!Next]_(Lifecycle!vars) => [Proven!Next]_(Proven!vars)
    BY DEF Lifecycle!vars, Lifecycle!Next, Lifecycle!Step, Lifecycle!Create,
           Lifecycle!Claim, Lifecycle!Move, Lifecycle!Close, Lifecycle!Expire,
           Lifecycle!Fail, Lifecycle!Retry, Lifecycle!Discard, Lifecycle!Enter,
           Lifecycle!Onward, Lifecycle!Count, Lifecycle!States,
           Lifecycle!Terminal, Lifecycle!NonTerminal, Lifecycle!Leased,
           Lifecycle!Absent, Proven!vars, Proven!Next, Proven!Step,
           Proven!Create, Proven!Claim, Proven!Move, Proven!Close,
           Proven!Expire, Proven!Fail, Proven!Retry, Proven!Discard,
           Proven!Enter, Proven!Onward, Proven!Count, Proven!States,
           Proven!Terminal, Proven!NonTerminal, Proven!Leased, Proven!Absent
<1>5. Proven!LossesAreCapped /\ Proven!LossesFollowClaims => AttemptsAreCapped /\ LossesFollowClaims
    BY DEF Proven!LossesAreCapped, AttemptsAreCapped, Proven!LossesFollowClaims,
           LossesFollowClaims, Lifecycle!LossesFollowClaims, Lifecycle!Behind,
           Lifecycle!Leased, Lifecycle!Terminal, Lifecycle!NonTerminal, Lifecycle!States,
           Lifecycle!Absent, Proven!Behind, Proven!Leased, Proven!Terminal,
           Proven!NonTerminal, Proven!States, Proven!Absent
<1> QED
    BY <1>2, <1>3, <1>4, <1>5, Implementation, PTL
    DEF ImplementsLifecycle, Lifecycle!Spec, Proven!Spec

-----------------------------------------------------------------------------
(* Every commit names what was written since the last one.                 *)

\* The steps at which a turn appends to its target, or is still to do so.
Writing == {"poison_lease", "claim", "start", "commit_claim", "agent", "suspend", "gate",
            "done", "propose", "poison"}

NamesItsTarget(w) ==
    turn[w].pc \in Writing /\ turn[w].target # None => turn[w].target \in turn[w].paths

NamesItsWrites(w) == Active(w) => uncommitted \ orphaned \subseteq turn[w].paths \cup {Ledger}

\* A claim the agent acts on is in a commit; so is whatever the board has made of it.
ClaimIsCommitted(w) ==
    LET i == turn[w].target IN
    At(w, "agent") /\ i # None /\ item[i].state = "doing" /\ ~item[i].resumable
        => i \notin uncommitted

CommitInv == /\ \A w \in Workers : NamesItsTarget(w) /\ NamesItsWrites(w) /\ ClaimIsCommitted(w)
             /\ TurnsCommitWhatTheyWrite

LEMMA NamesStep ==
    ASSUME TypeOK, NEW w \in Workers, TurnShape(turn[w]), NamesItsTarget(w), NamesItsWrites(w),
           TurnsCommitWhatTheyWrite, TakeTurn(w) \/ Crash(w)
    PROVE  /\ NamesItsTarget(w)' /\ NamesItsWrites(w)'
           /\ ~Active(w)' => uncommitted' \subseteq orphaned'
<1> DEFINE Goal == /\ NamesItsTarget(w)' /\ NamesItsWrites(w)'
                   /\ ~Active(w)' => uncommitted' \subseteq orphaned'
<1> USE TurnFields DEF NamesItsTarget, NamesItsWrites, Writing, TurnsCommitWhatTheyWrite, TurnShape,
        Active, At, Sweeps, Goto, Conclude, TypeOK, TurnState, Append, Commit
<1>1. CASE StartTurn(w)
    BY <1>1 DEF StartTurn, NoTurn
<1>2. CASE Declare(w)
    BY <1>2 DEF Declare
<1>3. CASE Sweep(w)
  <2>1. ASSUME NEW q \in Questions, ApplyAnswer(w, q) PROVE Goal
    BY <2>1 DEF ApplyAnswer, Swept
  <2>2. ASSUME NEW i \in Items,
               Reclaim(w, i) \/ FailLease(w, i) \/ Wake(w, i) \/ TimeOut(w, i) \/ Retry(w, i)
        PROVE  Goal
    <3>1. CASE Reclaim(w, i) \/ Wake(w, i) \/ Retry(w, i)
      BY <3>1 DEF Reclaim, Wake, Retry, Swept
    <3>2. CASE FailLease(w, i)
      BY <3>2 DEF FailLease
    <3>3. CASE TimeOut(w, i)
      BY <3>3 DEF TimeOut, Resolution
    <3> QED
      BY <2>2, <3>1, <3>2, <3>3
  <2>3. CASE PoisonLease(w)
    BY <2>3 DEF PoisonLease, None, Ledger
  <2>4. CASE Resolve(w)
    BY <2>4 DEF Resolve, Resolutions
  <2>5. CASE EndSweep(w)
    BY <2>5 DEF EndSweep, Following
  <2>6. CASE CommitSweep(w)
    BY <2>6 DEF CommitSweep
  <2> QED
    BY <1>3, <2>1, <2>2, <2>3, <2>4, <2>5, <2>6 DEF Sweep
<1>4. CASE Classify(w)
  <2>1. ASSUME NEW i \in Items, Pick(w, i) PROVE Goal
    BY <2>1 DEF Pick
  <2>2. CASE Plan(w) \/ NothingReady(w)
    BY <2>2 DEF Plan, NothingReady
  <2> QED
    BY <1>4, <2>1, <2>2 DEF Classify
<1>5. CASE Claim(w) \/ Start(w) \/ CommitClaim(w)
    BY <1>5 DEF Claim, Start, CommitClaim
<1>6. CASE Agent(w)
  <2>1. CASE AgentEnds(w) \/ AgentProposes(w)
    BY <2>1 DEF AgentEnds, AgentProposes
  <2>2. ASSUME NEW q \in Questions, AgentDenied(w, q) PROVE Goal
    BY <2>2 DEF AgentDenied
  <2> QED
    BY <1>6, <2>1, <2>2 DEF Agent
<1>7. CASE Dispose(w)
  <2> USE DEF None, Ledger
  <2>1. ASSUME NEW i \in Items, PlanItem(w, i) PROVE Goal
    BY <2>1 DEF PlanItem
  <2>2. CASE Suspend(w) \/ PlanDone(w) \/ PlanRefused(w)
    BY <2>2 DEF Suspend, PlanDone, PlanRefused
  <2>3. CASE GatePasses(w) \/ GateRejects(w) \/ AppendDone(w)
    BY <2>3 DEF GatePasses, GateRejects, AppendDone
  <2>4. CASE ProposePlain(w) \/ ProposeBlocked(w) \/ ProposeFailed(w)
    BY <2>4 DEF ProposePlain, ProposeBlocked, ProposeFailed
  <2>5. CASE Poison(w) \/ Reload(w) \/ ProposalRefused(w)
    BY <2>5 DEF Poison, Reload, ProposalRefused
  <2> QED
    BY <1>7, <2>1, <2>2, <2>3, <2>4, <2>5 DEF Dispose
<1>8. CASE Finish(w) \/ CommitTurn(w)
    BY <1>8 DEF Finish, CommitTurn, NoTurn
<1>9. CASE Raise(w) \/ Crash(w)
    BY <1>9 DEF Raise, Crash, Drop, NoTurn
<1> QED
    BY <1>1, <1>2, <1>3, <1>4, <1>5, <1>6, <1>7, <1>8, <1>9 DEF TakeTurn

\* An agent starts on a claim that has just been committed, or resumes.
LEMMA AgentStarts ==
    ASSUME TypeOK, NEW w \in Workers, TurnShape(turn[w]), TakeTurn(w) \/ Crash(w),
           turn'[w].pc = "agent"
    PROVE  (\E i \in Items : Pick(w, i)) \/ Plan(w) \/ CommitClaim(w)
<1> USE TurnFields DEF At, Sweeps, Goto, Conclude, TypeOK, TurnState
<1>1. ~(StartTurn(w) \/ Declare(w))
    BY DEF StartTurn, Declare, NoTurn
<1>2. ~Sweep(w)
  <2>1. ASSUME NEW q \in Questions, ApplyAnswer(w, q) PROVE FALSE
    BY <2>1 DEF ApplyAnswer, Swept
  <2>2. ASSUME NEW i \in Items, Reclaim(w, i) \/ Wake(w, i) \/ Retry(w, i) PROVE FALSE
    BY <2>2 DEF Reclaim, Wake, Retry, Swept
  <2>3. ASSUME NEW i \in Items, FailLease(w, i) \/ TimeOut(w, i) PROVE FALSE
    <3>1. CASE FailLease(w, i)
      BY <3>1 DEF FailLease
    <3>2. CASE TimeOut(w, i)
      <4>1. turn'[w].pc = Resolution(item[i])
        BY <3>2 DEF TimeOut
      <4> QED
        BY <4>1 DEF Resolution
    <3> QED
      BY <2>3, <3>1, <3>2
  <2>4. ~(PoisonLease(w) \/ Resolve(w) \/ EndSweep(w) \/ CommitSweep(w))
    BY DEF PoisonLease, Resolve, EndSweep, CommitSweep, Following
  <2> QED
    BY <2>1, <2>2, <2>3, <2>4 DEF Sweep
<1>3. ~(NothingReady(w) \/ Claim(w) \/ Start(w) \/ Finish(w) \/ CommitTurn(w))
    BY DEF NothingReady, Claim, Start, Finish, CommitTurn, NoTurn
<1>4. ~Agent(w)
    BY DEF Agent, AgentEnds, AgentProposes, AgentDenied
<1>5. ~Dispose(w)
  <2>1. ~(Suspend(w) \/ (\E i \in Items : PlanItem(w, i)) \/ PlanDone(w) \/ PlanRefused(w))
    BY DEF Suspend, PlanItem, PlanDone, PlanRefused
  <2>2. ~(GatePasses(w) \/ GateRejects(w) \/ AppendDone(w) \/ ProposalRefused(w))
    BY DEF GatePasses, GateRejects, AppendDone, ProposalRefused
  <2>3. ~(ProposePlain(w) \/ ProposeBlocked(w) \/ ProposeFailed(w) \/ Poison(w) \/ Reload(w))
    BY DEF ProposePlain, ProposeBlocked, ProposeFailed, Poison, Reload
  <2> QED
    BY <2>1, <2>2, <2>3 DEF Dispose
<1>6. ~(Raise(w) \/ Crash(w))
    BY DEF Raise, Crash, Drop, NoTurn
<1> QED
    BY <1>1, <1>2, <1>3, <1>4, <1>5, <1>6 DEF TakeTurn, Classify

LEMMA CommitInvStep ==
    ASSUME Inv, CommitInv, [Next]_vars
    PROVE  CommitInv'
<1> USE DEF Inv, CommitInv
<1>1. ASSUME NEW w \in Workers, TakeTurn(w) \/ Crash(w) PROVE CommitInv'
  <2>1. Flight(w) /\ OthersStay(w) /\ SingleFlight'
    BY <1>1, TurnStep, SingleFlightStep DEF TurnShapes, Next
  <2>2. /\ NamesItsTarget(w)' /\ NamesItsWrites(w)'
        /\ ~Active(w)' => uncommitted' \subseteq orphaned'
    BY <1>1, NamesStep DEF TurnShapes
  <2>3. \A v \in Workers \ {w} : turn'[v].pc = "idle"
    BY <2>1, NoWorkerAssumption DEF Flight, OthersStay, SingleFlight, Active
  <2>4. ClaimIsCommitted(w)'
    <3> SUFFICES ASSUME turn'[w].pc = "agent", turn'[w].target # None,
                        ~item'[turn'[w].target].resumable,
                        item'[turn'[w].target].state = "doing"
                 PROVE  turn'[w].target \notin uncommitted'
      BY DEF ClaimIsCommitted, At
    <3>1. CASE \E i \in Items : Pick(w, i)
      <4>1. PICK i \in Items : Pick(w, i)
        BY <3>1
      <4>2. turn'[w].target = i /\ UNCHANGED item /\ Eligible(item[i])
        BY <4>1 DEF Pick, Picked, TypeOK, TurnState
      <4> QED
        BY <4>2 DEF Eligible
    <3>2. CASE Plan(w)
      BY <3>2, TurnFields DEF Plan, At, TurnShapes, TurnShape, TypeOK, TurnState
    <3>3. CASE CommitClaim(w)
      <4>1. turn[w].target \in turn[w].paths /\ turn[w].target \in Items
            /\ turn'[w].target = turn[w].target
        BY <3>3, TurnFields
        DEF CommitClaim, Goto, At, NamesItsTarget, Writing, TurnShapes, TurnShape, TypeOK, TurnState
      <4> QED
        BY <3>3, <4>1, TurnAssumption DEF CommitClaim, Commit, Ledger, None
    <3> QED
      BY <1>1, <3>1, <3>2, <3>3, AgentStarts DEF TurnShapes
  <2>5. TurnsCommitWhatTheyWrite'
    BY <2>1, <2>2, <2>3, NoWorkerAssumption DEF TurnsCommitWhatTheyWrite, SingleFlight, Active
  <2> QED
    BY <2>2, <2>3, <2>4, <2>5
    DEF NamesItsTarget, NamesItsWrites, ClaimIsCommitted, Writing, Active, At
<1>2. ASSUME NEW i \in Items, UNCHANGED <<turn, lock>>, NEW P, Commit(P),
             UNCHANGED item \/ (i \in P /\ \A j \in Items \ {i} : item'[j] = item[j])
      PROVE  CommitInv'
  <2>1. uncommitted' \ orphaned' \subseteq uncommitted \ orphaned /\ uncommitted' \subseteq uncommitted
    BY <1>2 DEF Commit
  <2>2. UNCHANGED item \/ (i \notin uncommitted' /\ \A j \in Items \ {i} : item'[j] = item[j])
    BY <1>2, TurnAssumption DEF Commit, Ledger, None
  <2>3. \A w \in Workers : NamesItsTarget(w)' /\ NamesItsWrites(w)'
    BY <1>2, <2>1 DEF NamesItsTarget, NamesItsWrites, Active
  <2>4. \A w \in Workers : ClaimIsCommitted(w)'
    BY <1>2, <2>1, <2>2, TurnFields DEF ClaimIsCommitted, At
  <2>5. TurnsCommitWhatTheyWrite'
    BY <1>2, <2>1 DEF TurnsCommitWhatTheyWrite
  <2> QED
    BY <2>3, <2>4, <2>5
<1>3. CASE Board
  <2> PICK i \in Items : \/ BoardAnswers(i) \/ BoardCancels(i)
                         \/ BoardCreates(i) \/ OperatorSnoozes(i)
                         \/ \E p \in Priorities : BoardSetsPriority(i, p)
    BY <1>3 DEF Board
  <2>1. CASE BoardAnswers(i)
    BY <1>2, <2>1 DEF BoardAnswers
  <2>2. CASE ~BoardAnswers(i)
    <3>1. PICK v : BoardAppends(i, v)
      BY <2>2 DEF BoardCancels, BoardCreates, OperatorSnoozes, BoardSetsPriority
    <3>2. Commit({i}) /\ \A j \in Items \ {i} : item'[j] = item[j]
      BY <3>1 DEF BoardAppends, TypeOK
    <3> QED
      BY <1>2, <3>1, <3>2 DEF BoardAppends
  <2> QED
    BY <2>1, <2>2
<1>4. CASE Tick \/ UNCHANGED vars
  <2>1. /\ UNCHANGED <<uncommitted, orphaned, turn, lock>>
        /\ \A i \in Items : item'[i].state = item[i].state /\ item'[i].resumable = item[i].resumable
    <3>1. CASE Tick
      BY <3>1 DEF Tick, TypeOK, ItemView
    <3>2. CASE UNCHANGED vars
      BY <3>2 DEF vars
    <3> QED
      BY <1>4, <3>1, <3>2
  <2> QED
    BY <2>1, TurnFields DEF NamesItsTarget, NamesItsWrites, ClaimIsCommitted, At, Active,
                            TurnsCommitWhatTheyWrite
<1> QED
    BY <1>1, <1>3, <1>4 DEF Next

LEMMA CommitInvariance == Spec => [](Inv /\ CommitInv)
<1>1. Init => CommitInv
    BY DEF Init, NoTurn, CommitInv, NamesItsTarget, NamesItsWrites, ClaimIsCommitted, Writing,
           Active, At, TurnsCommitWhatTheyWrite
<1>2. Inv /\ CommitInv /\ [Next]_vars => CommitInv'
    BY CommitInvStep
<1> QED
    BY <1>1, <1>2, Invariance, PTL DEF Spec

\* However a turn goes, the commits it makes name every file it wrote: between turns
\* only what a dead turn left is uncommitted (take_turn's three commits).
THEOREM TurnsLeaveNothing == Spec => []TurnsCommitWhatTheyWrite
<1>1. Inv /\ CommitInv => TurnsCommitWhatTheyWrite
    BY DEF CommitInv
<1> QED
    BY <1>1, CommitInvariance, PTL

\* No agent acts on a claim that only the working tree has, also when the board
\* rewrites the item's log meanwhile (take_turn's claim commit).
THEOREM ClaimsAreCommitted == Spec => []AgentActsOnCommittedClaim
<1>1. Inv /\ CommitInv => AgentActsOnCommittedClaim
    BY DEF CommitInv, ClaimIsCommitted, AgentActsOnCommittedClaim
<1> QED
    BY <1>1, CommitInvariance, PTL

-----------------------------------------------------------------------------
(* Which events which step appends, and what of the item's view they change. *)

EventsAt(pc) ==
    CASE pc \in {"answers", "unblocked"} -> {"unblocked"}
      [] pc = "reclaim" -> {"reclaimed", "failed"}
      [] pc = "wake" -> {"woke"}
      [] pc = "retry" -> {"retried"}
      [] pc = "claim" -> {"claimed"}
      [] pc = "start" -> {"started"}
      [] pc = "suspend" -> {"blocked"}
      [] pc = "plan" -> {"created"}
      [] pc = "gate" -> {"gate_rejected"}
      [] pc \in {"done", "abandoned"} -> {pc}
      [] pc = "propose" -> Proposals
      [] pc \in {"poison_lease", "poison"} -> {"poisoned"}
      [] OTHER -> {}

BoardEvents == {"cancelled", "priority_set", "created", "snoozed"}

\* Item i goes through e; v is its view then.  The fields e itself sets are left open.
Becomes(i, e, v) ==
    /\ e \in Events /\ Accepts(item[i], e)
    /\ v.state = Target(item[i], e)
    /\ e = "blocked" \/ v.block = After(item[i], e).block
    /\ e = "failed" \/ v.failure = After(item[i], e).failure
    /\ e = "snoozed" \/ v.wake = After(item[i], e).wake

Rewrites(i, e) == \E v : Becomes(i, e, v) /\ item' = [item EXCEPT ![i] = v]

\* What the worker w does to the items: it leaves them, appends one event to one of
\* them, its target unless it sweeps or plans, or takes back what it planned.
Moves(w) ==
    \/ UNCHANGED item
    \/ PlanRefused(w)
    \/ \E i \in Items \cup {None}, e \in EventsAt(turn[w].pc) :
          /\ Rewrites(i, e)
          /\ turn[w].pc \in Sweeps \cup {"plan"} \/ i = turn[w].target
          /\ e = "failed" => ProposeFailed(w) \/ (i \in Items /\ FailLease(w, i))

LEMMA PlainBecomes ==
    ASSUME NEW i \in Items \cup {None}, NEW e \in Events, Accepts(item[i], e)
    PROVE  Becomes(i, e, After(item[i], e))
    BY DEF Becomes, After

LEMMA OthersBecome ==
    ASSUME NEW i \in Items \cup {None}
    PROVE  /\ \A n, a, t : Accepts(item[i], "claimed")
                  => Becomes(i, "claimed", AfterClaimed(item[i], n, a, t))
           /\ \A a, r : Accepts(item[i], "failed")
                  => Becomes(i, "failed", AfterFailed(item[i], a, r))
           /\ \A b : Accepts(item[i], "blocked")
                  => Becomes(i, "blocked", AfterBlocked(item[i], b))
           /\ \A t : Accepts(item[i], "snoozed")
                  => Becomes(i, "snoozed", AfterSnoozed(item[i], t))
           /\ \A p : Accepts(item[i], "priority_set")
                  => Becomes(i, "priority_set", AfterPrioritySet(item[i], p))
    BY DEF Becomes, After, AfterClaimed, AfterFailed, AfterBlocked, AfterSnoozed,
           AfterPrioritySet, Events

LEMMA TurnMoves ==
    ASSUME TypeOK, NEW w \in Workers, TakeTurn(w) \/ Crash(w)
    PROVE  Moves(w)
<1> DEFINE By(i, e, v) == /\ Becomes(i, e, v) /\ Append(i, v)
                          /\ e \in EventsAt(turn[w].pc)
                          /\ turn[w].pc \in Sweeps \cup {"plan"} \/ i = turn[w].target
                          /\ e = "failed" => ProposeFailed(w) \/ (i \in Items /\ FailLease(w, i))
<1>0. ASSUME NEW i \in Items \cup {None}, NEW e, NEW v, By(i, e, v) PROVE Moves(w)
    BY <1>0 DEF Moves, Append, Rewrites
<1>t. turn[w].target \in Items \cup {None}
    BY TurnFields
<1> USE DEF EventsAt, At
<1>1. CASE \/ StartTurn(w) \/ Declare(w) \/ Classify(w) \/ CommitClaim(w) \/ Agent(w)
           \/ Finish(w) \/ CommitTurn(w) \/ Raise(w) \/ Crash(w)
    BY <1>1 DEF StartTurn, Declare, Classify, Pick, Plan, NothingReady, CommitClaim, Agent,
                AgentEnds, AgentProposes, AgentDenied, Finish, CommitTurn, Raise, Crash, Drop,
                Moves
<1>2. CASE Sweep(w)
  <2>1. ASSUME NEW q \in Questions, ApplyAnswer(w, q) PROVE Moves(w)
    <3>1. quest[q].item \in Items \cup {None} /\ "unblocked" \in Events
      BY DEF TypeOK, QuestionView, Events
    <3> QED
      BY <1>0, <2>1, <3>1, PlainBecomes DEF ApplyAnswer, Sweeps
  <2>2. ASSUME NEW i \in Items, Reclaim(w, i) \/ FailLease(w, i) \/ Wake(w, i) \/ Retry(w, i)
        PROVE  Moves(w)
    <3> USE SweptEventsAreAccepted DEF TypeOK, Sweeps, NextUp, Ahead, Due
    <3>1. {"reclaimed", "woke", "retried"} \subseteq Events
      BY DEF Events
    <3>2. CASE Reclaim(w, i)
      BY <1>0, <3>1, <3>2, PlainBecomes DEF Reclaim, LeaseExpired
    <3>3. CASE FailLease(w, i)
      BY <1>0, <3>3, OthersBecome DEF FailLease, LeaseExpired
    <3>4. CASE Wake(w, i)
      BY <1>0, <3>1, <3>4, PlainBecomes DEF Wake
    <3>5. CASE Retry(w, i)
      BY <1>0, <3>1, <3>5, PlainBecomes DEF Retry, Retryable
    <3> QED
      BY <2>2, <3>2, <3>3, <3>4, <3>5
  <2>3. ASSUME NEW i \in Items, TimeOut(w, i) PROVE Moves(w)
    BY <2>3 DEF TimeOut, Moves
  <2>4. CASE PoisonLease(w)
    BY <1>0, <1>t, <2>4, PlainBecomes DEF PoisonLease, Events
  <2>5. CASE Resolve(w)
    BY <1>0, <1>t, <2>5, PlainBecomes DEF Resolve, Resolutions, Events
  <2>6. CASE EndSweep(w) \/ CommitSweep(w)
    BY <2>6 DEF EndSweep, CommitSweep, Moves
  <2> QED
    BY <1>2, <2>1, <2>2, <2>3, <2>4, <2>5, <2>6 DEF Sweep
<1>3. CASE Claim(w)
    BY <1>0, <1>t, <1>3, OthersBecome DEF Claim
<1>4. CASE Start(w)
    BY <1>0, <1>t, <1>4, PlainBecomes DEF Start, Events
<1>5. CASE Dispose(w)
  <2>1. CASE Suspend(w)
    BY <1>0, <1>t, <2>1, OthersBecome DEF Suspend
  <2>2. ASSUME NEW i \in Items, PlanItem(w, i) PROVE Moves(w)
    BY <1>0, <2>2, PlainBecomes, SweptEventsAreAccepted DEF PlanItem, Events, TypeOK
  <2>3. CASE PlanDone(w) \/ PlanRefused(w) \/ GatePasses(w) \/ Reload(w) \/ ProposalRefused(w)
    BY <2>3 DEF PlanDone, GatePasses, Reload, ProposalRefused, Moves
  <2>4. CASE GateRejects(w)
    BY <1>0, <1>t, <2>4, PlainBecomes DEF GateRejects, Events
  <2>5. CASE AppendDone(w)
    BY <1>0, <1>t, <2>5, PlainBecomes DEF AppendDone, Events
  <2>6. CASE ProposePlain(w)
    BY <1>0, <1>t, <2>6, PlainBecomes, TurnAssumption DEF ProposePlain
  <2>7. CASE ProposeBlocked(w)
    BY <1>0, <1>t, <2>7, OthersBecome DEF ProposeBlocked
  <2>8. CASE ProposeFailed(w)
    BY <1>0, <1>t, <2>8, OthersBecome DEF ProposeFailed
  <2>9. CASE Poison(w)
    BY <1>0, <1>t, <2>9, PlainBecomes DEF Poison, Events
  <2> QED
    BY <1>5, <2>1, <2>2, <2>3, <2>4, <2>5, <2>6, <2>7, <2>8, <2>9 DEF Dispose
<1> QED
    BY <1>1, <1>2, <1>3, <1>4, <1>5 DEF TakeTurn

LEMMA BoardMoves ==
    ASSUME TypeOK, Board
    PROVE  UNCHANGED turn /\ (UNCHANGED item \/ \E i \in Items, e \in BoardEvents : Rewrites(i, e))
<1> PICK i \in Items : \/ BoardAnswers(i) \/ BoardCancels(i)
                       \/ BoardCreates(i) \/ OperatorSnoozes(i)
                       \/ \E p \in Priorities : BoardSetsPriority(i, p)
    BY DEF Board
<1> USE DEF BoardEvents, Rewrites, BoardAppends
<1>1. CASE BoardAnswers(i)
    BY <1>1 DEF BoardAnswers
<1>2. CASE BoardCancels(i) \/ BoardCreates(i)
    BY <1>2, PlainBecomes DEF BoardCancels, BoardCreates, Events
<1>3. CASE OperatorSnoozes(i)
    BY <1>3, OthersBecome DEF OperatorSnoozes
<1>4. ASSUME NEW p \in Priorities, BoardSetsPriority(i, p)
      PROVE  UNCHANGED turn /\ \E e \in BoardEvents : Rewrites(i, e)
    BY <1>4, OthersBecome DEF BoardSetsPriority
<1> QED
    BY <1>1, <1>2, <1>3, <1>4

\* Where an event leads.
LEMMA Leads ==
    ASSUME NEW i, NEW e \in Events
    PROVE  /\ e = "unblocked" => Target(item[i], e) = item[i].block.ret
           /\ e = "unblocked" /\ Accepts(item[i], e) => item[i].state = "blocked"
           /\ e # "unblocked" => Target(item[i], e) \in {e, "ready", "doing", "poison", item[i].state}
           /\ e \notin {"done", "unblocked"} /\ item[i].state # "done"
                 => Target(item[i], e) # "done"
    BY DEF Target, Accepts, From, To, Events, Stay, Stored

-----------------------------------------------------------------------------
(* The door to `done`.                                                     *)

\* Whatever agents write in their blocks, only a turn that has passed the gate closes
\* an item as done, and the end of a block told to return to that very state
\* (verify.may_write_done, take_turn, eventlog._fold).
THEOREM TheGateIsTheDoor == Spec => DoneOnlyThroughTheGate
<1> DEFINE Door == \A i \in Items : item[i].state # "done" /\ item'[i].state = "done"
                      => \/ \E w \in Workers : At(w, "done") /\ turn[w].target = i
                         \/ item[i].state = "blocked" /\ item[i].block.ret = "done"
<1>1. ASSUME TypeOK, NEW i \in Items \cup {None}, NEW e \in Events \ {"done"}, Rewrites(i, e)
      PROVE  \A j \in Items : item[j].state # "done" /\ item'[j].state = "done"
                 => item[j].state = "blocked" /\ item[j].block.ret = "done"
  <2>1. PICK v : Becomes(i, e, v) /\ item' = [item EXCEPT ![i] = v]
    BY <1>1 DEF Rewrites
  <2>2. i \in Items /\ item[i].state # "done" /\ v.state = "done"
            => item[i].state = "blocked" /\ item[i].block.ret = "done"
    BY <2>1, Leads DEF Becomes
  <2> QED
    BY <1>1, <2>1, <2>2 DEF TypeOK
<1>2. ASSUME Inv, [Next]_vars PROVE Door
  <2> USE DEF Inv
  <2>1. ASSUME NEW w \in Workers, TakeTurn(w) \/ Crash(w) PROVE Door
    <3>1. Moves(w)
      BY <1>2, <2>1, TurnMoves
    <3>2. CASE UNCHANGED item
      BY <3>2
    <3>3. CASE PlanRefused(w)
      BY <3>3 DEF PlanRefused, NoItem, Absent
    <3>4. ASSUME NEW i \in Items \cup {None}, NEW e \in EventsAt(turn[w].pc), Rewrites(i, e),
                 turn[w].pc \in Sweeps \cup {"plan"} \/ i = turn[w].target
          PROVE  Door
      <4>1. e \in Events
        BY <3>4 DEF Rewrites, Becomes
      <4>2. CASE e = "done"
        <5>1. turn[w].pc = "done"
          BY <3>4, <4>2, TurnAssumption DEF EventsAt
        <5> QED
          BY <1>2, <3>4, <5>1 DEF Rewrites, At, Sweeps, TypeOK
      <4>3. CASE e # "done"
        BY <1>1, <1>2, <3>4, <4>1, <4>3
      <4> QED
        BY <4>2, <4>3
    <3> QED
      BY <3>1, <3>2, <3>3, <3>4 DEF Moves
  <2>2. CASE Board
    <3>1. BoardEvents \subseteq Events \ {"done"}
      BY DEF BoardEvents, Events
    <3> QED
      BY <1>1, <1>2, <2>2, <3>1, BoardMoves
  <2>3. CASE Tick
    BY <1>2, <2>3 DEF Tick, TypeOK, ItemView
  <2>4. CASE UNCHANGED vars
    BY <2>4 DEF vars
  <2> QED
    BY <1>2, <2>1, <2>2, <2>3, <2>4 DEF Next
<1> QED
  <2>1. Inv /\ [Next]_vars => [Door]_vars
    BY <1>2
  <2> QED
    BY <2>1, Invariance, PTL DEF Spec, DoneOnlyThroughTheGate

-----------------------------------------------------------------------------
(* What is left in `failed`.                                               *)

\* An open item whose last failure leaves nothing to retry.
Spent(v) == /\ v.state \notin Terminal /\ v.failure.recorded
            /\ ~(v.failure.retryable /\ v.failure.attempt < MaxAttempts)

\* Such an item is failed, and the turn that is about to poison it is under way.
FailuresInHand ==
    crashes = 0 => \A i \in Items : Spent(item[i]) =>
        /\ item[i].state = "failed"
        /\ \E w \in Workers : turn[w].pc \in {"poison_lease", "poison"} /\ turn[w].target = i

\* An event other than `failed` spends no item.
LEMMA OnlyFailedSpends ==
    ASSUME TypeOK, NEW i \in Items \cup {None}, NEW e \in Events \ {"failed"}, Rewrites(i, e),
           NEW j \in Items, Spent(item'[j])
    PROVE  Spent(item[j])
<1>1. PICK v : Becomes(i, e, v) /\ item' = [item EXCEPT ![i] = v]
    BY DEF Rewrites
<1>2. ASSUME i = j PROVE Spent(item[i])
  <2>1. Spent(v)
    BY <1>1, <1>2 DEF TypeOK
  <2>2. v.failure = item[i].failure
    BY <1>1, <2>1 DEF Becomes, After, Spent
  <2>3. item[i].state \notin Terminal
    <3> SUFFICES ASSUME item[i].state \in Terminal PROVE FALSE
      OBVIOUS
    <3>1. e = "note"
      BY <1>1 DEF Becomes, Accepts, From, Events, Leased, NonTerminal, Terminal, Absent
    <3>2. v.state = item[i].state
      BY <1>1, <3>1 DEF Becomes, Target, To, Events, Stay, Stored
    <3> QED
      BY <2>1, <3>2 DEF Spent
  <2> QED
    BY <2>1, <2>2, <2>3 DEF Spent
<1> QED
    BY <1>1, <1>2 DEF TypeOK

\* What the board appends to a failed item leaves it failed, or closes it.
LEMMA BoardKeepsFailed ==
    ASSUME TypeOK, NEW i \in Items, NEW e \in BoardEvents, Rewrites(i, e),
           NEW j \in Items, item[j].state = "failed", item'[j].state \notin Terminal
    PROVE  item'[j].state = "failed"
<1>1. PICK v : Becomes(i, e, v) /\ item' = [item EXCEPT ![i] = v]
    BY DEF Rewrites
<1>2. ASSUME i = j PROVE v.state = "failed"
  <2>1. e \in {"cancelled", "priority_set"}
    BY <1>1, <1>2 DEF BoardEvents, Becomes, Accepts, From, Events, Absent
  <2>2. v.state \notin Terminal
    BY <1>1, <1>2 DEF TypeOK
  <2> QED
    BY <1>1, <1>2, <2>1, <2>2 DEF Becomes, Target, To, Events, Stay, Stored, Terminal
<1> QED
    BY <1>1, <1>2 DEF TypeOK

LEMMA AtPoison ==
    ASSUME NEW w \in Workers, turn[w].pc \in {"poison_lease", "poison"}, TakeTurn(w)
    PROVE  PoisonLease(w) \/ Poison(w) \/ Raise(w)
<1> USE DEF At
<1>1. Sweep(w) => PoisonLease(w)
    BY DEF Sweep, ApplyAnswer, Reclaim, FailLease, Wake, TimeOut, Retry, Resolve, EndSweep,
           CommitSweep, Sweeps, Resolutions
<1>2. Dispose(w) => Poison(w)
    BY DEF Dispose, Suspend, PlanItem, PlanDone, PlanRefused, GatePasses, GateRejects, AppendDone,
           ProposePlain, ProposeBlocked, ProposeFailed, Reload, ProposalRefused
<1> QED
    BY <1>1, <1>2 DEF TakeTurn, StartTurn, Declare, Classify, Pick, Plan, NothingReady, Claim,
           Start, CommitClaim, Agent, AgentEnds, AgentProposes, AgentDenied, Finish, CommitTurn

LEMMA FailuresStep ==
    ASSUME Inv, FailuresInHand, [Next]_vars
    PROVE  FailuresInHand'
<1> USE DEF Inv
<1>1. ASSUME NEW w \in Workers, TakeTurn(w) PROVE FailuresInHand'
  <2>1. OthersStay(w) /\ Moves(w) /\ Flight(w)
    BY <1>1, TurnStep, TurnMoves DEF TurnShapes
  <2>2. \A v \in Workers \ {w} : turn[v].pc = "idle"
    BY <2>1, NoWorkerAssumption DEF Flight, SingleFlight, Active
  <2>3. crashes' = crashes
    BY <1>1 DEF TakeTurn, StartTurn, Declare, Sweep, ApplyAnswer, Reclaim, FailLease, Wake, TimeOut,
        Retry, PoisonLease, Resolve, EndSweep, CommitSweep, Classify, Pick, Plan, NothingReady,
        Claim, Start, CommitClaim, Agent, AgentEnds, AgentProposes, AgentDenied, Dispose, Suspend,
        PlanItem, PlanDone, PlanRefused, GatePasses, GateRejects, AppendDone, ProposePlain,
        ProposeBlocked, ProposeFailed, Poison, Reload, ProposalRefused, Finish, CommitTurn, Raise
  <2>a. SUFFICES ASSUME crashes = 0, NEW j \in Items, Spent(item'[j])
               PROVE  /\ item'[j].state = "failed"
                      /\ turn'[w].pc \in {"poison_lease", "poison"} /\ turn'[w].target = j
    BY <2>3 DEF FailuresInHand
  <2>4. CASE (\E i \in Items : FailLease(w, i)) \/ ProposeFailed(w)
    <3>0. \A a, r : AfterFailed(item[j], a, r).state = "failed"
      BY DEF AfterFailed, After, Target, To, Events, Stay, Stored
    <3>1. ASSUME NEW i \in Items, FailLease(w, i), i = j
          PROVE  /\ item'[j].state = "failed"
                 /\ turn'[w].pc = "poison_lease" /\ turn'[w].target = j
      BY <3>0, <3>1 DEF FailLease, Append, TypeOK, TurnState
    <3>2. ASSUME ProposeFailed(w), turn[w].target = j
          PROVE  /\ item'[j].state = "failed"
                 /\ turn'[w].pc = "poison" /\ turn'[w].target = j
      <4>1. PICK attempt \in {item[j].attempt} \cup Misreports, retryable \in BOOLEAN :
               /\ Append(j, AfterFailed(item[j], attempt, retryable))
               /\ Goto(w, IF ~retryable \/ attempt >= MaxAttempts THEN "poison" ELSE "reload")
        BY <3>2 DEF ProposeFailed
      <4>2. /\ item'[j].failure = [recorded |-> TRUE, attempt |-> attempt, retryable |-> retryable]
            /\ item'[j].state = "failed"
        <5>1. item'[j] = AfterFailed(item[j], attempt, retryable)
          BY <4>1 DEF Append, TypeOK
        <5> QED
          BY <3>0, <5>1 DEF AfterFailed, After
      <4>3. attempt \in Nat /\ MaxAttempts \in Nat
        BY TurnAssumption DEF TypeOK, ItemView
      <4>4. ~retryable \/ attempt >= MaxAttempts
        BY <2>a, <4>2, <4>3 DEF Spent
      <4> QED
        BY <3>2, <4>1, <4>2, <4>4 DEF Goto, TypeOK, TurnState
    <3>3. ASSUME NEW i \in Items \cup {None}, i # j, turn[w].pc \notin {"poison_lease", "poison"},
                 \E v : Append(i, v)
          PROVE  FALSE
      BY <2>a, <2>2, <3>3 DEF Append, FailuresInHand, TypeOK
    <3> QED
      BY <2>4, <3>1, <3>2, <3>3, TurnFields DEF FailLease, ProposeFailed, At
  <2>5. CASE ~((\E i \in Items : FailLease(w, i)) \/ ProposeFailed(w))
    <3>1. Spent(item[j])
      <4>1. CASE PlanRefused(w)
        BY <2>a, <4>1 DEF PlanRefused, NoItem, NoFailure, Spent
      <4>2. ASSUME NEW i \in Items \cup {None}, NEW e \in Events \ {"failed"}, Rewrites(i, e)
            PROVE  Spent(item[j])
        BY <2>a, <4>2, OnlyFailedSpends
      <4> QED
        BY <2>a, <2>1, <2>5, <4>1, <4>2 DEF Moves, Rewrites, Becomes
    <3>2. /\ turn[w].pc \in {"poison_lease", "poison"} /\ turn[w].target = j
          /\ item[j].state = "failed"
      BY <2>a, <2>2, <3>1 DEF FailuresInHand
    <3>3. PoisonLease(w) \/ Poison(w) \/ Raise(w)
      BY <1>1, <3>2, AtPoison
    <3>4. Accepts(item[j], "poisoned") /\ After(item[j], "poisoned").state = "poison"
      BY <3>2 DEF Accepts, After, Target, From, To, Events, States, Terminal, NonTerminal, Stay,
                  Stored
    <3>5. "poison" \in Terminal
      BY DEF Terminal
    <3> QED
      BY <2>a, <3>2, <3>3, <3>4, <3>5
      DEF PoisonLease, Poison, Append, Raise, Refused, At, TypeOK, Sweeps, Resolutions, Spent
  <2> QED
    BY <2>4, <2>5
<1>2. CASE \E w \in Workers : Crash(w)
    BY <1>2 DEF Crash, FailuresInHand, TypeOK
<1>3. CASE Board
  <2>1. BoardEvents \subseteq Events \ {"failed"}
    BY DEF BoardEvents, Events
  <2>2. UNCHANGED crashes
    BY <1>3 DEF Board, BoardAnswers, BoardCancels, BoardCreates, OperatorSnoozes, BoardSetsPriority,
                BoardAppends
  <2> QED
    <3> SUFFICES ASSUME crashes = 0, NEW j \in Items, Spent(item'[j])
                 PROVE  /\ item'[j].state = "failed"
                        /\ \E w \in Workers : /\ turn[w].pc \in {"poison_lease", "poison"}
                                               /\ turn[w].target = j
      BY <1>3, <2>2, BoardMoves DEF FailuresInHand
    <3>1. Spent(item[j])
      BY <1>3, <2>1, BoardMoves, OnlyFailedSpends
    <3>2. item[j].state = "failed"
      BY <3>1 DEF FailuresInHand
    <3>3. item'[j].state = "failed"
      BY <1>3, <3>2, BoardMoves, BoardKeepsFailed DEF Spent
    <3> QED
      BY <3>1, <3>3 DEF FailuresInHand
<1>4. CASE Tick
  <2>1. /\ UNCHANGED <<turn, crashes>>
        /\ \A i \in Items : item'[i].state = item[i].state /\ item'[i].failure = item[i].failure
    BY <1>4 DEF Tick, TypeOK, ItemView
  <2> QED
    BY <2>1 DEF FailuresInHand, Spent
<1>5. CASE UNCHANGED vars
    BY <1>5 DEF vars, FailuresInHand
<1> QED
    BY <1>1, <1>2, <1>3, <1>4, <1>5 DEF Next

LEMMA FailuresInvariance == Spec => [](Inv /\ FailuresInHand)
<1>1. Init => FailuresInHand
    BY DEF Init, NoItem, NoFailure, Spent, FailuresInHand
<1>2. Inv /\ FailuresInHand /\ [Next]_vars => FailuresInHand'
    BY FailuresStep
<1> QED
    BY <1>1, <1>2, Invariance, PTL DEF Spec

\* As long as no turn is killed, an item that ever failed is left in `failed` only with
\* attempts to spare, whatever attempt an agent reports and whatever block returned the
\* item there (_poison_if_exhausted, reclaim_expired, eventlog._fold).
THEOREM FailuresAreRetryable == Spec => []FailedMeansRetryable
<1>1. Inv /\ FailuresInHand => FailedMeansRetryable
    BY NoWorkerAssumption
    DEF Inv, SingleFlight, Active, FailuresInHand, FailedMeansRetryable, Retryable, Spent, Terminal
<1> QED
    BY <1>1, FailuresInvariance, PTL

-----------------------------------------------------------------------------
(* Planning.                                                               *)

LEMMA PlanningStep ==
    ASSUME Inv, PlansOnlyAroundStuckItems, [Next]_vars
    PROVE  PlansOnlyAroundStuckItems'
<1> USE DEF Inv
<1>1. ASSUME NEW w \in Workers, TakeTurn(w) \/ Crash(w) PROVE PlansOnlyAroundStuckItems'
  <2>1. Flight(w) /\ OthersStay(w) /\ SingleFlight'
    BY <1>1, TurnStep, SingleFlightStep DEF TurnShapes, Next
  <2>2. \A v \in Workers \ {w} : turn'[v].pc = "idle"
    BY <2>1, NoWorkerAssumption DEF Flight, OthersStay, SingleFlight, Active
  <2>3. ASSUME turn'[w].pc = "agent", turn'[w].target = None
        PROVE  \A i \in Items : item'[i].state \notin Leased
    <3>1. ASSUME NEW i \in Items, Pick(w, i) PROVE FALSE
      <4>1. turn'[w].target = i
        BY <3>1 DEF Pick, TypeOK, TurnState
      <4> QED
        BY <2>3, <4>1, TurnAssumption
    <3>2. ~CommitClaim(w)
      BY <2>3 DEF CommitClaim, Goto, At, TurnShapes, TurnShape, TypeOK, TurnState
    <3>3. Plan(w)
      BY <1>1, <2>3, <3>1, <3>2, AgentStarts DEF TurnShapes
    <3> QED
      BY <3>3 DEF Plan, ShouldPlan, InFlight
  <2> QED
    BY <2>2, <2>3 DEF PlansOnlyAroundStuckItems, At
<1>2. CASE Board
  <2>1. ASSUME NEW i \in Items, NEW e \in BoardEvents, Rewrites(i, e)
        PROVE  \A j \in Items : item'[j].state \in Leased => item[j].state \in Leased
    <3>1. e \in Events /\ e \notin {"unblocked", "started"} \cup Leased
      BY <2>1 DEF BoardEvents, Events, Leased
    <3>2. Target(item[i], e) \in Leased => item[i].state \in Leased
      BY <2>1 DEF BoardEvents, Target, To, Events, Stay, Stored, Leased
    <3> QED
      BY <2>1, <3>2 DEF Rewrites, Becomes, TypeOK
  <2> QED
    BY <1>2, <2>1, BoardMoves DEF PlansOnlyAroundStuckItems, At
<1>3. CASE Tick
  <2>1. UNCHANGED turn /\ \A i \in Items : item'[i].state = item[i].state
    BY <1>3 DEF Tick, TypeOK, ItemView
  <2> QED
    BY <2>1 DEF PlansOnlyAroundStuckItems, At
<1>4. CASE UNCHANGED vars
    BY <1>4 DEF vars, PlansOnlyAroundStuckItems, At
<1> QED
    BY <1>1, <1>2, <1>3, <1>4 DEF Next

\* A planning agent never runs beside an item that is being worked on, neither when
\* it starts nor by what the board does meanwhile (should_plan).
THEOREM PlanningIsAlone == Spec => []PlansOnlyAroundStuckItems
<1>1. Init => PlansOnlyAroundStuckItems
    BY DEF Init, NoTurn, PlansOnlyAroundStuckItems, At
<1>2. Inv /\ PlansOnlyAroundStuckItems /\ [Next]_vars => PlansOnlyAroundStuckItems'
    BY PlanningStep
<1> QED
    BY <1>1, <1>2, Invariance, PTL DEF Spec

-----------------------------------------------------------------------------
(* What the sweeps leave behind them.                                      *)

Waits == {"wake", "deadlines", "retry"}

\* The steps of a turn at which the sweep is over.
Over(sweep) ==
    CASE sweep = "wake" -> {"deadlines", "retry", "commit_sweep", "classify"} \cup Resolutions
      [] sweep = "deadlines" -> {"retry", "commit_sweep", "classify"}
      [] sweep = "retry" -> {"commit_sweep", "classify"}

\* What is due in a sweep is ahead of it, in the turn's hand, or was put there by the
\* deadlines' sweep.
StillAhead(w, sweep) == \A i \in Due(sweep) : sweep = "retry" \/ i \notin turn[w].returned =>
    /\ turn[w].pc \notin Over(sweep)
    /\ turn[w].pc = sweep => i > turn[w].cursor
    /\ sweep = "deadlines" /\ turn[w].pc \in Resolutions
          => i > turn[w].cursor \/ i = turn[w].target

SweptInv == \A w \in Workers, sweep \in Waits : StillAhead(w, sweep)

\* No question starts to bound a block.
NoNewBound ==
    \A q \in Questions : quest'[q].state = Awaiting => quest'[q] = quest[q]

\* An event that neither fails, blocks, snoozes nor returns an item makes nothing due;
\* nor does the operator, who snoozes for a while.
LEMMA NothingNewIsDue ==
    ASSUME TypeOK, NEW i \in Items \cup {None}, NoNewBound,
           NEW e \in Events \ {"failed", "blocked", "unblocked"}, Rewrites(i, e),
           e = "snoozed" => i \in Items /\ item'[i].wake # Elapsed
    PROVE  \A sweep \in Waits : Due(sweep)' \subseteq Due(sweep)
<1>1. PICK v : Becomes(i, e, v) /\ item' = [item EXCEPT ![i] = v]
    BY DEF Rewrites
<1>2. \A j \in Items : j = i \/ item'[j] = item[j]
    BY <1>1 DEF TypeOK
<1>3. i \in Items => /\ item'[i] = v /\ v.state = Target(item[i], e)
                     /\ v.block = After(item[i], e).block
                     /\ v.failure = After(item[i], e).failure
    BY <1>1 DEF TypeOK, Becomes
<1>4. ASSUME i \in Items, v.state \in {"blocked", "snoozed", "failed"}
      PROVE  /\ v.state = "snoozed" => e = "snoozed" \/ (item[i].state = "snoozed" /\ v.wake = item[i].wake)
             /\ v.state = "blocked" => item[i].state = "blocked" /\ v.block = item[i].block
             /\ v.state = "failed" => item[i].state = "failed" /\ v.failure = item[i].failure
  <2>1. (v.state = "snoozed" /\ e = "snoozed") \/ Target(item[i], e) = item[i].state
    BY <1>3, <1>4, Leads
  <2> QED
    BY <1>1, <1>3, <1>4, <2>1 DEF Becomes, After, Awaited, Terminal
<1>5. Due("wake")' \subseteq Due("wake")
    BY <1>2, <1>3, <1>4 DEF Due
<1>6. Due("retry")' \subseteq Due("retry")
    BY <1>2, <1>3, <1>4 DEF Due, Retryable
<1>7. Due("deadlines")' \subseteq Due("deadlines")
    BY <1>2, <1>3, <1>4 DEF Due, BoundElapsed, OnQuestion, NoNewBound
<1> QED
    BY <1>5, <1>6, <1>7 DEF Waits

\* The steps that lead to a late sweep, or behind the last.
Late == Waits \cup Resolutions \cup {"commit_sweep", "classify"}

LEMMA LateSteps ==
    ASSUME TypeOK, NEW w \in Workers, TakeTurn(w) \/ Crash(w), turn'[w].pc \in Late
    PROVE  \/ \E i \in Items : Wake(w, i) \/ TimeOut(w, i) \/ Retry(w, i)
           \/ Resolve(w) \/ EndSweep(w) \/ CommitSweep(w)
<1> USE TurnFields DEF At, Goto, Conclude, TypeOK, TurnState, Late, Waits, Resolutions
<1>1. ~(StartTurn(w) \/ Declare(w) \/ NothingReady(w) \/ Plan(w) \/ Claim(w) \/ Start(w)
        \/ CommitClaim(w) \/ Finish(w) \/ CommitTurn(w) \/ Raise(w) \/ Crash(w))
    BY DEF StartTurn, Declare, NothingReady, Plan, Claim, Start, CommitClaim, Finish, CommitTurn,
           Raise, Crash, Drop, NoTurn
<1>2. ASSUME NEW i \in Items, Pick(w, i) PROVE FALSE
    BY <1>2 DEF Pick
<1>3. ~(AgentEnds(w) \/ AgentProposes(w))
    BY DEF AgentEnds, AgentProposes
<1>4. ASSUME NEW q \in Questions, AgentDenied(w, q) \/ ApplyAnswer(w, q) PROVE FALSE
    BY <1>4 DEF AgentDenied, ApplyAnswer, Swept
<1>5. ASSUME NEW i \in Items, Reclaim(w, i) \/ FailLease(w, i) \/ PlanItem(w, i) PROVE FALSE
  <2>1. CASE Reclaim(w, i)
    BY <2>1 DEF Reclaim, Swept
  <2>2. CASE FailLease(w, i)
    BY <2>2 DEF FailLease
  <2>3. CASE PlanItem(w, i)
    BY <2>3 DEF PlanItem
  <2> QED
    BY <1>5, <2>1, <2>2, <2>3
<1>6. ~PoisonLease(w)
    BY DEF PoisonLease
<1>7. ~(Suspend(w) \/ PlanDone(w) \/ PlanRefused(w) \/ GatePasses(w) \/ GateRejects(w)
        \/ AppendDone(w) \/ ProposalRefused(w))
    BY DEF Suspend, PlanDone, PlanRefused, GatePasses, GateRejects, AppendDone, ProposalRefused
<1>8. ~(ProposePlain(w) \/ ProposeBlocked(w) \/ ProposeFailed(w) \/ Poison(w) \/ Reload(w))
    BY DEF ProposePlain, ProposeBlocked, ProposeFailed, Poison, Reload
<1> QED
    BY <1>1, <1>2, <1>3, <1>4, <1>5, <1>6, <1>7, <1>8 DEF TakeTurn, Sweep, Classify, Agent, Dispose

\* A late sweep keeps what is due ahead of it.
LEMMA LateStep ==
    ASSUME TypeOK, NEW w \in Workers, TurnShape(turn[w]), \A sweep \in Waits : StillAhead(w, sweep),
           \/ \E i \in Items : Wake(w, i) \/ TimeOut(w, i) \/ Retry(w, i)
           \/ Resolve(w) \/ EndSweep(w) \/ CommitSweep(w)
    PROVE  \A sweep \in Waits : StillAhead(w, sweep)'
<1>n. /\ \A sweep \in Waits : Due(sweep) \subseteq Items
      /\ Items \subseteq Nat \ {0}
    BY TurnAssumption DEF Due, Waits, None
<1>t. turn[w].cursor \in Nat /\ turn[w].target \in Items \cup {None}
    BY TurnFields
<1> USE DEF Waits, Over, StillAhead, Resolutions, At
<1>1. ASSUME NEW i \in Items, Wake(w, i) PROVE \A sweep \in Waits : StillAhead(w, sweep)'
  <2>1. Rewrites(i, "woke") /\ item'[i].state = "ready" /\ NoNewBound
    <3>1. item[i] \in ItemView /\ item[i].state = "snoozed"
      BY <1>1 DEF Wake, NextUp, Ahead, Due, TypeOK
    <3>2. Accepts(item[i], "woke")
      BY <3>1, SweptEventsAreAccepted
    <3>3. After(item[i], "woke").state = "ready"
      BY DEF After, Target, To, Events, Stay, Stored
    <3> QED
      BY <1>1, <3>2, <3>3, PlainBecomes DEF Wake, Append, Rewrites, NoNewBound, Events, TypeOK
  <2>2. \A sweep \in Waits : Due(sweep)' \subseteq Due(sweep)
    BY <2>1, NothingNewIsDue DEF Events
  <2>3. i \notin Due("wake")'
    BY <2>1 DEF Due
  <2>4. /\ turn'[w].pc = "wake" /\ turn'[w].cursor = i /\ turn[w].pc = "wake"
        /\ turn'[w].returned = turn[w].returned
    BY <1>1 DEF Wake, Swept, TypeOK, TurnState
  <2>5. \A x \in Due("wake") : x > turn[w].cursor => i <= x
    BY <1>1 DEF Wake, NextUp, Ahead
  <2> QED
    BY <1>n, <1>t, <2>2, <2>3, <2>4, <2>5
<1>2. ASSUME NEW i \in Items, Retry(w, i) PROVE \A sweep \in Waits : StillAhead(w, sweep)'
  <2>1. Rewrites(i, "retried") /\ item'[i].state = "ready" /\ NoNewBound
    <3>1. item[i] \in ItemView /\ item[i].state = "failed"
      BY <1>2 DEF Retry, NextUp, Ahead, Due, Retryable, TypeOK
    <3>2. Accepts(item[i], "retried")
      BY <3>1, SweptEventsAreAccepted
    <3>3. After(item[i], "retried").state = "ready"
      BY DEF After, Target, To, Events, Stay, Stored
    <3> QED
      BY <1>2, <3>2, <3>3, PlainBecomes DEF Retry, Append, Rewrites, NoNewBound, Events, TypeOK
  <2>2. \A sweep \in Waits : Due(sweep)' \subseteq Due(sweep)
    BY <2>1, NothingNewIsDue DEF Events
  <2>3. i \notin Due("retry")'
    BY <2>1 DEF Due, Retryable
  <2>4. /\ turn'[w].pc = "retry" /\ turn'[w].cursor = i /\ turn[w].pc = "retry"
        /\ turn'[w].returned = turn[w].returned
    BY <1>2 DEF Retry, Swept, TypeOK, TurnState
  <2>5. \A x \in Due("retry") : x > turn[w].cursor => i <= x
    BY <1>2 DEF Retry, NextUp, Ahead
  <2> QED
    BY <1>n, <1>t, <2>2, <2>3, <2>4, <2>5
<1>3. ASSUME NEW i \in Items, TimeOut(w, i) PROVE \A sweep \in Waits : StillAhead(w, sweep)'
  <2>1. UNCHANGED item /\ NoNewBound
    BY <1>3 DEF TimeOut, NoNewBound, QuestionAfter, Closed, Awaiting, TypeOK, QuestionView
  <2>2. \A sweep \in Waits : Due(sweep)' \subseteq Due(sweep)
    BY <2>1 DEF Due, Retryable, BoundElapsed, OnQuestion, NoNewBound
  <2>3. /\ turn'[w].pc \in Resolutions /\ turn'[w].cursor = i /\ turn'[w].target = i
        /\ turn[w].pc = "deadlines" /\ turn'[w].returned = turn[w].returned
    BY <1>3 DEF TimeOut, Resolution, TypeOK, TurnState
  <2>4. \A x \in Due("deadlines") : x > turn[w].cursor => i <= x
    BY <1>3 DEF TimeOut, NextUp, Ahead
  <2> QED
    BY <1>n, <1>t, <2>2, <2>3, <2>4
<1>4. CASE Resolve(w)
  <2> DEFINE i == turn[w].target
             e == turn[w].pc
  <2>1. /\ e \in Resolutions /\ i \in Items /\ UNCHANGED quest
        /\ Accepts(item[i], e) /\ item' = [item EXCEPT ![i] = After(item[i], e)]
    BY <1>4, <1>t DEF Resolve, Append, TurnShape
  <2>2. /\ turn'[w].pc = "deadlines" /\ turn'[w].cursor = turn[w].cursor
        /\ turn'[w].returned = IF e = "unblocked" THEN turn[w].returned \cup {i}
                               ELSE turn[w].returned
    BY <1>4 DEF Resolve, TypeOK, TurnState
  <2>3. CASE e = "abandoned"
    <3>1. NoNewBound /\ "abandoned" \in Events \ {"failed", "blocked", "unblocked"}
      BY <2>1 DEF NoNewBound, Events
    <3>2. Rewrites(i, "abandoned")
      BY <2>1, <2>3, <3>1, PlainBecomes DEF Rewrites
    <3>5. \A sweep \in Waits : Due(sweep)' \subseteq Due(sweep)
      <4> HIDE DEF i
      <4> QED
        BY <2>1, <3>1, <3>2, NothingNewIsDue
    <3>3. After(item[i], e).state = "abandoned"
      BY <2>3 DEF After, Target, To, Events, Stay, Stored
    <3>4. i \notin Due("deadlines")'
      BY <2>1, <3>3 DEF Due, BoundElapsed, TypeOK
    <3> HIDE DEF i
    <3> QED
      BY <1>n, <1>t, <2>2, <2>3, <3>4, <3>5 DEF i
  <2>4. CASE e = "unblocked"
    <3>1. \A j \in Items : j # i => item'[j] = item[j]
      BY <2>1
    <3>2. \A sweep \in Waits : Due(sweep)' \subseteq Due(sweep) \cup {i}
      BY <2>1, <3>1 DEF Due, Retryable, BoundElapsed, OnQuestion
    <3> QED
      BY <1>n, <1>t, <2>2, <2>4, <3>2
  <2> QED
    BY <2>1, <2>3, <2>4
<1>5. CASE EndSweep(w)
  <2>1. \A sweep \in Waits : Due(sweep)' = Due(sweep)
    BY <1>5 DEF EndSweep, Due, Retryable, BoundElapsed, OnQuestion
  <2>2. /\ turn[w].pc \in Sweeps /\ turn'[w].pc = Following[turn[w].pc] /\ turn'[w].cursor = 0
        /\ \A x \in Due(turn[w].pc) : ~(x > turn[w].cursor)
        /\ turn'[w].returned = turn[w].returned
    BY <1>5 DEF EndSweep, Ahead, TypeOK, TurnState
  <2> QED
    BY <1>n, <1>t, <2>1, <2>2 DEF Following, Sweeps
<1>6. CASE CommitSweep(w)
  <2>1. \A sweep \in Waits : Due(sweep)' = Due(sweep)
    BY <1>6 DEF CommitSweep, Due, Retryable, BoundElapsed, OnQuestion
  <2>2. /\ turn[w].pc = "commit_sweep" /\ turn'[w].pc = "classify"
        /\ turn'[w].returned = turn[w].returned
    BY <1>6 DEF CommitSweep, TypeOK, TurnState
  <2> QED
    BY <1>n, <1>t, <2>1, <2>2
<1> QED
    BY <1>1, <1>2, <1>3, <1>4, <1>5, <1>6

LEMMA SweptStep ==
    ASSUME Inv, SweptInv, DeadlineTicks > 0, [Next]_vars
    PROVE  SweptInv'
<1> USE DEF Inv
<1>0. ASSUME UNCHANGED turn, \A sweep \in Waits : Due(sweep)' \subseteq Due(sweep) PROVE SweptInv'
    BY <1>0 DEF SweptInv, StillAhead
<1>1. ASSUME NEW w \in Workers, TakeTurn(w) \/ Crash(w) PROVE SweptInv'
  <2>1. Flight(w) /\ OthersStay(w) /\ SingleFlight'
    BY <1>1, TurnStep, SingleFlightStep DEF TurnShapes, Next
  <2>2. \A v \in Workers \ {w} : turn'[v].pc = "idle"
    BY <2>1, NoWorkerAssumption DEF Flight, OthersStay, SingleFlight, Active
  <2>3. ASSUME NEW v \in Workers, turn'[v].pc \notin Late
        PROVE  \A sweep \in Waits : StillAhead(v, sweep)'
    BY <2>3 DEF Late, Waits, Over, StillAhead
  <2>4. turn'[w].pc \in Late => \A sweep \in Waits : StillAhead(w, sweep)'
    BY <1>1, LateSteps, LateStep DEF TurnShapes, SweptInv
  <2>5. "idle" \notin Late
    BY DEF Late, Waits, Resolutions
  <2> QED
    BY <2>2, <2>3, <2>4, <2>5 DEF SweptInv
<1>2. CASE Board
  <2> PICK i \in Items : \/ BoardAnswers(i) \/ BoardCancels(i)
                         \/ BoardCreates(i) \/ OperatorSnoozes(i)
                         \/ \E p \in Priorities : BoardSetsPriority(i, p)
    BY <1>2 DEF Board
  <2>1. CASE BoardAnswers(i)
    <3>1. UNCHANGED <<item, turn>> /\ NoNewBound
      BY <2>1 DEF BoardAnswers, NoNewBound, QuestionAccepts, QuestionAfter, Closed, Awaiting,
                  TypeOK, QuestionView
    <3>2. \A sweep \in Waits : Due(sweep)' \subseteq Due(sweep)
      BY <3>1 DEF Waits, Due, Retryable, BoundElapsed, OnQuestion, NoNewBound
    <3> QED
      BY <1>0, <3>1, <3>2
  <2>2. CASE ~BoardAnswers(i)
    <3>1. PICK e \in BoardEvents : /\ Rewrites(i, e) /\ UNCHANGED <<turn, quest>>
                                   /\ e = "snoozed" => item'[i].wake # Elapsed
      <4> USE DEF BoardEvents, Rewrites, BoardAppends
      <4>1. CASE BoardCancels(i) \/ BoardCreates(i)
        BY <4>1, PlainBecomes DEF BoardCancels, BoardCreates, Events
      <4>2. CASE OperatorSnoozes(i)
        <5>1. item'[i].wake = DeadlineTicks + Elapsed
          BY <4>2 DEF OperatorSnoozes, AfterSnoozed, After, TypeOK
        <5>2. item'[i].wake # Elapsed
          BY <5>1, TurnAssumption DEF Elapsed
        <5> QED
          BY <4>2, <5>2, OthersBecome DEF OperatorSnoozes
      <4>3. CASE \E p \in Priorities : BoardSetsPriority(i, p)
        BY <4>3, OthersBecome DEF BoardSetsPriority
      <4> QED
        BY <2>2, <4>1, <4>2, <4>3
    <3>2. NoNewBound /\ e \in Events \ {"failed", "blocked", "unblocked"}
      BY <3>1 DEF NoNewBound, BoardEvents, Events
    <3> QED
      BY <1>0, <3>1, <3>2, NothingNewIsDue
  <2> QED
    BY <2>1, <2>2
<1>3. CASE Tick
  <2>1. UNCHANGED turn /\ \A w \in Workers : turn[w].pc \notin Late
    BY <1>3 DEF Tick, Late, Waits, Resolutions
  <2> QED
    BY <2>1 DEF Late, Waits, Over, StillAhead, SweptInv
<1>4. CASE UNCHANGED vars
  <2>1. \A sweep \in Waits : Due(sweep)' = Due(sweep)
    BY <1>4 DEF vars, Waits, Due, Retryable, BoundElapsed, OnQuestion
  <2> QED
    BY <1>0, <1>4, <2>1 DEF vars
<1> QED
    BY <1>1, <1>2, <1>3, <1>4 DEF Next

\* If what the operator snoozes is to sleep at all, no sweep leaves anything due behind
\* it, but for what a block elapsed in the same sweep has returned to a state the sweeps
\* before it look at (wake_snoozed, sweep_deadlines, retry_failed, eventlog._fold).
THEOREM SweepsLeaveNothingDue ==
    ASSUME DeadlineTicks > 0
    PROVE  Spec => []NothingDueIsLeft
<1>1. Init => SweptInv
    BY DEF Init, NoTurn, SweptInv, StillAhead, Waits, Over, Resolutions
<1>2. Inv /\ SweptInv /\ [Next]_vars => SweptInv'
    BY SweptStep
<1>3. SweptInv => NothingDueIsLeft
    BY DEF SweptInv, StillAhead, Waits, Over, NothingDueIsLeft, At
<1> QED
    BY <1>1, <1>2, <1>3, Invariance, PTL DEF Spec

=============================================================================
