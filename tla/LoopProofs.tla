------------------------------ MODULE LoopProofs ------------------------------
(***************************************************************************)
(* What one loop knows of its queue, for every interval and every bound:   *)
(* the state's types, that its own commits never wake it, and how long it  *)
(* sleeps between two turns.                                               *)
(***************************************************************************)
EXTENDS Loop, TLAPS

\* Between Start or Again and the next turn nothing of the loop's own is news.
OwnIsBehind == pc \in {"project", "board", "check", "asleep"} => "own" \notin news

\* A turn is begun and ended with iterations to spare.
IterationsLeft == pc \notin {"down", "project"} => iteration < MaxIterations

\* The sleeping is part of the waiting until the heartbeat is due.
SleepIsWaiting == waited < HeartbeatSeconds => slept <= waited

\* A nap starts before the heartbeat is due and ends less than a poll behind it.
NapEnds == pc = "asleep" => slept + nap < Longest

IInv == TypeOK /\ IterationsLeft /\ OwnIsBehind /\ NeverWakesItself
        /\ SleepIsWaiting /\ NapEnds /\ WaitsAreBounded

LEMMA InitInv == Init => IInv
  <1> SUFFICES ASSUME Init PROVE IInv
    OBVIOUS
  <1>1. TypeOK
    <2>1. /\ iteration \in 0 .. MaxIterations /\ waited \in 0 .. HeartbeatSeconds
          /\ polled \in 0 .. BoardSeconds /\ nap \in 0 .. PollSeconds
          /\ slept \in 0 .. Longest /\ deaths \in 0 .. MaxDeaths
      BY LoopAssumption DEF Init, Longest
    <2>2. /\ pc \in PCs /\ reason \in Reasons /\ news \subseteq {"own", "foreign"}
          /\ ready \in BOOLEAN /\ asked \in BOOLEAN /\ unmet \in BOOLEAN
          /\ mess \in BOOLEAN /\ stray \in BOOLEAN
      BY Zenon DEF Init, PCs, Reasons
    <2>3. QED
      BY <2>1, <2>2, Zenon DEF TypeOK
  <1>2. /\ IterationsLeft /\ OwnIsBehind /\ NeverWakesItself
        /\ SleepIsWaiting /\ NapEnds /\ WaitsAreBounded
    BY LoopAssumption
    DEF Init, IterationsLeft, OwnIsBehind, NeverWakesItself, SleepIsWaiting, NapEnds,
        WaitsAreBounded, Longest
  <1>3. QED
    BY <1>1, <1>2 DEF IInv

LEMMA StepInv == IInv /\ [Next]_vars => IInv'
  <1> SUFFICES ASSUME IInv, [Next]_vars PROVE IInv'
    OBVIOUS
  <1> USE LoopAssumption
      DEF IInv, TypeOK, IterationsLeft, OwnIsBehind, NeverWakesItself,
          SleepIsWaiting, NapEnds, WaitsAreBounded, Longest, PCs, Reasons, loop, queue
  <1>1. CASE Project
    BY <1>1 DEF Project, Bound
  <1>2. CASE PollBoard
    <2>1. /\ polled' \in 0 .. BoardSeconds /\ asked' \in BOOLEAN
          /\ news' \in {news, news \cup {"foreign"}} /\ ready' \in BOOLEAN
          /\ UNCHANGED <<iteration, waited, nap, slept, mess, stray, deaths>>
      BY <1>2 DEF PollBoard
    <2>2. CASE iteration = 0
      BY <1>2, <2>1, <2>2 DEF PollBoard, Begin
    <2>3. CASE iteration # 0
      BY <1>2, <2>1, <2>3 DEF PollBoard
    <2>4. QED
      BY <2>2, <2>3
  <1>3. CASE Check
    <2>1. /\ pc = "check"
          /\ UNCHANGED <<iteration, waited, polled, slept, news, ready, asked, mess,
                         stray, deaths>>
          /\ unmet' \in BOOLEAN
      BY <1>3, Zenon DEF Check, Begin
    <2>2. CASE pc' = "turn" /\ reason' \in Reasons \ {"external_event"} /\ nap' = nap
      BY <2>1, <2>2
    <2>3. CASE pc' = "turn" /\ reason' = "external_event" /\ nap' = nap /\ news # {}
      BY <2>1, <2>3
    <2>4. CASE pc' = "asleep" /\ reason' = reason /\ nap' = PollSeconds
               /\ waited < HeartbeatSeconds
      BY <2>1, <2>4
    <2>5. \/ pc' = "turn" /\ reason' \in Reasons \ {"external_event"} /\ nap' = nap
          \/ pc' = "turn" /\ reason' = "external_event" /\ nap' = nap /\ news # {}
          \/ pc' = "asleep" /\ reason' = reason /\ nap' = PollSeconds
             /\ waited < HeartbeatSeconds
      BY <1>3, Zenon DEF Check, Begin
    <2>6. QED
      BY <2>2, <2>3, <2>4, <2>5, Zenon
  <1>4. CASE Awake
    BY <1>4 DEF Awake
  <1>5. CASE TurnReturns
    BY <1>5 DEF TurnReturns
  <1>6. CASE TurnRaises
    BY <1>6 DEF TurnRaises
  <1>7. CASE WriteWake
    BY <1>7 DEF WriteWake
  <1>8. CASE CommitWake
    BY <1>8 DEF CommitWake
  <1>9. CASE Again
    BY <1>9 DEF Again
  <1>10. CASE Start
    BY <1>10 DEF Start
  <1>11. CASE Die
    BY <1>11 DEF Die
  <1>12. CASE Tick
    <2>1. CASE pc = "asleep"
      BY <1>12, <2>1 DEF Tick, Count
    <2>2. CASE pc = "board"
      BY <1>12, <2>2 DEF Tick, Count
    <2>3. QED
      BY <1>12, <2>1, <2>2 DEF Tick
  <1>13. CASE Elsewhere
    BY <1>13 DEF Elsewhere
  <1>14. CASE Post
    BY <1>14 DEF Post
  <1>15. CASE CleanUp
    <2>1. mess' \in BOOLEAN /\ stray' \in BOOLEAN
      BY <1>15, Zenon DEF CleanUp
    <2>2. UNCHANGED <<loop, queue, asked, deaths>>
      BY <1>15, Zenon DEF CleanUp
    <2>3. QED
      BY <2>1, <2>2, SMTT(30)
  <1>16. CASE UNCHANGED vars
    BY <1>16 DEF vars
  <1>17. QED
    BY <1>1, <1>2, <1>3, <1>4, <1>5, <1>6, <1>7, <1>8, <1>9, <1>10, <1>11, <1>12,
       <1>13, <1>14, <1>15, <1>16 DEF Next, Step

\* The inductive invariant holds of every loop (run_loop).
THEOREM LoopInvariant == Spec => []IInv
  <1>1. QED
    BY InitInv, StepInv, PTL DEF Spec

\* The variables keep their types: no clock passes its bound (run_loop).
THEOREM LoopTypes == Spec => []TypeOK
  <1>1. IInv => TypeOK
    BY DEF IInv
  <1>2. QED
    BY <1>1, LoopInvariant, PTL

\* Whatever the intervals, the loop's own commits never wake it (_await_wake, and
\* last_head read behind _record_wake).
THEOREM OwnCommitsDoNotWake == Spec => []NeverWakesItself
  <1>1. IInv => NeverWakesItself
    BY DEF IInv
  <1>2. QED
    BY <1>1, LoopInvariant, PTL

\* Whatever the intervals, and however they relate, the loop sleeps less than a
\* heartbeat and one poll between two turns (_await_wake).
THEOREM SleepIsBounded == Spec => []WaitsAreBounded
  <1>1. IInv => WaitsAreBounded
    BY DEF IInv
  <1>2. QED
    BY <1>1, LoopInvariant, PTL

=============================================================================
