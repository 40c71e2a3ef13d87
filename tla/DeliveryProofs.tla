--------------------------- MODULE DeliveryProofs ---------------------------
(***************************************************************************)
(* Theorems about Delivery, for any number of queues, turns, commits and   *)
(* crashes and any remotes, where the queues lie outside the workspace.    *)
(***************************************************************************)
EXTENDS Delivery, TLAPS

-----------------------------------------------------------------------------
(* Prefixes and amendments.                                                *)

LEMMA PrefixDef ==
    ASSUME NEW S, NEW s \in Seq(S), NEW t \in Seq(S)
    PROVE  IsPrefix(s, t) <=> /\ Len(s) <= Len(t)
                              /\ \A i \in 1 .. Len(s) : s[i] = t[i]
<1>1. ASSUME Len(s) <= Len(t)
      PROVE  /\ SubSeq(s, 1, Len(s)) = s
             /\ SubSeq(t, 1, Len(s)) \in Seq(S)
             /\ Len(SubSeq(t, 1, Len(s))) = Len(s)
             /\ \A i \in 1 .. Len(s) : SubSeq(t, 1, Len(s))[i] = t[i]
    BY <1>1
<1>2. ASSUME Len(s) <= Len(t), \A i \in 1 .. Len(s) : s[i] = t[i]
      PROVE  SubSeq(t, 1, Len(s)) = s
    BY <1>1, <1>2
<1> QED
    BY <1>1, <1>2 DEF IsPrefix

LEMMA PrefixItself == ASSUME NEW S, NEW s \in Seq(S) PROVE IsPrefix(s, s)
    BY PrefixDef

LEMMA PrefixAppend ==
    ASSUME NEW S, NEW s \in Seq(S), NEW t \in Seq(S), NEW x \in S, IsPrefix(s, t)
    PROVE  IsPrefix(s, Append(t, x))
<1>1. /\ Append(t, x) \in Seq(S) /\ Len(Append(t, x)) = Len(t) + 1
      /\ \A i \in 1 .. Len(t) : Append(t, x)[i] = t[i]
    OBVIOUS
<1>2. Len(s) <= Len(t) /\ \A i \in 1 .. Len(s) : s[i] = t[i]
    BY PrefixDef
<1>3. /\ Len(s) <= Len(Append(t, x))
      /\ \A i \in 1 .. Len(s) : s[i] = Append(t, x)[i]
    BY <1>1, <1>2
<1> QED
    BY <1>1, <1>3, PrefixDef

LEMMA AmendTop ==
    ASSUME NEW S, NEW t \in Seq(S), t # <<>>, NEW x \in S
    PROVE  LET u == [t EXCEPT ![Len(t)] = x]
           IN  /\ u \in Seq(S) /\ Len(u) = Len(t) /\ u[Len(t)] = x
               /\ \A i \in 1 .. Len(t) : i # Len(t) => u[i] = t[i]
               /\ \A s \in Seq(S) : IsPrefix(s, t) /\ s # t => IsPrefix(s, u)
<1> DEFINE u == [t EXCEPT ![Len(t)] = x]
<1>1. /\ u \in Seq(S) /\ Len(u) = Len(t) /\ u[Len(t)] = x
      /\ \A i \in 1 .. Len(t) : i # Len(t) => u[i] = t[i]
    OBVIOUS
<1>2. ASSUME NEW s \in Seq(S), IsPrefix(s, t), s # t
      PROVE  IsPrefix(s, u)
  <2>1. Len(s) <= Len(t) /\ \A i \in 1 .. Len(s) : s[i] = t[i]
      BY <1>2, PrefixDef
  <2>2. Len(s) # Len(t)
      BY <1>2, <2>1
  <2> HIDE DEF u
  <2>3. \A i \in 1 .. Len(s) : i \in 1 .. Len(t) /\ i # Len(t)
      BY <2>1, <2>2
  <2>4. Len(s) <= Len(u) /\ \A i \in 1 .. Len(s) : s[i] = u[i]
      BY <1>1, <2>1, <2>3
  <2> QED
      BY <1>1, <2>4, PrefixDef
<1> QED
    BY <1>1, <1>2

-----------------------------------------------------------------------------
(* Types.                                                                  *)

LEMMA RepoOfType == ASSUME NEW q \in Queues PROVE RepoOf(q) \in Repos
    BY DEF RepoOf, Repos

LEMMA WriteType ==
    ASSUME TypeOK, NEW r \in Repos, NEW c \in Commits, Write(r, c)
    PROVE  /\ hist' \in [Repos -> Seq(Commits)]
           /\ hist'[r] = Append(hist[r], c)
           /\ \A s \in Repos : s # r => hist'[s] = hist[s]
<1>1. hist[r] \in Seq(Commits)
    BY DEF TypeOK
<1> HIDE DEF Commits, Repos
<1>2. Append(hist[r], c) \in Seq(Commits)
    BY <1>1
<1> QED
    BY <1>2 DEF Write, TypeOK

LEMMA PlainType ==
    ASSUME NEW kind \in Kinds, NEW run \in Runs \cup {NoRun}, NEW marks \in SUBSET Runs
    PROVE  /\ Plain(kind, run, marks) \in Commits
           /\ Plain(kind, run, marks).by = run /\ Plain(kind, run, marks).marks = marks
    BY DEF Plain, Commits

LEMMA RecordType ==
    ASSUME TypeOK, NEW q \in Queues, NEW rows \in SUBSET Runs
    PROVE  /\ Record(q, rows) \in Commits
           /\ Record(q, rows).by = Run(q) /\ Record(q, rows).marks = {Run(q)}
<1>1. Run(q) \in Runs
    BY DEF Run, Runs, TypeOK
<1>2. turn[q].names \in Nat /\ turn[q].priced \in BOOLEAN
    BY DEF TypeOK, Turns
<1> QED
    BY <1>1, <1>2 DEF Record, Plain, Commits, Kinds

LEMMA AmendedType ==
    ASSUME TypeOK, NEW q \in Queues, hist[Workspace] # <<>>
    PROVE  LET h == hist[Workspace]
               n == Top(Workspace)
               c == [h[n] EXCEPT !.marks = @ \cup {Run(q)}]
           IN  /\ n \in Nat /\ n \in DOMAIN h /\ h[n] \in Commits
               /\ c \in Commits /\ c.by = h[n].by /\ c.marks = h[n].marks \cup {Run(q)}
               /\ Amended(Run(q)) = [h EXCEPT ![Len(h)] = c]
               /\ Amended(Run(q)) \in Seq(Commits)
<1> DEFINE h == hist[Workspace]
           n == Top(Workspace)
           c == [h[n] EXCEPT !.marks = @ \cup {Run(q)}]
<1>1. Run(q) \in Runs
    BY DEF Run, Runs, TypeOK
<1>2. h \in Seq(Commits)
    BY DEF TypeOK, Repos
<1>3. n \in Nat /\ n \in DOMAIN h /\ h[n] \in Commits
    BY <1>2 DEF Top
<1>4. c \in Commits /\ c.by = h[n].by /\ c.marks = h[n].marks \cup {Run(q)}
    BY <1>1, <1>3 DEF Commits
<1>5. Amended(Run(q)) = [h EXCEPT ![Len(h)] = c]
    BY DEF Amended, Top
<1>6. Amended(Run(q)) \in Seq(Commits)
    BY <1>2, <1>3, <1>4, <1>5
<1> HIDE DEF c
<1> QED
    BY <1>3, <1>4, <1>5, <1>6 DEF c

LEMMA NoTurnType == NoTurn \in Turns
    BY DEF NoTurn, Turns, PCs, Acts, Outcomes

LEMMA TurnType ==
    ASSUME TypeOK, NEW q \in Queues, NEW t \in Turns
    PROVE  [turn EXCEPT ![q] = t] \in [Queues -> Turns]
    BY DEF TypeOK

LEMMA GotoType ==
    ASSUME TypeOK, NEW q \in Queues, NEW pc \in PCs, Goto(q, pc)
    PROVE  turn' \in [Queues -> Turns]
<1>1. turn[q] \in Turns
    BY DEF TypeOK
<1>2. turn' = [turn EXCEPT ![q] = [turn[q] EXCEPT !.pc = pc]]
    BY DEF Goto
<1>3. [turn[q] EXCEPT !.pc = pc] \in Turns
    BY <1>1 DEF Turns
<1> QED
    BY <1>2, <1>3, TurnType

\* The other updates of a turn's memory, field by field.
LEMMA MemoryType ==
    ASSUME NEW t \in Turns, NEW pc \in PCs
    PROVE  /\ \A o \in Outcomes : [t EXCEPT !.pc = pc, !.outcome = o] \in Turns
           /\ \A o \in Outcomes : [t EXCEPT !.outcome = o, !.pc = pc] \in Turns
           /\ \A o \in Outcomes : [t EXCEPT !.outcome = o, !.names = 0, !.pc = pc] \in Turns
           /\ \A h \in Seq(Commits) : [t EXCEPT !.before = h, !.pc = pc] \in Turns
           /\ \A h \in Seq(Commits) : [t EXCEPT !.certified = h, !.pc = pc] \in Turns
           /\ \A n \in Nat : [t EXCEPT !.names = n, !.pc = pc] \in Turns
           /\ \A b \in BOOLEAN : [t EXCEPT !.priced = b, !.pc = pc] \in Turns
           /\ \A i \in {0, 1} : [t EXCEPT !.asked = i] \in Turns
<1>1. \A o \in Outcomes : /\ [t EXCEPT !.pc = pc, !.outcome = o] \in Turns
                          /\ [t EXCEPT !.outcome = o, !.pc = pc] \in Turns
                          /\ [t EXCEPT !.outcome = o, !.names = 0, !.pc = pc] \in Turns
    BY DEF Turns
<1>2. \A h \in Seq(Commits) : /\ [t EXCEPT !.before = h, !.pc = pc] \in Turns
                              /\ [t EXCEPT !.certified = h, !.pc = pc] \in Turns
    BY DEF Turns
<1>3. \A n \in Nat : [t EXCEPT !.names = n, !.pc = pc] \in Turns
    BY DEF Turns
<1>4. \A b \in BOOLEAN : [t EXCEPT !.priced = b, !.pc = pc] \in Turns
    BY DEF Turns
<1>5. \A i \in {0, 1} : [t EXCEPT !.asked = i] \in Turns
    BY DEF Turns
<1> QED
    BY <1>1, <1>2, <1>3, <1>4, <1>5

LEMMA ExitType ==
    ASSUME TypeOK, NEW q \in Queues, Exit(q)
    PROVE  /\ turn' \in [Queues -> Turns] /\ holder' \in Queues \cup {None}
           /\ SameTree => holder' = None
<1>1. turn' \in [Queues -> Turns]
    BY NoTurnType, TurnType DEF Exit
<1>2. holder' \in Queues \cup {None} /\ (SameTree => holder' = None)
    BY DEF Exit, TypeOK
<1> QED
    BY <1>1, <1>2

LEMMA TypeStep ==
    ASSUME TypeOK, [Next]_vars
    PROVE  TypeOK'
<1> USE DeliveryAssumption
<1>1. CASE UNCHANGED vars
    BY <1>1 DEF vars, TypeOK
<1>2. ASSUME NEW q \in Queues, NEW act \in Acts, Open(q, act)
      PROVE  TypeOK'
  <2>1. begun' \in [Queues -> Nat] /\ Run(q)' \in Runs
      BY <1>2 DEF Open, TypeOK, Run, Runs
  <2>2. hist' \in [Repos -> Seq(Commits)]
      BY <1>2, <2>1, RepoOfType, WriteType, PlainType DEF Open, Kinds
  <2>3. turn' \in [Queues -> Turns]
    <3> DEFINE t == [NoTurn EXCEPT !.act = act,
                                   !.pc = IF act = "nothing" THEN "finish" ELSE "lock",
                                   !.outcome = IF act = "nothing" THEN "other" ELSE "none"]
    <3>1. /\ t.pc \in PCs /\ t.act \in Acts /\ t.outcome \in Outcomes
          /\ t = [NoTurn EXCEPT !.act = t.act, !.pc = t.pc, !.outcome = t.outcome]
        BY DEF NoTurn, PCs, Outcomes
    <3> HIDE DEF t
    <3>2. t \in Turns
        BY <3>1, NoTurnType DEF Turns
    <3> USE DEF t
    <3>3. turn' = [turn EXCEPT ![q] = t]
        BY <1>2 DEF Open
    <3> HIDE DEF t
    <3> QED
        BY <3>2, <3>3, TurnType
  <2> QED
      BY <1>2, <2>1, <2>2, <2>3 DEF Open, TypeOK
<1>3. ASSUME NEW q \in Queues, Lock(q) PROVE TypeOK'
  <2>1. turn' \in [Queues -> Turns]
      BY <1>3, GotoType DEF Lock, PCs
  <2> QED
      BY <1>3, <2>1 DEF Lock, TypeOK
<1>4. ASSUME NEW q \in Queues, LockBusy(q) PROVE TypeOK'
    BY <1>4, ExitType DEF LockBusy, TypeOK
<1>5. ASSUME NEW q \in Queues, ReadHead(q) PROVE TypeOK'
  <2>1. turn' = [turn EXCEPT ![q] = [turn[q] EXCEPT !.before = hist[Workspace], !.pc = "agent"]]
      BY <1>5 DEF ReadHead, TypeOK
  <2>2. turn[q] \in Turns /\ hist[Workspace] \in Seq(Commits)
      BY DEF TypeOK, Repos
  <2>3. turn' \in [Queues -> Turns]
      BY <2>1, <2>2, MemoryType, TurnType DEF PCs, Outcomes
  <2> QED
      BY <1>5, <2>3 DEF ReadHead, TypeOK
<1>6. ASSUME NEW q \in Queues, Work(q) PROVE TypeOK'
  <2>1. Run(q) \in Runs
      BY DEF TypeOK, Run, Runs
  <2>2. hist' \in [Repos -> Seq(Commits)]
      BY <1>6, <2>1, WriteType, PlainType DEF Work, Kinds, Repos
  <2> QED
      BY <1>6, <2>1, <2>2 DEF Work, TypeOK
<1>7. ASSUME NEW q \in Queues, NEW ending \in Endings, AgentEnds(q, ending)
      PROVE  TypeOK'
  <2> DEFINE pc == IF ending = "done" THEN "gate" ELSE "price"
             o == IF ending = "done" THEN turn[q].outcome ELSE ending
  <2>1. turn' = [turn EXCEPT ![q] = [turn[q] EXCEPT !.pc = pc, !.outcome = o]]
      BY <1>7 DEF AgentEnds, TypeOK
  <2>2. turn[q] \in Turns /\ turn[q].outcome \in Outcomes
      BY DEF TypeOK, Turns
  <2>3. pc \in PCs /\ o \in Outcomes
      BY <2>2 DEF PCs, Endings, Outcomes
  <2> HIDE DEF pc, o
  <2>4. turn' \in [Queues -> Turns]
      BY <2>1, <2>2, <2>3, MemoryType, TurnType
  <2>5. Run(q) \in Runs
      BY DEF TypeOK, Run, Runs
  <2> QED
      BY <1>7, <2>4, <2>5 DEF AgentEnds, TypeOK
<1>8. ASSUME NEW q \in Queues, GatePasses(q) PROVE TypeOK'
  <2>1. turn' = [turn EXCEPT ![q] = [turn[q] EXCEPT !.certified = hist[Workspace], !.pc = "deliver"]]
      BY <1>8 DEF GatePasses, TypeOK
  <2>2. turn[q] \in Turns /\ hist[Workspace] \in Seq(Commits)
      BY DEF TypeOK, Repos
  <2>3. turn' \in [Queues -> Turns]
      BY <2>1, <2>2, MemoryType, TurnType DEF PCs, Outcomes
  <2> QED
      BY <1>8, <2>3 DEF GatePasses, TypeOK
<1>9. ASSUME NEW q \in Queues, GateRejects(q) PROVE TypeOK'
  <2>1. turn' = [turn EXCEPT ![q] = [turn[q] EXCEPT !.outcome = "other", !.pc = "price"]]
      BY <1>9 DEF GateRejects, TypeOK
  <2>2. turn[q] \in Turns /\ hist[Workspace] \in Seq(Commits)
      BY DEF TypeOK, Repos
  <2>3. turn' \in [Queues -> Turns]
      BY <2>1, <2>2, MemoryType, TurnType DEF PCs, Outcomes
  <2> QED
      BY <1>9, <2>3 DEF GateRejects, TypeOK
<1>10. ASSUME NEW q \in Queues, Deliver(q) PROVE TypeOK'
  <2>1. hist[Workspace] \in Seq(Commits) /\ turn[q] \in Turns
      BY DEF TypeOK, Repos
  <2>2. CASE hist[Workspace] \in {<<>>, turn[q].before}
    <3>1. turn' \in [Queues -> Turns]
        BY <1>10, <2>2, GotoType DEF Deliver, PCs
    <3> QED
        BY <1>10, <2>2, <3>1 DEF Deliver, TypeOK
  <2>3. CASE hist[Workspace] \notin {<<>>, turn[q].before}
    <3>1. Top(Workspace) \in Nat /\ Amended(Run(q)) \in Seq(Commits)
        BY <2>3, AmendedType
    <3>2. turn' = [turn EXCEPT ![q] = [turn[q] EXCEPT !.names = Top(Workspace), !.pc = "apply"]]
        BY <1>10, <2>3 DEF Deliver, TypeOK
    <3>3. turn' \in [Queues -> Turns]
        BY <2>1, <3>1, <3>2, MemoryType, TurnType DEF PCs
    <3>4. hist' = [hist EXCEPT ![Workspace] = Amended(Run(q))]
        BY <1>10, <2>3 DEF Deliver
    <3>5. hist' \in [Repos -> Seq(Commits)]
        BY <3>1, <3>4 DEF TypeOK
    <3> QED
        BY <1>10, <3>3, <3>5 DEF Deliver, TypeOK
  <2> QED
      BY <2>2, <2>3
<1>11. ASSUME NEW q \in Queues, Applied(q) PROVE TypeOK'
  <2>1. turn' = [turn EXCEPT ![q] = [turn[q] EXCEPT !.outcome = "advanced", !.pc = "price"]]
      BY <1>11 DEF Applied, TypeOK
  <2>2. turn[q] \in Turns /\ hist[Workspace] \in Seq(Commits)
      BY DEF TypeOK, Repos
  <2>3. turn' \in [Queues -> Turns]
      BY <2>1, <2>2, MemoryType, TurnType DEF PCs, Outcomes
  <2> QED
      BY <1>11, <2>3 DEF Applied, TypeOK
<1>12. ASSUME NEW q \in Queues, Refused(q) PROVE TypeOK'
  <2>1. turn' = [turn EXCEPT ![q] = [turn[q] EXCEPT !.outcome = "other", !.names = 0, !.pc = "price"]]
      BY <1>12 DEF Refused, TypeOK
  <2>2. turn[q] \in Turns /\ hist[Workspace] \in Seq(Commits)
      BY DEF TypeOK, Repos
  <2>3. turn' \in [Queues -> Turns]
      BY <2>1, <2>2, MemoryType, TurnType DEF PCs, Outcomes
  <2> QED
      BY <1>12, <2>3 DEF Refused, TypeOK
<1>13. ASSUME NEW q \in Queues, NEW written \in BOOLEAN, Price(q, written)
       PROVE  TypeOK'
  <2>1. Run(q) \in Runs
      BY DEF TypeOK, Run, Runs
  <2>2. turn' = [turn EXCEPT ![q] = [turn[q] EXCEPT !.priced = written, !.pc = "finish"]]
      BY <1>13 DEF Price, TypeOK
  <2>3. turn[q] \in Turns
      BY DEF TypeOK
  <2>4. turn' \in [Queues -> Turns]
      BY <2>2, <2>3, MemoryType, TurnType DEF PCs
  <2>5. unsaved' \in [Queues -> SUBSET Runs]
      BY <1>13, <2>1 DEF Price, TypeOK
  <2> QED
      BY <1>13, <2>4, <2>5 DEF Price, TypeOK
<1>14. ASSUME NEW q \in Queues, Finish(q) PROVE TypeOK'
  <2>1. unsaved[q] \in SUBSET Runs
      BY DEF TypeOK
  <2>2. hist' \in [Repos -> Seq(Commits)]
      BY <1>14, <2>1, WriteType, RepoOfType, RecordType DEF Finish
  <2>3. unsaved' \in [Queues -> SUBSET Runs]
      BY <1>14 DEF Finish, TypeOK
  <2>4. /\ turn' \in [Queues -> Turns] /\ holder' \in Queues \cup {None}
        /\ SameTree => holder' = None
    <3>1. CASE Exit(q)
        BY <3>1, ExitType DEF Exit, TypeOK
    <3>2. CASE Goto(q, "publish") /\ UNCHANGED holder
        BY <3>2, GotoType DEF TypeOK, PCs
    <3> QED
        BY <1>14, <3>1, <3>2 DEF Finish, EndTurn
  <2> QED
      BY <1>14, <2>2, <2>3, <2>4 DEF Finish, TypeOK
<1>15. ASSUME NEW q \in Queues, Publish(q) PROVE TypeOK'
  <2>1. remote' \in [Repos -> Seq(Commits)]
      BY <1>15 DEF Publish, Push, TypeOK
  <2>2. /\ turn' \in [Queues -> Turns] /\ holder' \in Queues \cup {None}
        /\ SameTree => holder' = None
    <3>1. CASE Exit(q)
        BY <3>1, ExitType DEF Exit, TypeOK
    <3>2. CASE /\ turn[q].asked + 1 # Len(Order)
               /\ turn' = [turn EXCEPT ![q].asked = @ + 1] /\ UNCHANGED holder
      <4>1. turn[q] \in Turns /\ turn[q].asked \in {0, 1} /\ Len(Order) = 2
          BY DEF TypeOK, Turns, Order
      <4>2. turn[q].asked + 1 \in {0, 1}
          BY <3>2, <4>1
      <4>3. turn' = [turn EXCEPT ![q] = [turn[q] EXCEPT !.asked = turn[q].asked + 1]]
          BY <3>2 DEF TypeOK
      <4>4. turn' \in [Queues -> Turns]
          BY <4>1, <4>2, <4>3, MemoryType, TurnType DEF PCs
      <4> QED
          BY <3>2, <4>4 DEF TypeOK
    <3> QED
        BY <1>15, <3>1, <3>2 DEF Publish
  <2> QED
      BY <1>15, <2>1, <2>2 DEF Publish, TypeOK
<1>16. ASSUME NEW q \in Queues, Other(q) PROVE TypeOK'
  <2>1. hist' \in [Repos -> Seq(Commits)]
      BY <1>16, WriteType, RepoOfType, PlainType DEF Other, Kinds
  <2> QED
      BY <1>16, <2>1 DEF Other, TypeOK
<1>17. ASSUME NEW q \in Queues, Crash(q) PROVE TypeOK'
  <2>1. crashes' \in Nat
      BY <1>17 DEF Crash, TypeOK
  <2> QED
      BY <1>17, <2>1, ExitType DEF Crash, TypeOK
<1> QED
    BY <1>1, <1>2, <1>3, <1>4, <1>5, <1>6, <1>7, <1>8, <1>9, <1>10, <1>11, <1>12,
       <1>13, <1>14, <1>15, <1>16, <1>17 DEF Next

LEMMA InitTyped == Init => TypeOK
    BY DeliveryAssumption, NoTurnType DEF Init, TypeOK, Turns

\* Every variable keeps its type; with one tree for both there is no second flock.
THEOREM TypeCorrect == Spec => []TypeOK
<1>1. TypeOK /\ [Next]_vars => TypeOK'
    BY TypeStep
<1> QED
    BY InitTyped, <1>1, PTL DEF Spec

-----------------------------------------------------------------------------
(***************************************************************************)
(* One turn in the tree, and what that turn knows of its history.  The     *)
(* invariant speaks of each queue by itself: what the queue's own turn has *)
(* found stays true as long as it is in the tree, because nobody else      *)
(* commits there or pushes from there.                                     *)
(***************************************************************************)

Shape(q) ==
    /\ turn[q].act = "nothing" =>
          At(q, "idle") \/ (At(q, "finish") /\ turn[q].outcome = "other")
    /\ turn[q].pc \in {"head", "gate", "deliver", "apply"} => turn[q].act = "item"

Held(q) == InTree(q) => holder = q

Saw(q) == At(q, "deliver") => hist[Workspace] = turn[q].certified

\* Since it read HEAD, the turn alone has added to the workspace, and nothing of
\* that is public yet.
Began(q) ==
    turn[q].act = "item" /\ turn[q].pc \in {"agent", "gate", "deliver"} =>
        /\ IsPrefix(turn[q].before, hist[Workspace])
        /\ \A i \in 1 .. Len(hist[Workspace]) :
              i > Len(turn[q].before) => hist[Workspace][i].by = Run(q)
        /\ IsPrefix(remote[Workspace], turn[q].before)

Local(q) == Shape(q) /\ Held(q) /\ Saw(q) /\ Began(q)

Clean(c) == c.marks \subseteq {c.by}

TreeInv == /\ TypeOK
           /\ \A q \in Queues : Local(q)
           /\ MarkedCommitsAreTheRunsOwn
           /\ OwnPushesFastForward

\* What a step of one queue leaves alone is still so for another: it does not
\* touch its turn or its lock, and the tree only if the other is not in it.
LEMMA Undisturbed ==
    ASSUME TypeOK, NEW r \in Queues, Local(r),
           turn'[r] = turn[r], begun'[r] = begun[r],
           holder = r => holder' = r,
           InTree(r) => hist'[Workspace] = hist[Workspace] /\ remote'[Workspace] = remote[Workspace]
    PROVE  Local(r)'
<1>1. Shape(r)' /\ Held(r)'
    BY DEF Local, Shape, Held, InTree, At
<1>2. Saw(r)'
    BY DEF Local, Shape, Saw, InTree, At
<1>3. Began(r)'
    BY DEF Local, Began, InTree, Run
<1> QED
    BY <1>1, <1>2, <1>3 DEF Local

\* A commit that carries no foreign trailer may be added anywhere.
LEMMA WriteKeeps ==
    ASSUME TypeOK, MarkedCommitsAreTheRunsOwn, OwnPushesFastForward,
           NEW r \in Repos, NEW c \in Commits, Clean(c), Write(r, c), UNCHANGED remote
    PROVE  MarkedCommitsAreTheRunsOwn' /\ OwnPushesFastForward'
<1>1. /\ hist'[r] = Append(hist[r], c)
      /\ \A s \in Repos : s # r => hist'[s] = hist[s]
    BY WriteType
<1>2. /\ \A s \in Repos : hist[s] \in Seq(Commits) /\ remote[s] \in Seq(Commits)
      /\ remote' = remote
    BY DEF TypeOK
<1>3. ASSUME NEW s \in Repos, NEW i \in DOMAIN hist'[s]
      PROVE  Clean(hist'[s][i])
  <2>1. CASE s # r
      BY <1>1, <1>3, <2>1 DEF MarkedCommitsAreTheRunsOwn, Clean
  <2>2. CASE s = r
    <3>1. hist'[s][i] = c \/ (i \in DOMAIN hist[s] /\ hist'[s][i] = hist[s][i])
        BY <1>1, <1>2, <1>3, <2>2
    <3> QED
        BY <3>1 DEF MarkedCommitsAreTheRunsOwn, Clean
  <2> QED
      BY <2>1, <2>2
<1>4. ASSUME NEW s \in Repos
      PROVE  IsPrefix(remote[s], hist'[s])
    BY <1>1, <1>2, PrefixAppend DEF OwnPushesFastForward
<1> QED
    BY <1>2, <1>3, <1>4 DEF MarkedCommitsAreTheRunsOwn, OwnPushesFastForward, Clean

LEMMA OthersKeep ==
    ASSUME TreeInv, NEW q \in Queues,
           \A r \in Queues : r # q => /\ turn'[r] = turn[r] /\ begun'[r] = begun[r]
                                     /\ (holder = r => holder' = r),
           InTree(q) \/ (hist'[Workspace] = hist[Workspace] /\ remote'[Workspace] = remote[Workspace])
    PROVE  \A r \in Queues : r # q => Local(r)'
<1> SUFFICES ASSUME NEW r \in Queues, r # q PROVE Local(r)'
    OBVIOUS
<1>1. InTree(r) => ~InTree(q)
    BY DEF TreeInv, Local, Held
<1> QED
    BY <1>1, Undisturbed DEF TreeInv

LEMMA SameCommits ==
    ASSUME TreeInv, UNCHANGED <<hist, remote>>
    PROVE  MarkedCommitsAreTheRunsOwn' /\ OwnPushesFastForward'
    BY DEF TreeInv, MarkedCommitsAreTheRunsOwn, OwnPushesFastForward

\* A turn in the tree goes on: what is asked of it in its next place.
LEMMA Onward ==
    ASSUME NEW q \in Queues, Local(q), InTree(q),
           turn'[q].act = turn[q].act, UNCHANGED holder,
           turn'[q].pc \in {"gate", "deliver", "apply", "price", "finish", "publish"},
           turn'[q].pc \in {"gate", "deliver", "apply"} => turn[q].act = "item",
           turn'[q].pc = "deliver" => hist'[Workspace] = turn'[q].certified,
           turn'[q].pc \in {"gate", "deliver"} =>
               /\ turn[q].pc \in {"agent", "gate"} /\ turn'[q].before = turn[q].before
               /\ hist'[Workspace] = hist[Workspace] /\ remote'[Workspace] = remote[Workspace]
               /\ begun'[q] = begun[q]
    PROVE  Local(q)'
<1>1. turn[q].act # "nothing"
    BY DEF InTree
<1>2. Shape(q)' /\ Held(q)' /\ Saw(q)'
    BY <1>1 DEF Local, Shape, Held, Saw, InTree, At
<1>3. Began(q)'
    BY DEF Local, Began, Run
<1> QED
    BY <1>2, <1>3 DEF Local

LEMMA Left ==
    ASSUME NEW q \in Queues, turn'[q].act = "nothing", turn'[q].pc = "idle"
    PROVE  Local(q)'
    BY DEF Local, Shape, Held, Saw, Began, InTree, At

\* A HEAD that moved since the turn read it is a commit of the turn's own run.
LEMMA HeadIsTheRuns ==
    ASSUME TreeInv, NEW q \in Queues, At(q, "deliver"), hist[Workspace] \notin {<<>>, turn[q].before}
    PROVE  /\ Len(turn[q].before) < Len(hist[Workspace])
           /\ hist[Workspace][Top(Workspace)].by = Run(q)
<1> DEFINE h == hist[Workspace]
           b == turn[q].before
<1>1. h \in Seq(Commits) /\ b \in Seq(Commits)
    BY DEF TreeInv, TypeOK, Turns, Repos
<1>2. /\ IsPrefix(b, h)
      /\ \A i \in 1 .. Len(h) : i > Len(b) => h[i].by = Run(q)
    BY DEF TreeInv, Local, Shape, Began, At
<1>3. Len(b) <= Len(h) /\ \A i \in 1 .. Len(b) : b[i] = h[i]
    BY <1>1, <1>2, PrefixDef
<1>4. h # b
    OBVIOUS
<1> HIDE DEF h, b
<1>5. Len(b) < Len(h)
    BY <1>1, <1>3, <1>4
<1>6. h[Len(h)].by = Run(q)
    BY <1>1, <1>2, <1>5
<1> QED
    BY <1>5, <1>6 DEF h, b, Top

LEMMA TreeStep ==
    ASSUME ~SameTree, TreeInv, [Next]_vars
    PROVE  TreeInv'
<1> USE DeliveryAssumption
<1>0. TypeOK /\ TypeOK'
    BY TypeStep DEF TreeInv
<1>1. CASE UNCHANGED vars
  <2>1. ASSUME NEW r \in Queues PROVE Local(r)'
      BY <1>0, <1>1, Undisturbed DEF vars, TreeInv
  <2> QED
      BY <1>0, <1>1, <2>1, SameCommits DEF vars, TreeInv
<1>2. ASSUME NEW q \in Queues, NEW act \in Acts, Open(q, act)
      PROVE  TreeInv'
  <2>1. \A r \in Queues : r # q => Local(r)'
      BY <1>2, <1>0, OthersKeep DEF Open, Write, RepoOf, TypeOK, Repos
  <2>2. Local(q)'
      BY <1>2, <1>0 DEF Open, TypeOK, NoTurn, Acts, Local, Shape, Held, Saw, Began, InTree, At
  <2>3. MarkedCommitsAreTheRunsOwn' /\ OwnPushesFastForward'
    <3>1. Run(q)' \in Runs
        BY <1>0 DEF TypeOK, Run, Runs
    <3>2. Plain("opened", Run(q)', {Run(q)'}) \in Commits /\ Clean(Plain("opened", Run(q)', {Run(q)'}))
        BY <3>1, PlainType DEF Kinds, Clean
    <3> QED
        BY <1>2, <3>2, RepoOfType, WriteKeeps DEF Open, TreeInv
  <2> QED
      BY <1>0, <2>1, <2>2, <2>3 DEF TreeInv
<1>3. ASSUME NEW q \in Queues, Lock(q)
      PROVE  TreeInv'
  <2>1. \A r \in Queues : r # q => Local(r)'
      BY <1>3, <1>0, OthersKeep DEF Lock, InTree, TypeOK, Goto
  <2>2. Local(q)'
    <3>1. /\ turn'[q].act = turn[q].act /\ turn[q].act # "nothing"
          /\ turn'[q].pc = IF turn[q].act = "item" THEN "head" ELSE "agent"
        BY <1>3, <1>0, SMTT(30) DEF Lock, Goto, TypeOK, TreeInv, Local, Shape, At
    <3>2. holder' = q
        BY <1>3 DEF Lock
    <3> QED
        BY <3>1, <3>2 DEF Local, Shape, Held, Saw, Began, At
  <2>3. MarkedCommitsAreTheRunsOwn' /\ OwnPushesFastForward'
      BY <1>3, SameCommits DEF Lock
  <2> QED
      BY <1>0, <2>1, <2>2, <2>3 DEF TreeInv
<1>4. ASSUME NEW q \in Queues, LockBusy(q)
      PROVE  TreeInv'
  <2>1. \A r \in Queues : r # q => Local(r)'
      BY <1>4, <1>0, OthersKeep DEF LockBusy, InTree, TypeOK, Exit
  <2>2. Local(q)'
      BY <1>4, <1>0 DEF LockBusy, TypeOK, TreeInv, Local, Shape, Held, Saw, Began, InTree, At, Exit, NoTurn
  <2>3. MarkedCommitsAreTheRunsOwn' /\ OwnPushesFastForward'
      BY <1>4, SameCommits DEF LockBusy
  <2> QED
      BY <1>0, <2>1, <2>2, <2>3 DEF TreeInv
<1>5. ASSUME NEW q \in Queues, ReadHead(q)
      PROVE  TreeInv'
  <2>1. \A r \in Queues : r # q => Local(r)'
      BY <1>5, <1>0, OthersKeep DEF ReadHead, InTree, TypeOK
  <2>2. Local(q)'
    <3>1. /\ turn'[q].act = turn[q].act /\ turn'[q].pc = "agent"
          /\ turn'[q].before = hist[Workspace] /\ hist' = hist /\ remote' = remote
        BY <1>5, <1>0 DEF ReadHead, TypeOK
    <3>2. turn[q].act = "item" /\ holder = q /\ holder' = q
        BY <1>5 DEF ReadHead, TreeInv, Local, Shape, Held, InTree, At
    <3>3. hist[Workspace] \in Seq(Commits)
        BY <1>0 DEF TypeOK, Repos
    <3>4. IsPrefix(hist[Workspace], hist[Workspace])
        BY <3>3, PrefixItself
    <3>5. IsPrefix(remote[Workspace], hist[Workspace])
        BY DEF TreeInv, OwnPushesFastForward, Repos
    <3>6. \A i \in 1 .. Len(hist[Workspace]) : ~(i > Len(hist[Workspace]))
        BY <3>3
    <3>7. Began(q)'
        BY <3>1, <3>4, <3>5, <3>6 DEF Began
    <3>8. Shape(q)' /\ Held(q)' /\ Saw(q)'
        BY <3>1, <3>2 DEF Shape, Held, Saw, At
    <3> QED
        BY <3>7, <3>8 DEF Local
  <2>3. MarkedCommitsAreTheRunsOwn' /\ OwnPushesFastForward'
      BY <1>5, SameCommits DEF ReadHead
  <2> QED
      BY <1>0, <2>1, <2>2, <2>3 DEF TreeInv
<1>6. ASSUME NEW q \in Queues, Work(q)
      PROVE  TreeInv'
  <2>1. \A r \in Queues : r # q => Local(r)'
      BY <1>6, <1>0, OthersKeep DEF Work, At, InTree, TreeInv, Local, Shape
  <2>2. Local(q)'
    <3> DEFINE h == hist[Workspace]
               c == Plain("work", Run(q), {})
    <3>1. turn' = turn /\ holder' = holder /\ remote' = remote /\ Run(q)' = Run(q) /\ At(q, "agent")
        BY <1>6 DEF Work, Run
    <3>2. /\ hist'[Workspace] = Append(h, c) /\ h \in Seq(Commits)
          /\ c \in Commits /\ c.by = Run(q)
      <4>1. Run(q) \in Runs
          BY <1>0 DEF TypeOK, Run, Runs
      <4> QED
          BY <1>6, <1>0, <4>1, PlainType, WriteType DEF Work, Kinds, Repos, TypeOK
    <3>3. turn[q].before \in Seq(Commits)
        BY <1>0 DEF TypeOK, Turns
    <3>4. Began(q)'
      <4>1. SUFFICES ASSUME turn[q].act = "item" PROVE Began(q)'
          BY <3>1 DEF Began
      <4>2. /\ IsPrefix(turn[q].before, h) /\ IsPrefix(remote[Workspace], turn[q].before)
            /\ \A i \in 1 .. Len(h) : i > Len(turn[q].before) => h[i].by = Run(q)
          BY <3>1, <4>1 DEF TreeInv, Local, Began, At
      <4>3. IsPrefix(turn[q].before, Append(h, c))
          BY <3>2, <3>3, <4>2, PrefixAppend
      <4> HIDE DEF h, c
      <4>4. \A i \in 1 .. Len(Append(h, c)) : i > Len(turn[q].before) => Append(h, c)[i].by = Run(q)
        <5>1. \A i \in 1 .. Len(Append(h, c)) :
                 (i \in 1 .. Len(h) /\ Append(h, c)[i] = h[i]) \/ Append(h, c)[i] = c
            BY <3>2
        <5> QED
            BY <3>2, <4>2, <5>1
      <4> QED
          BY <3>1, <3>2, <4>2, <4>3, <4>4 DEF Began
    <3>5. Shape(q)' /\ Held(q)' /\ Saw(q)'
        BY <3>1 DEF TreeInv, Local, Shape, Held, Saw, InTree, At
    <3> QED
        BY <3>4, <3>5 DEF Local
  <2>3. MarkedCommitsAreTheRunsOwn' /\ OwnPushesFastForward'
    <3>1. Run(q) \in Runs
        BY <1>0 DEF TypeOK, Run, Runs
    <3>2. Plain("work", Run(q), {}) \in Commits /\ Clean(Plain("work", Run(q), {}))
        BY <3>1, PlainType DEF Kinds, Clean
    <3> QED
        BY <1>6, <3>2, WriteKeeps DEF Work, TreeInv, Repos
  <2> QED
      BY <1>0, <2>1, <2>2, <2>3 DEF TreeInv
<1>7. ASSUME NEW q \in Queues, NEW ending \in Endings, AgentEnds(q, ending)
      PROVE  TreeInv'
  <2>1. \A r \in Queues : r # q => Local(r)'
      BY <1>7, <1>0, OthersKeep DEF AgentEnds, InTree, TypeOK
  <2>2. Local(q)'
    <3>1. /\ turn'[q].act = turn[q].act /\ turn'[q].before = turn[q].before
          /\ turn'[q].pc = IF ending = "done" THEN "gate" ELSE "price"
        BY <1>7, <1>0 DEF AgentEnds, TypeOK, At
    <3>2. InTree(q) /\ Local(q)
        BY <1>7 DEF AgentEnds, TreeInv, Local, Shape, InTree, At
    <3>3. /\ turn[q].pc = "agent" /\ (ending = "done" => turn[q].act = "item")
          /\ hist' = hist /\ remote' = remote /\ holder' = holder /\ begun' = begun
        BY <1>7 DEF AgentEnds, At
    <3>4. turn'[q].pc \in {"gate", "price"} /\ (turn'[q].pc = "gate" => turn[q].act = "item")
        BY <3>1, <3>3
    <3> QED
        BY <3>1, <3>2, <3>3, <3>4, Onward
  <2>3. MarkedCommitsAreTheRunsOwn' /\ OwnPushesFastForward'
      BY <1>7, SameCommits DEF AgentEnds
  <2> QED
      BY <1>0, <2>1, <2>2, <2>3 DEF TreeInv
<1>8. ASSUME NEW q \in Queues, GatePasses(q)
      PROVE  TreeInv'
  <2>1. \A r \in Queues : r # q => Local(r)'
      BY <1>8, <1>0, OthersKeep DEF GatePasses, InTree, TypeOK
  <2>2. Local(q)'
    <3>1. /\ turn'[q].act = turn[q].act /\ turn'[q].before = turn[q].before
          /\ turn'[q].pc = "deliver" /\ turn'[q].certified = hist[Workspace]
        BY <1>8, <1>0 DEF GatePasses, TypeOK, At
    <3>2. InTree(q) /\ Local(q)
        BY <1>8 DEF GatePasses, TreeInv, Local, Shape, InTree, At
    <3> QED
        BY <1>8, <3>1, <3>2, Onward DEF GatePasses, At, Local, Shape
  <2>3. MarkedCommitsAreTheRunsOwn' /\ OwnPushesFastForward'
      BY <1>8, SameCommits DEF GatePasses
  <2> QED
      BY <1>0, <2>1, <2>2, <2>3 DEF TreeInv
<1>9. ASSUME NEW q \in Queues, GateRejects(q)
      PROVE  TreeInv'
  <2>1. \A r \in Queues : r # q => Local(r)'
      BY <1>9, <1>0, OthersKeep DEF GateRejects, InTree, TypeOK
  <2>2. Local(q)'
    <3>1. /\ turn'[q].act = turn[q].act /\ turn'[q].before = turn[q].before
          /\ turn'[q].pc = "price"
        BY <1>9, <1>0 DEF GateRejects, TypeOK, At
    <3>2. InTree(q) /\ Local(q)
        BY <1>9 DEF GateRejects, TreeInv, Local, Shape, InTree, At
    <3> QED
        BY <1>9, <3>1, <3>2, Onward DEF GateRejects, At, Local, Shape
  <2>3. MarkedCommitsAreTheRunsOwn' /\ OwnPushesFastForward'
      BY <1>9, SameCommits DEF GateRejects
  <2> QED
      BY <1>0, <2>1, <2>2, <2>3 DEF TreeInv
<1>10. ASSUME NEW q \in Queues, Deliver(q)
       PROVE  TreeInv'
  <2>1. \A r \in Queues : r # q => Local(r)'
      BY <1>10, <1>0, OthersKeep DEF Deliver, At, InTree, TreeInv, Local, Shape, Goto, TypeOK
  <2>2. Local(q)'
    <3>1. turn[q].pc = "deliver" /\ turn[q].act = "item" /\ InTree(q) /\ Local(q)
        BY <1>10 DEF Deliver, TreeInv, Local, Shape, InTree, At
    <3>2. turn'[q].act = turn[q].act /\ turn'[q].pc = "apply" /\ holder' = holder
      <4>1. CASE turn' = [turn EXCEPT ![q].pc = "apply"]
          BY <1>10, <1>0, <4>1 DEF Deliver, TypeOK
      <4>2. CASE turn' = [turn EXCEPT ![q].names = Top(Workspace), ![q].pc = "apply"]
          BY <1>10, <1>0, <4>2 DEF Deliver, TypeOK
      <4> QED
          BY <1>10, <4>1, <4>2 DEF Deliver, Goto
    <3> QED
        BY <3>1, <3>2, Onward
  <2>3. MarkedCommitsAreTheRunsOwn' /\ OwnPushesFastForward'
    <3> DEFINE h == hist[Workspace]
               n == Top(Workspace)
               c == [h[n] EXCEPT !.marks = @ \cup {Run(q)}]
    <3>1. h \in Seq(Commits) /\ turn[q].before \in Seq(Commits) /\ remote[Workspace] \in Seq(Commits)
        BY <1>0 DEF TypeOK, Turns, Repos
    <3>2. CASE UNCHANGED <<hist, remote>>
        BY <3>2, SameCommits
    <3>3. CASE h # <<>> /\ h # turn[q].before
      <4>1. /\ n \in 1 .. Len(h) /\ h[n] \in Commits /\ c \in Commits
            /\ c.by = h[n].by /\ c.marks = h[n].marks \cup {Run(q)}
            /\ Amended(Run(q)) = [h EXCEPT ![Len(h)] = c] /\ n = Len(h)
          BY <1>0, <3>1, <3>3, AmendedType DEF Top
      <4>2. hist' = [hist EXCEPT ![Workspace] = Amended(Run(q))] /\ remote' = remote
          BY <1>10, <3>3 DEF Deliver
      <4>3. /\ IsPrefix(turn[q].before, h) /\ IsPrefix(remote[Workspace], turn[q].before)
            /\ \A i \in 1 .. Len(h) : i > Len(turn[q].before) => h[i].by = Run(q)
          BY <1>10 DEF Deliver, TreeInv, Local, Shape, Began, At
      <4>4. Len(turn[q].before) < Len(h) /\ h[n].by = Run(q)
          BY <1>10, <3>3, HeadIsTheRuns DEF Deliver
      <4>6. Clean(c)
          BY <4>1, <4>4 DEF TreeInv, MarkedCommitsAreTheRunsOwn, Clean, Repos
      <4>7. IsPrefix(remote[Workspace], h) /\ remote[Workspace] # h
        <5>1. /\ Len(remote[Workspace]) <= Len(turn[q].before)
            BY <3>1, <4>3, PrefixDef
        <5> QED
            BY <3>1, <4>4, <5>1 DEF TreeInv, OwnPushesFastForward, Repos
      <4> HIDE DEF h, n, c
      <4>8. /\ hist'[Workspace] = [h EXCEPT ![Len(h)] = c]
            /\ \A r \in Repos : r # Workspace => hist'[r] = hist[r]
          BY <1>0, <4>1, <4>2 DEF TypeOK, Repos
      <4>9. /\ IsPrefix(remote[Workspace], hist'[Workspace])
            /\ \A i \in DOMAIN hist'[Workspace] : i \in DOMAIN h /\ (hist'[Workspace][i] = h[i] \/ hist'[Workspace][i] = c)
        <5> DEFINE u == [h EXCEPT ![Len(h)] = c]
        <5>1. /\ u \in Seq(Commits) /\ Len(u) = Len(h) /\ u[Len(h)] = c
              /\ \A i \in 1 .. Len(h) : i # Len(h) => u[i] = h[i]
              /\ \A s \in Seq(Commits) : IsPrefix(s, h) /\ s # h => IsPrefix(s, u)
            BY <3>1, <3>3, <4>1, AmendTop
        <5> HIDE DEF u
        <5>2. DOMAIN u = 1 .. Len(h) /\ DOMAIN h = 1 .. Len(h)
            BY <3>1, <5>1
        <5>3. hist'[Workspace] = u
            BY <4>8 DEF u
        <5> QED
            BY <3>1, <4>7, <5>1, <5>2, <5>3
      <4>10. MarkedCommitsAreTheRunsOwn'
          BY <4>6, <4>8, <4>9 DEF TreeInv, MarkedCommitsAreTheRunsOwn, Clean, h, Repos
      <4>11. OwnPushesFastForward'
          BY <4>2, <4>8, <4>9 DEF TreeInv, OwnPushesFastForward, Repos
      <4> QED
          BY <4>10, <4>11
    <3> QED
        BY <1>10, <3>2, <3>3 DEF Deliver
  <2> QED
      BY <1>0, <2>1, <2>2, <2>3 DEF TreeInv
<1>11. ASSUME NEW q \in Queues, Applied(q)
       PROVE  TreeInv'
  <2>1. \A r \in Queues : r # q => Local(r)'
      BY <1>11, <1>0, OthersKeep DEF Applied, InTree, TypeOK
  <2>2. Local(q)'
    <3>1. /\ turn'[q].act = turn[q].act /\ turn'[q].before = turn[q].before
          /\ turn'[q].pc = "price"
        BY <1>11, <1>0 DEF Applied, TypeOK, At
    <3>2. InTree(q) /\ Local(q)
        BY <1>11 DEF Applied, TreeInv, Local, Shape, InTree, At
    <3> QED
        BY <1>11, <3>1, <3>2, Onward DEF Applied, At, Local, Shape
  <2>3. MarkedCommitsAreTheRunsOwn' /\ OwnPushesFastForward'
      BY <1>11, SameCommits DEF Applied
  <2> QED
      BY <1>0, <2>1, <2>2, <2>3 DEF TreeInv
<1>12. ASSUME NEW q \in Queues, Refused(q)
       PROVE  TreeInv'
  <2>1. \A r \in Queues : r # q => Local(r)'
      BY <1>12, <1>0, OthersKeep DEF Refused, InTree, TypeOK
  <2>2. Local(q)'
    <3>1. /\ turn'[q].act = turn[q].act /\ turn'[q].before = turn[q].before
          /\ turn'[q].pc = "price"
        BY <1>12, <1>0 DEF Refused, TypeOK, At
    <3>2. InTree(q) /\ Local(q)
        BY <1>12 DEF Refused, TreeInv, Local, Shape, InTree, At
    <3> QED
        BY <1>12, <3>1, <3>2, Onward DEF Refused, At, Local, Shape
  <2>3. MarkedCommitsAreTheRunsOwn' /\ OwnPushesFastForward'
      BY <1>12, SameCommits DEF Refused
  <2> QED
      BY <1>0, <2>1, <2>2, <2>3 DEF TreeInv
<1>13. ASSUME NEW q \in Queues, NEW written \in BOOLEAN, Price(q, written)
       PROVE  TreeInv'
  <2>1. \A r \in Queues : r # q => Local(r)'
      BY <1>13, <1>0, OthersKeep DEF Price, InTree, TypeOK
  <2>2. Local(q)'
    <3>1. /\ turn'[q].act = turn[q].act /\ turn'[q].before = turn[q].before
          /\ turn'[q].pc = "finish"
        BY <1>13, <1>0 DEF Price, TypeOK, At
    <3>2. InTree(q) /\ Local(q)
        BY <1>13 DEF Price, TreeInv, Local, Shape, InTree, At
    <3> QED
        BY <1>13, <3>1, <3>2, Onward DEF Price, At, Local, Shape
  <2>3. MarkedCommitsAreTheRunsOwn' /\ OwnPushesFastForward'
      BY <1>13, SameCommits DEF Price
  <2> QED
      BY <1>0, <2>1, <2>2, <2>3 DEF TreeInv
<1>14. ASSUME NEW q \in Queues, Finish(q)
       PROVE  TreeInv'
  <2>1. \A r \in Queues : r # q => Local(r)'
      BY <1>14, <1>0, OthersKeep DEF Finish, EndTurn, Exit, Goto, Write, RepoOf, TypeOK, Repos
  <2>2. Local(q)'
    <3>1. CASE Exit(q)
        BY <1>0, <3>1, Left DEF Exit, NoTurn, TypeOK
    <3>2. CASE Goto(q, "publish") /\ UNCHANGED holder /\ turn[q].outcome = "advanced"
      <4>1. turn'[q].act = turn[q].act /\ turn'[q].pc = "publish"
          BY <1>0, <3>2 DEF Goto, TypeOK
      <4>2. InTree(q) /\ Local(q)
          BY <1>14, <3>2 DEF Finish, TreeInv, Local, Shape, InTree, At
      <4> QED
          BY <3>2, <4>1, <4>2, Onward
    <3> QED
        BY <1>14, <3>1, <3>2 DEF Finish, EndTurn
  <2>3. MarkedCommitsAreTheRunsOwn' /\ OwnPushesFastForward'
    <3>1. Record(q, unsaved[q]) \in Commits /\ Clean(Record(q, unsaved[q]))
        BY <1>0, RecordType DEF TypeOK, Clean
    <3> QED
        BY <1>14, <3>1, RepoOfType, WriteKeeps DEF Finish, TreeInv
  <2> QED
      BY <1>0, <2>1, <2>2, <2>3 DEF TreeInv
<1>15. ASSUME NEW q \in Queues, Publish(q)
       PROVE  TreeInv'
  <2>1. \A r \in Queues : r # q => Local(r)'
    <3>1. InTree(q)
        BY <1>15 DEF Publish, TreeInv, Local, Shape, InTree, At
    <3>2. \A r \in Queues : r # q => turn'[r] = turn[r] /\ (holder = r => holder' = r)
        BY <1>15, <1>0 DEF Publish, Exit, TypeOK
    <3> QED
        BY <1>15, <3>1, <3>2, OthersKeep DEF Publish
  <2>2. Local(q)'
    <3>1. CASE Exit(q)
        BY <1>0, <3>1, Left DEF Exit, NoTurn, TypeOK
    <3>2. CASE turn' = [turn EXCEPT ![q].asked = @ + 1] /\ UNCHANGED holder
      <4>1. turn'[q].act = turn[q].act /\ turn'[q].pc = "publish"
          BY <1>15, <1>0, <3>2 DEF Publish, TypeOK, At
      <4>2. InTree(q) /\ Local(q)
          BY <1>15 DEF Publish, TreeInv, Local, Shape, InTree, At
      <4> QED
          BY <3>2, <4>1, <4>2, Onward
    <3> QED
        BY <1>15, <3>1, <3>2 DEF Publish
  <2>3. MarkedCommitsAreTheRunsOwn' /\ OwnPushesFastForward'
    <3>1. hist' = hist
        BY <1>15 DEF Publish
    <3>2. ASSUME NEW r \in Repos PROVE IsPrefix(remote'[r], hist[r])
      <4>1. hist[r] \in Seq(Commits) /\ IsPrefix(hist[r], hist[r])
          BY <1>0, PrefixItself DEF TypeOK
      <4>2. remote'[r] \in {remote[r], hist[r]}
          BY <1>15, <1>0 DEF Publish, Push, TypeOK
      <4> QED
          BY <4>1, <4>2 DEF TreeInv, OwnPushesFastForward
    <3> QED
        BY <3>1, <3>2 DEF TreeInv, MarkedCommitsAreTheRunsOwn, OwnPushesFastForward
  <2> QED
      BY <1>0, <2>1, <2>2, <2>3 DEF TreeInv
<1>16. ASSUME NEW q \in Queues, Other(q)
       PROVE  TreeInv'
  <2>1. \A r \in Queues : r # q => Local(r)'
      BY <1>16, <1>0, OthersKeep DEF Other, Write, RepoOf, TypeOK, Repos
  <2>2. Local(q)'
      BY <1>16, <1>0, Undisturbed DEF Other, Write, RepoOf, TypeOK, Repos, TreeInv
  <2>3. MarkedCommitsAreTheRunsOwn' /\ OwnPushesFastForward'
    <3>1. Plain("other", NoRun, {}) \in Commits /\ Clean(Plain("other", NoRun, {}))
        BY PlainType DEF Kinds, Clean
    <3> QED
        BY <1>16, <3>1, RepoOfType, WriteKeeps DEF Other, TreeInv
  <2> QED
      BY <1>0, <2>1, <2>2, <2>3 DEF TreeInv
<1>17. ASSUME NEW q \in Queues, Crash(q)
       PROVE  TreeInv'
  <2>1. \A r \in Queues : r # q => Local(r)'
      BY <1>17, <1>0, OthersKeep DEF Crash, Exit, TypeOK
  <2>2. Local(q)'
      BY <1>17, <1>0 DEF Crash, Exit, NoTurn, TypeOK, TreeInv, Local, Shape, Held, Saw, Began, InTree, At
  <2>3. MarkedCommitsAreTheRunsOwn' /\ OwnPushesFastForward'
      BY <1>17, SameCommits DEF Crash
  <2> QED
      BY <1>0, <2>1, <2>2, <2>3 DEF TreeInv
<1> QED
    BY <1>1, <1>2, <1>3, <1>4, <1>5, <1>6, <1>7, <1>8, <1>9, <1>10, <1>11, <1>12, <1>13, <1>14, <1>15, <1>16, <1>17 DEF Next

LEMMA InitTree == Init => TreeInv
<1> SUFFICES ASSUME Init PROVE TreeInv
    OBVIOUS
<1>1. \A q \in Queues : Local(q)
    BY DEF Init, NoTurn, Local, Shape, Held, Saw, Began, InTree, At
<1>2. MarkedCommitsAreTheRunsOwn
    BY DEF Init, MarkedCommitsAreTheRunsOwn
<1>3. OwnPushesFastForward
  <2>1. <<>> \in Seq(Commits)
      OBVIOUS
  <2>2. IsPrefix(<<>>, <<>>)
      BY <2>1, PrefixItself
  <2> QED
      BY <2>2 DEF Init, OwnPushesFastForward
<1> QED
    BY <1>1, <1>2, <1>3, InitTyped DEF TreeInv

\* Of two turns, one is in the workspace: the inductive invariant holds whatever the
\* queues, the bounds and what is published (_workspace_lock, _deliver_workspace).
THEOREM TreeInvariant == ASSUME ~SameTree PROVE Spec => []TreeInv
<1>1. TreeInv /\ [Next]_vars => TreeInv'
    BY TreeStep
<1> QED
    BY InitTree, <1>1, PTL DEF Spec

\* However many queues dispatch turns to one workspace, one turn is in it at a
\* time (_workspace_lock).
THEOREM TurnsSerialize == ASSUME ~SameTree PROVE Spec => []OneAgentPerTree
<1>1. TreeInv => OneAgentPerTree
    BY DEF TreeInv, Local, Held, OneAgentPerTree
<1> QED
    BY TreeInvariant, <1>1, PTL

\* The commit that is amended is the one the gate certified (_deliver_workspace).
THEOREM TheGateSawTheMarkedCommit ==
    ASSUME ~SameTree PROVE Spec => []TheMarkIsOnWhatTheGateSaw
<1>1. TreeInv => TheMarkIsOnWhatTheGateSaw
    BY DEF TreeInv, Local, Saw, TheMarkIsOnWhatTheGateSaw
<1> QED
    BY TreeInvariant, <1>1, PTL

\* No commit ever carries the trailer of a run that did not make it
\* (_deliver_workspace: head_before, read under the lock).
THEOREM MarksAreTheRunsOwn ==
    ASSUME ~SameTree PROVE Spec => []MarkedCommitsAreTheRunsOwn
<1>1. TreeInv => MarkedCommitsAreTheRunsOwn
    BY DEF TreeInv
<1> QED
    BY TreeInvariant, <1>1, PTL

\* An amendment never rewrites what was pushed, so no push of the platform's own is
\* refused as a non-fast-forward (push_repo).
THEOREM AmendmentsStayPrivate ==
    ASSUME ~SameTree PROVE Spec => []OwnPushesFastForward
<1>1. TreeInv => OwnPushesFastForward
    BY DEF TreeInv
<1> QED
    BY TreeInvariant, <1>1, PTL

-----------------------------------------------------------------------------
(***************************************************************************)
(* What the queues' histories record.  A step of a turn adds its record to *)
(* its own queue, at its end; whatever else anybody does there, be it to   *)
(* amend a commit of the same tree, leaves the records as they are.        *)
(***************************************************************************)

Recorded(q) == RecordsOf(hist[RepoOf(q)])
Entry(q, i) == hist[RepoOf(q)][i]

SameEntry(c, d) == d.by = c.by /\ d.rows = c.rows /\ d.names = c.names /\ d.priced = c.priced

SameRecords(q) == /\ Recorded(q)' = Recorded(q)
                  /\ \A i \in Recorded(q) : SameEntry(Entry(q, i), Entry(q, i)')

LEMMA RepoOfOther ==
    ASSUME NEW q \in Queues, NEW r \in Queues, r # q
    PROVE  RepoOf(r) # RepoOf(q) /\ RepoOf(q) # Workspace
    BY DeliveryAssumption DEF RepoOf

\* A repository that is left alone, or gets a commit that is no record, or whose
\* latest commit is amended, has the records it had.
LEMMA SameHistory ==
    ASSUME NEW q \in Queues, hist'[RepoOf(q)] = hist[RepoOf(q)]
    PROVE  SameRecords(q)
    BY DEF SameRecords, Recorded, Entry, SameEntry, RecordsOf

LEMMA WriteKeepsRecords ==
    ASSUME TypeOK, NEW q \in Queues, NEW s \in Repos, NEW c \in Commits, Write(s, c),
           s = RepoOf(q) => c.kind # "record"
    PROVE  SameRecords(q)
<1>1. CASE s # RepoOf(q)
    BY <1>1, WriteType, RepoOfType, SameHistory
<1>2. CASE s = RepoOf(q)
  <2> DEFINE h == hist[RepoOf(q)]
             g == hist'[RepoOf(q)]
  <2>1. h \in Seq(Commits) /\ g = Append(h, c) /\ c.kind # "record"
      BY <1>2, WriteType, RepoOfType DEF TypeOK
  <2> HIDE DEF h, g
  <2>2. /\ DOMAIN g = 1 .. Len(h) + 1 /\ DOMAIN h = 1 .. Len(h) /\ Len(h) \in Nat
        /\ \A i \in 1 .. Len(h) : g[i] = h[i]
        /\ g[Len(h) + 1] = c
      BY <2>1
  <2>3. RecordsOf(g) = RecordsOf(h) /\ \A i \in RecordsOf(h) : g[i] = h[i]
      BY <2>1, <2>2 DEF RecordsOf
  <2> QED
      BY <2>3 DEF SameRecords, SameEntry, Recorded, Entry, h, g
<1> QED
    BY <1>1, <1>2

LEMMA DeliverKeepsRecords ==
    ASSUME TypeOK, NEW q \in Queues, NEW r \in Queues, Deliver(r)
    PROVE  SameRecords(q)
<1>1. CASE hist' = hist
    BY <1>1, SameHistory
<1>2. CASE /\ hist[Workspace] # <<>>
           /\ hist' = [hist EXCEPT ![Workspace] = Amended(Run(r))]
  <2> DEFINE h == hist[Workspace]
             n == Top(Workspace)
             c == [h[n] EXCEPT !.marks = @ \cup {Run(r)}]
             g == [h EXCEPT ![Len(h)] = c]
  <2>1. /\ h \in Seq(Commits) /\ h # <<>> /\ n = Len(h) /\ n \in 1 .. Len(h)
        /\ h[n] \in Commits /\ c \in Commits /\ Amended(Run(r)) = g
      BY <1>2, AmendedType DEF TypeOK, Repos, Top
  <2>2. /\ c.kind = h[n].kind /\ SameEntry(h[n], c)
      BY <2>1 DEF Commits, SameEntry
  <2>3. /\ g \in Seq(Commits) /\ Len(g) = Len(h) /\ g[n] = c
        /\ \A i \in 1 .. Len(h) : i # n => g[i] = h[i]
      <3> HIDE DEF c
      <3> QED
          BY <2>1, AmendTop
  <2>4. /\ \A s \in Repos : s # Workspace => hist'[s] = hist[s]
        /\ hist'[Workspace] = g
      BY <1>2, <2>1 DEF TypeOK, Repos
  <2> HIDE DEF h, n, c, g
  <2>5. \A i \in DOMAIN h : g[i].kind = h[i].kind /\ SameEntry(h[i], g[i])
      BY <2>1, <2>2, <2>3 DEF SameEntry
  <2>6. DOMAIN g = DOMAIN h
      BY <2>1, <2>3
  <2>7. RecordsOf(g) = RecordsOf(h) /\ \A i \in RecordsOf(h) : SameEntry(h[i], g[i])
      BY <2>5, <2>6 DEF RecordsOf
  <2>8. CASE RepoOf(q) = Workspace
      BY <2>4, <2>7, <2>8 DEF SameRecords, Recorded, Entry, h
  <2>9. CASE RepoOf(q) # Workspace
      BY <2>4, <2>9, RepoOfType, SameHistory
  <2> QED
      BY <2>8, <2>9
<1> QED
    BY <1>1, <1>2 DEF Deliver

LEMMA RecordsStand ==
    ASSUME TypeOK, [Next]_vars, NEW q \in Queues, ~Finish(q)
    PROVE  SameRecords(q)
<1> USE DeliveryAssumption
<1>1. ASSUME NEW r \in Queues, NEW act \in Acts, Open(r, act) PROVE SameRecords(q)
  <2>1. Run(r)' \in Runs
      BY <1>1, TypeStep DEF TypeOK, Run, Runs
  <2>2. Plain("opened", Run(r)', {Run(r)'}) \in Commits
      BY <2>1, PlainType DEF Kinds
  <2> QED
      BY <1>1, <2>2, WriteKeepsRecords, RepoOfType DEF Open, Plain
<1>2. ASSUME NEW r \in Queues, Work(r) PROVE SameRecords(q)
  <2>1. Run(r) \in Runs
      BY DEF TypeOK, Run, Runs
  <2>2. Plain("work", Run(r), {}) \in Commits
      BY <2>1, PlainType DEF Kinds
  <2> QED
      BY <1>2, <2>2, WriteKeepsRecords DEF Work, Plain, Repos
<1>3. ASSUME NEW r \in Queues, Finish(r) PROVE SameRecords(q)
  <2>1. r # q
      BY <1>3
  <2>2. Record(r, unsaved[r]) \in Commits
      BY RecordType DEF TypeOK
  <2> QED
      BY <1>3, <2>1, <2>2, RepoOfOther, RepoOfType, WriteKeepsRecords DEF Finish
<1>4. ASSUME NEW r \in Queues, Other(r) PROVE SameRecords(q)
  <2>1. Plain("other", NoRun, {}) \in Commits
      BY PlainType DEF Kinds
  <2> QED
      BY <1>4, <2>1, WriteKeepsRecords, RepoOfType DEF Other, Plain
<1>5. CASE hist' = hist
    BY <1>5, SameHistory
<1> QED
    BY <1>1, <1>2, <1>3, <1>4, <1>5, DeliverKeepsRecords
    DEF Next, Lock, LockBusy, ReadHead, AgentEnds, GatePasses, GateRejects, Applied, Refused, Price,
        Publish, Crash, vars

\* The last commit of a turn adds one record, with the rows that no commit has yet.
LEMMA FinishAdds ==
    ASSUME TypeOK, NEW q \in Queues, Finish(q)
    PROVE  \E n \in Nat :
              /\ n \notin Recorded(q) /\ Recorded(q)' = Recorded(q) \cup {n}
              /\ \A i \in Recorded(q) : SameEntry(Entry(q, i), Entry(q, i)')
              /\ Entry(q, n)'.by = Run(q) /\ Entry(q, n)'.rows = unsaved[q]
              /\ Entry(q, n)'.names = turn[q].names /\ Entry(q, n)'.priced = turn[q].priced
<1> DEFINE h == hist[RepoOf(q)]
           g == hist'[RepoOf(q)]
           c == Record(q, unsaved[q])
<1>1. c \in Commits
    BY RecordType DEF TypeOK
<1>2. /\ c.kind = "record" /\ c.by = Run(q) /\ c.rows = unsaved[q]
      /\ c.names = turn[q].names /\ c.priced = turn[q].priced
    BY DEF Record, Plain
<1>3. h \in Seq(Commits) /\ g = Append(h, c)
    BY <1>1, WriteType, RepoOfType DEF TypeOK, Finish
<1> HIDE DEF c, h, g
<1>4. PICK n \in Nat :
         /\ DOMAIN g = (1 .. Len(h)) \cup {n} /\ DOMAIN h = 1 .. Len(h)
         /\ \A i \in 1 .. Len(h) : g[i] = h[i] /\ i # n
         /\ g[n] = c
  <2>1. /\ Len(h) + 1 \in Nat
        /\ DOMAIN g = (1 .. Len(h)) \cup {Len(h) + 1} /\ DOMAIN h = 1 .. Len(h)
        /\ \A i \in 1 .. Len(h) : g[i] = h[i] /\ i # Len(h) + 1
        /\ g[Len(h) + 1] = c
      BY <1>1, <1>3
  <2> QED
      BY <2>1
<1>5. /\ n \notin RecordsOf(h) /\ RecordsOf(g) = RecordsOf(h) \cup {n}
      /\ \A i \in RecordsOf(h) : g[i] = h[i]
    BY <1>2, <1>4 DEF RecordsOf
<1>6. /\ n \notin Recorded(q) /\ Recorded(q)' = Recorded(q) \cup {n}
      /\ \A i \in Recorded(q) : SameEntry(Entry(q, i), Entry(q, i)')
    BY <1>5 DEF Recorded, Entry, SameEntry, h, g
<1>7. Entry(q, n)' = c
    BY <1>4 DEF Entry, g
<1> QED
    BY <1>2, <1>4, <1>6, <1>7

-----------------------------------------------------------------------------
(***************************************************************************)
(* The ledger.                                                             *)
(***************************************************************************)

Own(q) == {<<q, n>> : n \in 0 .. begun[q]}

\* From the first commit of a turn to the last.
Underway(q) == turn[q].pc \notin {"idle", "publish"}

\* Each run has one record at most, each row is in one record at most, and the
\* run under way has neither yet.
Records(q) ==
    /\ \A i \in Recorded(q) :
          LET c == Entry(q, i) IN
          /\ c.by \in Own(q) /\ c.rows \subseteq Own(q)
          /\ c.priced => c.by \in c.rows
          /\ c.rows \cap unsaved[q] = {}
          /\ Underway(q) => c.by # Run(q) /\ Run(q) \notin c.rows
          /\ crashes = 0 => c.rows \subseteq {c.by}
    /\ \A i, j \in Recorded(q) :
          i # j => /\ Entry(q, i).by # Entry(q, j).by
                   /\ Entry(q, i).rows \cap Entry(q, j).rows = {}

\* A row waits for the last commit of its own turn, unless a turn was killed.
Rows(q) ==
    /\ unsaved[q] \subseteq Own(q)
    /\ At(q, "finish") /\ turn[q].priced => Run(q) \in unsaved[q]
    /\ crashes = 0 => unsaved[q] \subseteq IF At(q, "finish") THEN {Run(q)} ELSE {}

\* A run whose agent was started is under way or recorded, unless one was killed.
Started(q) ==
    /\ \A run \in spent : run[1] = q => run \in Own(q)
    /\ turn[q].pc \in {"lock", "head"} => Run(q) \notin spent
    /\ crashes = 0 => \A run \in spent : run[1] = q =>
          \/ run = Run(q) /\ Underway(q)
          \/ \E i \in Recorded(q) : Entry(q, i).by = run

Ledger(q) == Records(q) /\ Rows(q) /\ Started(q)

\* The steps that neither begin a turn, nor write a row, nor record one.
Calm(q) ==
    /\ begun'[q] = begun[q] /\ unsaved'[q] = unsaved[q]
    /\ \A run \in spent' : run[1] = q =>
          run \in spent \/ (run = Run(q) /\ turn'[q].pc \notin {"idle", "publish", "lock", "head"})
    /\ At(q, "finish")' => At(q, "finish") /\ turn'[q].priced = turn[q].priced
    /\ Underway(q)' => Underway(q)
    /\ turn'[q].pc \in {"lock", "head"} => turn[q].pc \in {"lock", "head"}
    /\ crashes' = 0 => /\ crashes = 0
                       /\ At(q, "finish") => At(q, "finish")'
                       /\ ~Underway(q)' => ~Underway(q) \/ At(q, "lock")

LEMMA CalmKeeps ==
    ASSUME TypeOK, NEW q \in Queues, Ledger(q), SameRecords(q), Calm(q)
    PROVE  Ledger(q)'
<1>1. Own(q)' = Own(q) /\ Run(q)' = Run(q) /\ unsaved'[q] = unsaved[q] /\ Run(q) \in Own(q)
  <2>1. begun[q] \in 0 .. begun[q]
      BY DEF TypeOK
  <2> QED
      BY <2>1 DEF Calm, Own, Run
<1>2. /\ Recorded(q)' = Recorded(q)
      /\ \A i \in Recorded(q) : /\ Entry(q, i)'.by = Entry(q, i).by
                                /\ Entry(q, i)'.rows = Entry(q, i).rows
                                /\ Entry(q, i)'.priced = Entry(q, i).priced
    BY DEF SameRecords, SameEntry
<1>3. Records(q)'
  <2>1. (Underway(q)' => Underway(q)) /\ (crashes' = 0 => crashes = 0)
      BY DEF Calm
  <2> QED
      BY <1>1, <1>2, <2>1 DEF Ledger, Records
<1>4. Rows(q)'
    BY <1>1 DEF Ledger, Rows, Calm
<1>5. Started(q)'
  <2>1. \A run \in spent' : run[1] = q => run \in Own(q)'
      BY <1>1 DEF Ledger, Started, Calm
  <2>2. turn'[q].pc \in {"lock", "head"} => Run(q)' \notin spent'
      BY <1>1 DEF Ledger, Started, Calm, Run
  <2>3. ASSUME crashes' = 0, NEW run \in spent', run[1] = q
        PROVE  \/ run = Run(q) /\ Underway(q)'
               \/ \E i \in Recorded(q) : Entry(q, i).by = run
    <3>1. CASE run \notin spent
        BY <2>3, <3>1 DEF Calm, Underway
    <3>2. CASE run \in spent /\ ~Underway(q)' /\ run = Run(q)
      <4>1. crashes = 0 /\ (~Underway(q) \/ turn[q].pc = "lock")
          BY <2>3, <3>2 DEF Calm, At
      <4>2. turn[q].pc # "lock"
          BY <3>2 DEF Ledger, Started
      <4> QED
          BY <2>3, <3>2, <4>1, <4>2 DEF Ledger, Started
    <3>3. CASE run \in spent /\ (Underway(q)' \/ run # Run(q))
        BY <2>3, <3>3 DEF Calm, Ledger, Started
    <3> QED
        BY <3>1, <3>2, <3>3
  <2>4. crashes' = 0 => \A run \in spent' : run[1] = q =>
            \/ run = Run(q)' /\ Underway(q)'
            \/ \E i \in Recorded(q)' : Entry(q, i)'.by = run
      BY <1>1, <1>2, <2>3
  <2> QED
      BY <2>1, <2>2, <2>4 DEF Started
<1> QED
    BY <1>3, <1>4, <1>5 DEF Ledger

\* A step of another queue's turn does not touch this one's.
LEMMA TurnOfOther ==
    ASSUME TypeOK, NEW q \in Queues, NEW r \in Queues, r # q,
             \/ \E act \in Acts : Open(r, act)
             \/ Lock(r) \/ LockBusy(r) \/ ReadHead(r)
             \/ Work(r) \/ \E ending \in Endings : AgentEnds(r, ending)
             \/ GatePasses(r) \/ GateRejects(r) \/ Deliver(r) \/ Applied(r) \/ Refused(r)
             \/ \E written \in BOOLEAN : Price(r, written)
             \/ Finish(r) \/ Publish(r)
             \/ Other(r) \/ Crash(r)
    PROVE  turn'[q] = turn[q] /\ begun'[q] = begun[q] /\ unsaved'[q] = unsaved[q]
    BY DEF TypeOK, Open, Lock, LockBusy, ReadHead, Work, AgentEnds, GatePasses, GateRejects, Deliver,
           Applied, Refused, Price, Finish, EndTurn, Publish, Other, Crash, Goto, Exit

LEMMA CrashesStand ==
    ASSUME TypeOK, [Next]_vars, crashes' = 0
    PROVE  crashes = 0
<1>1. crashes' = crashes \/ crashes' = crashes + 1
    BY DEF Next, Open, Lock, LockBusy, ReadHead, Work, AgentEnds, GatePasses, GateRejects, Deliver,
           Applied, Refused, Price, Finish, Publish, Other, Crash, vars
<1> QED
    BY <1>1 DEF TypeOK

\* The other queues' turns are calm towards this one.
LEMMA OthersAreCalm ==
    ASSUME TypeOK, NEW q \in Queues, NEW r \in Queues, r # q,
           turn'[q] = turn[q], begun'[q] = begun[q], unsaved'[q] = unsaved[q],
           spent' \subseteq spent \cup {Run(r)}, crashes' = 0 => crashes = 0
    PROVE  Calm(q)
<1>1. Run(r)[1] # q
    BY DEF Run
<1> QED
    BY <1>1 DEF Calm, At, Underway

LEMMA MostStepsAreCalm ==
    ASSUME TypeOK, [Next]_vars, NEW q \in Queues, ~Finish(q),
           \A act \in Acts : ~Open(q, act),
           \A written \in BOOLEAN : ~Price(q, written)
    PROVE  Calm(q)
<1>1. CASE UNCHANGED vars
    BY <1>1 DEF vars, Calm, At, Underway
<1>2. ASSUME NEW r \in Queues, r # q,
             \/ \E act \in Acts : Open(r, act)
             \/ Lock(r) \/ LockBusy(r) \/ ReadHead(r)
             \/ Work(r) \/ \E ending \in Endings : AgentEnds(r, ending)
             \/ GatePasses(r) \/ GateRejects(r) \/ Deliver(r) \/ Applied(r) \/ Refused(r)
             \/ \E written \in BOOLEAN : Price(r, written)
             \/ Finish(r) \/ Publish(r)
             \/ Other(r) \/ Crash(r)
      PROVE  Calm(q)
  <2>1. turn'[q] = turn[q] /\ begun'[q] = begun[q] /\ unsaved'[q] = unsaved[q]
      BY <1>2, TurnOfOther
  <2>2. spent' \subseteq spent \cup {Run(r)}
      BY <1>2 DEF Open, Lock, LockBusy, ReadHead, Work, AgentEnds, GatePasses, GateRejects, Deliver,
                  Applied, Refused, Price, Finish, Publish, Other, Crash
  <2>3. crashes' = 0 => crashes = 0
      BY CrashesStand
  <2> QED
      BY <1>2, <2>1, <2>2, <2>3, OthersAreCalm
<1>3. CASE Lock(q)
    BY <1>3 DEF Lock, Goto, TypeOK, Calm, At, Underway
<1>4. CASE LockBusy(q)
    BY <1>4 DEF LockBusy, Exit, NoTurn, TypeOK, Calm, At, Underway
<1>5. CASE ReadHead(q)
    BY <1>5 DEF ReadHead, TypeOK, Calm, At, Underway
<1>6. CASE Work(q)
    BY <1>6 DEF Work, TypeOK, Calm, At, Underway
<1>7. CASE \E ending \in Endings : AgentEnds(q, ending)
    BY <1>7 DEF AgentEnds, TypeOK, Calm, At, Underway
<1>8. CASE GatePasses(q) \/ GateRejects(q)
  <2>1. /\ turn[q].pc = "gate" /\ turn'[q].pc \in {"deliver", "price"}
        /\ UNCHANGED <<begun, unsaved, spent, crashes>>
    <3>1. CASE GatePasses(q)
        BY <3>1 DEF GatePasses, TypeOK, At
    <3>2. CASE GateRejects(q)
        BY <3>2 DEF GateRejects, TypeOK, At
    <3> QED
        BY <1>8, <3>1, <3>2
  <2> QED
      BY <2>1 DEF Calm, At, Underway
<1>9. CASE Deliver(q)
  <2>1. /\ turn[q].pc = "deliver" /\ turn'[q].pc = "apply"
        /\ UNCHANGED <<begun, unsaved, spent, crashes>>
    <3>1. turn' = [turn EXCEPT ![q].pc = "apply"]
              \/ turn' = [turn EXCEPT ![q].names = Top(Workspace), ![q].pc = "apply"]
        BY <1>9 DEF Deliver, Goto
    <3>2. turn'[q].pc = "apply"
      <4>1. CASE turn' = [turn EXCEPT ![q].pc = "apply"]
          BY <4>1 DEF TypeOK
      <4>2. CASE turn' = [turn EXCEPT ![q].names = Top(Workspace), ![q].pc = "apply"]
          BY <4>2 DEF TypeOK
      <4> QED
          BY <3>1, <4>1, <4>2
    <3> QED
        BY <1>9, <3>2 DEF Deliver, At
  <2> QED
      BY <2>1 DEF Calm, At, Underway
<1>10. CASE Applied(q) \/ Refused(q)
  <2>1. /\ turn[q].pc = "apply" /\ turn'[q].pc = "price"
        /\ UNCHANGED <<begun, unsaved, spent, crashes>>
    <3>1. turn' = [turn EXCEPT ![q].outcome = "advanced", ![q].pc = "price"]
              \/ turn' = [turn EXCEPT ![q].outcome = "other", ![q].names = 0, ![q].pc = "price"]
        BY <1>10 DEF Applied, Refused
    <3>2. turn'[q].pc = "price"
      <4>1. CASE turn' = [turn EXCEPT ![q].outcome = "advanced", ![q].pc = "price"]
          BY <4>1 DEF TypeOK
      <4>2. CASE turn' = [turn EXCEPT ![q].outcome = "other", ![q].names = 0, ![q].pc = "price"]
          BY <4>2 DEF TypeOK
      <4> QED
          BY <3>1, <4>1, <4>2
    <3> QED
        BY <1>10, <3>2 DEF Applied, Refused, At
  <2> QED
      BY <2>1 DEF Calm, At, Underway
<1>11. CASE Publish(q)
  <2>1. /\ turn[q].pc = "publish" /\ turn'[q].pc \in {"idle", "publish"}
        /\ UNCHANGED <<begun, unsaved, spent, crashes>>
    <3>1. turn' = [turn EXCEPT ![q] = NoTurn] \/ turn' = [turn EXCEPT ![q].asked = @ + 1]
        BY <1>11 DEF Publish, Exit
    <3>2. turn'[q].pc \in {"idle", turn[q].pc}
      <4>1. CASE turn' = [turn EXCEPT ![q] = NoTurn]
          BY <4>1 DEF TypeOK, NoTurn
      <4>2. CASE turn' = [turn EXCEPT ![q].asked = @ + 1]
          BY <4>2 DEF TypeOK, NoTurn
      <4> QED
          BY <3>1, <4>1, <4>2
    <3> QED
        BY <1>11, <3>2 DEF Publish, At
  <2> QED
      BY <2>1 DEF Calm, At, Underway
<1>12. CASE Other(q)
    BY <1>12 DEF Other, TypeOK, Calm, At, Underway
<1>13. CASE Crash(q)
    BY <1>13 DEF Crash, Exit, NoTurn, TypeOK, Calm, At, Underway
<1> QED
    BY <1>1, <1>2, <1>3, <1>4, <1>5, <1>6, <1>7, <1>8, <1>9, <1>10, <1>11, <1>12, <1>13 DEF Next

\* A turn begins: its run is a new one.
LEMMA OpenKeeps ==
    ASSUME TypeOK, TypeOK', NEW q \in Queues, Ledger(q), SameRecords(q),
           NEW act \in Acts, Open(q, act)
    PROVE  Ledger(q)'
<1>1. /\ begun'[q] = begun[q] + 1 /\ begun[q] \in Nat /\ At(q, "idle")
      /\ UNCHANGED <<unsaved, spent, crashes>>
      /\ turn'[q].pc \in {"finish", "lock"} /\ turn'[q].priced = FALSE
    BY DEF Open, TypeOK, NoTurn
<1>2. Own(q) \subseteq Own(q)' /\ Run(q)' \notin Own(q)
  <2>1. \A n \in 0 .. begun[q] : n \in 0 .. begun'[q] /\ n # begun'[q]
      BY <1>1
  <2> QED
      BY <2>1 DEF Own, Run
<1>3. /\ Recorded(q)' = Recorded(q)
      /\ \A i \in Recorded(q) : /\ Entry(q, i)'.by = Entry(q, i).by
                                /\ Entry(q, i)'.rows = Entry(q, i).rows
                                /\ Entry(q, i)'.priced = Entry(q, i).priced
    BY DEF SameRecords, SameEntry
<1>4. Records(q)'
    BY <1>1, <1>2, <1>3 DEF Ledger, Records
<1>5. Rows(q)'
    BY <1>1, <1>2 DEF Ledger, Rows, At
<1>6. Started(q)'
  <2>1. \A run \in spent : run[1] = q => run # Run(q)'
      BY <1>2 DEF Ledger, Started
  <2>2. Run(q)'[1] = q
      BY DEF Run
  <2>3. crashes = 0 => \A run \in spent : run[1] = q => \E i \in Recorded(q) : Entry(q, i).by = run
      BY <1>1 DEF Ledger, Started, Underway, At
  <2> QED
      BY <1>1, <1>2, <1>3, <2>1, <2>2, <2>3 DEF Ledger, Started
<1> QED
    BY <1>4, <1>5, <1>6 DEF Ledger

\* The row of the run is written, or the record will say that there is none.
LEMMA PriceKeeps ==
    ASSUME TypeOK, TypeOK', NEW q \in Queues, Ledger(q), SameRecords(q),
           NEW written \in BOOLEAN, Price(q, written)
    PROVE  Ledger(q)'
<1>1. /\ begun' = begun /\ At(q, "price") /\ UNCHANGED <<spent, crashes>>
      /\ turn'[q].pc = "finish" /\ turn'[q].priced = written
      /\ unsaved'[q] = IF written THEN unsaved[q] \cup {Run(q)} ELSE unsaved[q]
    BY DEF Price, TypeOK, At
<1>2. Own(q)' = Own(q) /\ Run(q)' = Run(q) /\ Run(q) \in Own(q)
  <2>1. begun[q] \in 0 .. begun[q]
      BY DEF TypeOK
  <2> QED
      BY <1>1, <2>1 DEF Own, Run
<1>3. /\ Recorded(q)' = Recorded(q)
      /\ \A i \in Recorded(q) : /\ Entry(q, i)'.by = Entry(q, i).by
                                /\ Entry(q, i)'.rows = Entry(q, i).rows
                                /\ Entry(q, i)'.priced = Entry(q, i).priced
    BY DEF SameRecords, SameEntry
<1>4. Underway(q) /\ Underway(q)'
    BY <1>1 DEF Underway, At
<1>5. Records(q)'
    BY <1>1, <1>2, <1>3, <1>4 DEF Ledger, Records
<1>6. Rows(q)'
    BY <1>1, <1>2 DEF Ledger, Rows, At
<1>7. Started(q)'
    BY <1>1, <1>2, <1>3, <1>4 DEF Ledger, Started
<1> QED
    BY <1>5, <1>6, <1>7 DEF Ledger

\* The record and every row that waits go into one commit.
LEMMA FinishKeeps ==
    ASSUME TypeOK, TypeOK', NEW q \in Queues, Ledger(q), Finish(q)
    PROVE  Ledger(q)'
<1>1. /\ begun' = begun /\ At(q, "finish") /\ UNCHANGED <<spent, crashes>>
      /\ turn'[q].pc \in {"idle", "publish"} /\ unsaved'[q] = {}
  <2>1. turn' = [turn EXCEPT ![q] = NoTurn] \/ turn' = [turn EXCEPT ![q].pc = "publish"]
      BY DEF Finish, EndTurn, Exit, Goto
  <2>2. turn'[q].pc \in {"idle", "publish"}
    <3>1. CASE turn' = [turn EXCEPT ![q] = NoTurn]
        BY <3>1 DEF TypeOK, NoTurn
    <3>2. CASE turn' = [turn EXCEPT ![q].pc = "publish"]
        BY <3>2 DEF TypeOK, NoTurn
    <3> QED
        BY <2>1, <3>1, <3>2
  <2> QED
      BY <2>2 DEF Finish, TypeOK
<1>2. Own(q)' = Own(q) /\ Run(q)' = Run(q) /\ Run(q) \in Own(q)
  <2>1. begun[q] \in 0 .. begun[q]
      BY DEF TypeOK
  <2> QED
      BY <1>1, <2>1 DEF Own, Run
<1>3. PICK n \in Nat :
         /\ n \notin Recorded(q) /\ Recorded(q)' = Recorded(q) \cup {n}
         /\ \A i \in Recorded(q) : SameEntry(Entry(q, i), Entry(q, i)')
         /\ Entry(q, n)'.by = Run(q) /\ Entry(q, n)'.rows = unsaved[q]
         /\ Entry(q, n)'.names = turn[q].names /\ Entry(q, n)'.priced = turn[q].priced
    BY FinishAdds
<1>4. \A i \in Recorded(q) : /\ Entry(q, i)'.by = Entry(q, i).by
                             /\ Entry(q, i)'.rows = Entry(q, i).rows
                             /\ Entry(q, i)'.priced = Entry(q, i).priced
    BY <1>3 DEF SameEntry
<1>5. Underway(q) /\ ~Underway(q)'
    BY <1>1 DEF Underway, At
<1>6. /\ unsaved[q] \subseteq Own(q)
      /\ turn[q].priced => Run(q) \in unsaved[q]
      /\ crashes = 0 => unsaved[q] \subseteq {Run(q)}
    BY <1>1 DEF Ledger, Rows
<1>7. ASSUME NEW i \in Recorded(q)'
      PROVE  LET c == Entry(q, i)' IN
             /\ c.by \in Own(q) /\ c.rows \subseteq Own(q)
             /\ c.priced => c.by \in c.rows
             /\ crashes = 0 => c.rows \subseteq {c.by}
  <2>1. CASE i = n
      BY <1>2, <1>3, <1>6, <2>1
  <2>2. CASE i \in Recorded(q)
      BY <1>4, <2>2 DEF Ledger, Records
  <2> QED
      BY <1>3, <1>7, <2>1, <2>2
<1>8. ASSUME NEW i \in Recorded(q)', NEW j \in Recorded(q)', i # j
      PROVE  Entry(q, i)'.by # Entry(q, j)'.by /\ Entry(q, i)'.rows \cap Entry(q, j)'.rows = {}
  <2>1. ASSUME NEW k \in Recorded(q)
        PROVE  Entry(q, k)'.by # Run(q) /\ Entry(q, k)'.rows \cap unsaved[q] = {}
      BY <1>4, <1>5, <2>1 DEF Ledger, Records
  <2>2. CASE i \in Recorded(q) /\ j \in Recorded(q)
      BY <1>4, <1>8, <2>2 DEF Ledger, Records
  <2>3. CASE i = n /\ j \in Recorded(q)
      BY <1>3, <2>1, <2>3
  <2>4. CASE i \in Recorded(q) /\ j = n
      BY <1>3, <2>1, <2>4
  <2> QED
      BY <1>3, <1>8, <2>2, <2>3, <2>4
<1>9. Records(q)'
    BY <1>1, <1>2, <1>5, <1>7, <1>8 DEF Records
<1>10. Rows(q)'
    BY <1>1, <1>5 DEF Rows, Underway, At
<1>11. Started(q)'
    BY <1>1, <1>2, <1>3, <1>4 DEF Ledger, Started
<1> QED
    BY <1>9, <1>10, <1>11 DEF Ledger

LedgerInv == TypeOK /\ \A q \in Queues : Ledger(q)

LEMMA LedgerStep ==
    ASSUME LedgerInv, [Next]_vars
    PROVE  LedgerInv'
<1>1. TypeOK /\ TypeOK'
    BY TypeStep DEF LedgerInv
<1>2. ASSUME NEW q \in Queues PROVE Ledger(q)'
  <2>1. CASE Finish(q)
      BY <1>1, <2>1, FinishKeeps DEF LedgerInv
  <2>2. CASE ~Finish(q)
    <3>1. SameRecords(q) /\ Ledger(q)
        BY <1>1, <2>2, RecordsStand DEF LedgerInv
    <3>2. CASE \E act \in Acts : Open(q, act)
        BY <1>1, <3>1, <3>2, OpenKeeps
    <3>3. CASE \E written \in BOOLEAN : Price(q, written)
        BY <1>1, <3>1, <3>3, PriceKeeps
    <3>4. CASE /\ \A act \in Acts : ~Open(q, act)
               /\ \A written \in BOOLEAN : ~Price(q, written)
      <4>1. Calm(q)
          BY <1>1, <2>2, <3>4, MostStepsAreCalm
      <4> QED
          BY <1>1, <3>1, <4>1, CalmKeeps
    <3> QED
        BY <3>2, <3>3, <3>4
  <2> QED
      BY <2>1, <2>2
<1> QED
    BY <1>1, <1>2 DEF LedgerInv

LEMMA InitLedger == Init => LedgerInv
<1> SUFFICES ASSUME Init PROVE LedgerInv
    OBVIOUS
<1>1. ASSUME NEW q \in Queues PROVE Ledger(q)
  <2>1. Recorded(q) = {}
    <3>1. hist[RepoOf(q)] = <<>>
        BY RepoOfType DEF Init
    <3> QED
        BY <3>1 DEF Recorded, RecordsOf
  <2> QED
      BY <2>1 DEF Init, NoTurn, Ledger, Records, Rows, Started, Underway, At
<1> QED
    BY <1>1, InitTyped DEF LedgerInv

THEOREM LedgerInvariant == Spec => []LedgerInv
<1>1. LedgerInv /\ [Next]_vars => LedgerInv'
    BY LedgerStep
<1> QED
    BY InitLedger, <1>1, PTL DEF Spec

\* Every run whose agent was started has one record in the end, with its row, whatever
\* its record and other queues' turns found, in one tree or in several, unless a
\* turn was killed; and nothing is recorded twice even then (_finish).
THEOREM TheLedgerIsComplete == Spec => []TheLedgerAccountsForEveryRun
<1>1. ASSUME LedgerInv, NEW q \in Queues
      PROVE  LET h == hist[RepoOf(q)]
                 mine == {i \in RecordsOf(h) : h[i].by[1] = q} IN
             /\ \A i \in mine : h[i].priced => h[i].by \in h[i].rows
             /\ \A i, j \in mine : i # j => h[i].by # h[j].by /\ h[i].rows \cap h[j].rows = {}
             /\ crashes = 0 =>
                   /\ \A i \in mine : h[i].rows \subseteq {h[i].by}
                   /\ At(q, "idle") => \A run \in spent : run[1] = q =>
                          \E i \in mine : h[i].by = run
  <2> DEFINE h == hist[RepoOf(q)]
             mine == {i \in RecordsOf(h) : h[i].by[1] = q}
  <2>1. Records(q) /\ Started(q)
      BY <1>1 DEF LedgerInv, Ledger
  <2>2. /\ \A i \in RecordsOf(h) : h[i].priced => h[i].by \in h[i].rows
        /\ \A i, j \in RecordsOf(h) : i # j => h[i].by # h[j].by /\ h[i].rows \cap h[j].rows = {}
        /\ crashes = 0 => \A i \in RecordsOf(h) : h[i].rows \subseteq {h[i].by}
      BY <2>1 DEF Records, Recorded, Entry
  <2>3. crashes = 0 /\ At(q, "idle") => \A run \in spent : run[1] = q =>
                          \E i \in RecordsOf(h) : h[i].by = run
      BY <2>1 DEF Started, Recorded, Entry, Underway, At
  <2> HIDE DEF h
  <2>4. /\ \A i \in mine : i \in RecordsOf(h)
        /\ \A i \in RecordsOf(h) : h[i].by[1] = q => i \in mine
      OBVIOUS
  <2> HIDE DEF mine
  <2>5. /\ \A i \in mine : h[i].priced => h[i].by \in h[i].rows
        /\ \A i, j \in mine : i # j => h[i].by # h[j].by /\ h[i].rows \cap h[j].rows = {}
        /\ crashes = 0 => \A i \in mine : h[i].rows \subseteq {h[i].by}
      BY <2>2, <2>4
  <2>6. crashes = 0 /\ At(q, "idle") => \A run \in spent : run[1] = q =>
                          \E i \in mine : h[i].by = run
      BY <2>3, <2>4
  <2> QED
      BY <2>5, <2>6 DEF h, mine
<1>2. LedgerInv => TheLedgerAccountsForEveryRun
    BY <1>1 DEF TheLedgerAccountsForEveryRun
<1> QED
    BY LedgerInvariant, <1>2, PTL

-----------------------------------------------------------------------------
(***************************************************************************)
(* The join of records and commits.                                        *)
(***************************************************************************)

Named(n, run) == n \in 1 .. Top(Workspace) /\ hist[Workspace][n].marks = {run}

\* From the amendment to the record.
Delivering(q) == turn[q].pc \in {"apply", "price", "finish"}

\* What a record names, or a turn is about to record, bears the mark of its run;
\* and what bears a mark is recorded, or about to be.
Joined(q) ==
    /\ \A i \in Recorded(q) :
          Entry(q, i).names > 0 => Named(Entry(q, i).names, Entry(q, i).by)
    /\ turn[q].names > 0 => Named(turn[q].names, Run(q))
    /\ crashes = 0 => \A n \in 1 .. Top(Workspace) :
          LET c == hist[Workspace][n] IN c.marks # {} /\ c.by[1] = q =>
              \/ c.by = Run(q) /\ Delivering(q)
              \/ \E i \in Recorded(q) : Entry(q, i).by = c.by

\* An amendment marks the latest commit of the workspace, which is the run's own.
Amends(q) ==
    LET h == hist[Workspace]
        g == hist'[Workspace]
        n == Top(Workspace)
    IN /\ n \in 1 .. n /\ Len(g) = n
       /\ \A i \in 1 .. n : i # n => g[i] = h[i]
       /\ h[n].by = Run(q) /\ h[n].marks \subseteq {Run(q)}
       /\ g[n].by = Run(q) /\ g[n].marks = {Run(q)}
       /\ turn'[q].names = n /\ turn'[q].pc = "apply"

LEMMA DeliverAmends ==
    ASSUME ~SameTree, TreeInv, NEW q \in Queues, Deliver(q)
    PROVE  \/ hist' = hist /\ turn'[q].names = turn[q].names
           \/ Amends(q)
<1> DEFINE h == hist[Workspace]
           n == Top(Workspace)
           c == [h[n] EXCEPT !.marks = @ \cup {Run(q)}]
           g == [h EXCEPT ![Len(h)] = c]
<1>0. TypeOK
    BY DEF TreeInv
<1>1. CASE h \in {<<>>, turn[q].before}
  <2>1. hist' = hist /\ turn' = [turn EXCEPT ![q].pc = "apply"]
      BY <1>1 DEF Deliver, Goto
  <2> QED
      BY <1>0, <2>1 DEF TypeOK
<1>2. CASE h \notin {<<>>, turn[q].before}
  <2>1. /\ h \in Seq(Commits) /\ h # <<>> /\ n = Len(h) /\ n \in 1 .. n
        /\ h[n] \in Commits /\ c \in Commits /\ c.by = h[n].by /\ c.marks = h[n].marks \cup {Run(q)}
        /\ Amended(Run(q)) = g
    <3>1. h \in Seq(Commits) /\ h # <<>> /\ n = Len(h)
        BY <1>0, <1>2 DEF TypeOK, Repos, Top
    <3>2. /\ h[n] \in Commits /\ c \in Commits /\ c.by = h[n].by /\ c.marks = h[n].marks \cup {Run(q)}
          /\ Amended(Run(q)) = g
        BY <1>0, <3>1, AmendedType
    <3>3. n \in 1 .. n
        BY <3>1
    <3> QED
        BY <3>1, <3>2, <3>3
  <2>2. h[n].by = Run(q)
      BY <1>2, HeadIsTheRuns DEF Deliver
  <2>3. h[n].marks \subseteq {Run(q)}
      BY <2>1, <2>2 DEF TreeInv, MarkedCommitsAreTheRunsOwn, Repos
  <2>4. c.by = Run(q) /\ c.marks = {Run(q)}
      BY <2>1, <2>2, <2>3
  <2>5. hist'[Workspace] = g /\ turn'[q].names = n /\ turn'[q].pc = "apply"
    <3>1. /\ hist' = [hist EXCEPT ![Workspace] = g]
          /\ turn' = [turn EXCEPT ![q].names = n, ![q].pc = "apply"]
        BY <1>2, <2>1 DEF Deliver
    <3> HIDE DEF g, n
    <3> QED
        BY <1>0, <3>1 DEF TypeOK, Repos
  <2>6. /\ Len(g) = n /\ g[n] = c
        /\ \A i \in 1 .. n : i # n => g[i] = h[i]
    <3> HIDE DEF c
    <3> QED
        BY <2>1, AmendTop
  <2> HIDE DEF h, n, c, g
  <2>7. Amends(q)
      BY <2>1, <2>2, <2>3, <2>4, <2>5, <2>6 DEF Amends, h, n
  <2> QED
      BY <2>7
<1> QED
    BY <1>1, <1>2

\* The workspace gets a commit without a mark, or its latest one a mark, or is
\* left alone.
LEMMA WorkspaceStep ==
    ASSUME ~SameTree, TreeInv, [Next]_vars
    PROVE  \/ hist'[Workspace] = hist[Workspace]
           \/ /\ Len(hist'[Workspace]) = Top(Workspace) + 1
              /\ \A i \in 1 .. Top(Workspace) : hist'[Workspace][i] = hist[Workspace][i]
              /\ hist'[Workspace][Top(Workspace) + 1].marks = {}
           \/ \E q \in Queues : Deliver(q) /\ Amends(q)
<1> USE DeliveryAssumption
<1>0. TypeOK /\ hist[Workspace] \in Seq(Commits)
    BY DEF TreeInv, TypeOK, Repos
<1>1. ASSUME NEW q \in Queues, NEW s, NEW c, s # Workspace, Write(s, c)
      PROVE  hist'[Workspace] = hist[Workspace]
    BY <1>0, <1>1 DEF Write, TypeOK, Repos
<1>2. \A q \in Queues : RepoOf(q) # Workspace
    BY DEF RepoOf
<1>3. ASSUME NEW q \in Queues, Work(q)
      PROVE  /\ Len(hist'[Workspace]) = Top(Workspace) + 1
             /\ \A i \in 1 .. Top(Workspace) : hist'[Workspace][i] = hist[Workspace][i]
             /\ hist'[Workspace][Top(Workspace) + 1].marks = {}
  <2> DEFINE c == Plain("work", Run(q), {})
             h == hist[Workspace]
  <2>1. Run(q) \in Runs
      BY <1>0 DEF TypeOK, Run, Runs
  <2>2. c \in Commits /\ c.marks = {}
      BY <2>1, PlainType DEF Kinds
  <2>3. hist'[Workspace] = Append(h, c)
      BY <1>0, <1>3, <2>2, WriteType DEF Work, Repos
  <2> HIDE DEF c
  <2> QED
      BY <1>0, <2>2, <2>3 DEF Top
<1>4. ASSUME NEW q \in Queues, Deliver(q)
      PROVE  hist'[Workspace] = hist[Workspace] \/ Amends(q)
    BY <1>4, DeliverAmends
<1>5. ASSUME NEW q \in Queues, (\E act \in Acts : Open(q, act)) \/ Finish(q) \/ Other(q)
      PROVE  hist'[Workspace] = hist[Workspace]
    BY <1>1, <1>2, <1>5 DEF Open, Finish, Other
<1> QED
    BY <1>3, <1>4, <1>5
    DEF Next, Lock, LockBusy, ReadHead, AgentEnds, GatePasses, GateRejects, Applied, Refused, Price,
        Publish, Crash, vars

\* So a commit that bears one mark keeps it, in its place.
LEMMA MarksStand ==
    ASSUME ~SameTree, TreeInv, [Next]_vars, NEW n, NEW run, Named(n, run)
    PROVE  Named(n, run)'
<1>1. hist[Workspace] \in Seq(Commits) /\ Top(Workspace) \in Nat
    BY DEF TreeInv, TypeOK, Repos, Top
<1>2. CASE hist'[Workspace] = hist[Workspace]
    BY <1>2 DEF Named, Top
<1>3. CASE /\ Len(hist'[Workspace]) = Top(Workspace) + 1
           /\ \A i \in 1 .. Top(Workspace) : hist'[Workspace][i] = hist[Workspace][i]
    BY <1>1, <1>3 DEF Named, Top
<1>4. ASSUME NEW q \in Queues, Amends(q) PROVE Named(n, run)'
  <2>1. CASE n = Top(Workspace)
      BY <1>4, <2>1 DEF Amends, Named, Top
  <2>2. CASE n # Top(Workspace)
      BY <1>4, <2>2 DEF Amends, Named, Top
  <2> QED
      BY <2>1, <2>2
<1> QED
    BY <1>2, <1>3, <1>4, WorkspaceStep

\* What a turn holds to be recorded, and how far it is.
LEMMA NamesStand ==
    ASSUME ~SameTree, TreeInv, [Next]_vars, NEW q \in Queues
    PROVE  \/ turn'[q].names = turn[q].names /\ begun'[q] = begun[q]
           \/ turn'[q].names = 0
           \/ Deliver(q) /\ Amends(q)
<1>0. TypeOK
    BY DEF TreeInv
<1>1. CASE \E act \in Acts : Open(q, act)
    BY <1>0, <1>1 DEF Open, NoTurn, TypeOK
<1>2. CASE Deliver(q)
    BY <1>2, DeliverAmends DEF Deliver
<1>3. CASE turn' = [turn EXCEPT ![q] = NoTurn]
    BY <1>0, <1>3 DEF NoTurn, TypeOK
<1>4. CASE Lock(q)
    BY <1>0, <1>4 DEF Lock, Goto, TypeOK
<1>5. CASE ReadHead(q)
    BY <1>0, <1>5 DEF ReadHead, TypeOK
<1>6. CASE Work(q) \/ Other(q)
    BY <1>6 DEF Work, Other
<1>7. CASE \E ending \in Endings : AgentEnds(q, ending)
    BY <1>0, <1>7 DEF AgentEnds, TypeOK
<1>8. CASE GatePasses(q)
    BY <1>0, <1>8 DEF GatePasses, TypeOK
<1>9. CASE GateRejects(q)
    BY <1>0, <1>9 DEF GateRejects, TypeOK
<1>10. CASE Applied(q)
    BY <1>0, <1>10 DEF Applied, TypeOK
<1>11. CASE Refused(q)
    BY <1>0, <1>11 DEF Refused, TypeOK
<1>12. CASE \E written \in BOOLEAN : Price(q, written)
    BY <1>0, <1>12 DEF Price, TypeOK
<1>13. CASE Finish(q) /\ Goto(q, "publish")
    BY <1>0, <1>13 DEF Finish, Goto, TypeOK
<1>14. CASE Publish(q) /\ turn' = [turn EXCEPT ![q].asked = @ + 1]
    BY <1>0, <1>14 DEF Publish, TypeOK
<1>15. CASE turn'[q] = turn[q] /\ begun'[q] = begun[q]
    BY <1>15
<1>16. ASSUME NEW r \in Queues, r # q,
             \/ \E act \in Acts : Open(r, act)
             \/ Lock(r) \/ LockBusy(r) \/ ReadHead(r)
             \/ Work(r) \/ \E ending \in Endings : AgentEnds(r, ending)
             \/ GatePasses(r) \/ GateRejects(r) \/ Deliver(r) \/ Applied(r) \/ Refused(r)
             \/ \E written \in BOOLEAN : Price(r, written)
             \/ Finish(r) \/ Publish(r)
             \/ Other(r) \/ Crash(r)
       PROVE  turn'[q] = turn[q] /\ begun'[q] = begun[q]
    BY <1>0, <1>16, TurnOfOther
<1>17. CASE LockBusy(q) \/ Crash(q)
    BY <1>3, <1>17 DEF LockBusy, Crash, Exit
<1>18. CASE Finish(q)
    BY <1>3, <1>13, <1>18 DEF Finish, EndTurn, Exit
<1>19. CASE Publish(q)
    BY <1>3, <1>14, <1>19 DEF Publish, Exit
<1>20. CASE UNCHANGED vars
    BY <1>20 DEF vars
<1> QED
    BY <1>1, <1>2, <1>4, <1>7, <1>9, <1>10, <1>11, <1>12, <1>15, <1>16, <1>17, <1>18, <1>19, <1>20,
       <1>5, <1>6, <1>8 DEF Next

LEMMA DeliveringGoesOn ==
    ASSUME TypeOK, [Next]_vars, NEW q \in Queues, Delivering(q), ~Finish(q), crashes' = 0
    PROVE  Delivering(q)' /\ Run(q)' = Run(q)
<1>1. crashes' # crashes + 1
    BY DEF TypeOK
<1>2. CASE Applied(q)
    BY <1>2 DEF Applied, Delivering, Run, TypeOK
<1>3. CASE Refused(q)
    BY <1>3 DEF Refused, Delivering, Run, TypeOK
<1>4. CASE \E written \in BOOLEAN : Price(q, written)
    BY <1>4 DEF Price, Delivering, Run, TypeOK
<1>5. CASE turn'[q] = turn[q] /\ begun'[q] = begun[q]
    BY <1>5 DEF Delivering, Run
<1>6. ASSUME NEW r \in Queues, r # q,
             \/ \E act \in Acts : Open(r, act)
             \/ Lock(r) \/ LockBusy(r) \/ ReadHead(r)
             \/ Work(r) \/ \E ending \in Endings : AgentEnds(r, ending)
             \/ GatePasses(r) \/ GateRejects(r) \/ Deliver(r) \/ Applied(r) \/ Refused(r)
             \/ \E written \in BOOLEAN : Price(r, written)
             \/ Finish(r) \/ Publish(r)
             \/ Other(r) \/ Crash(r)
       PROVE  turn'[q] = turn[q] /\ begun'[q] = begun[q]
    BY <1>6, TurnOfOther
<1>7. CASE UNCHANGED vars
    BY <1>7 DEF vars, Delivering, Run
<1>8. ~(\/ \E act \in Acts : Open(q, act)
        \/ Lock(q) \/ LockBusy(q) \/ ReadHead(q)
        \/ Work(q) \/ (\E ending \in Endings : AgentEnds(q, ending))
        \/ GatePasses(q) \/ GateRejects(q) \/ Deliver(q)
        \/ Publish(q) \/ Crash(q))
    BY <1>1 DEF Delivering, At, Open, Lock, LockBusy, ReadHead, Work, AgentEnds, GatePasses, GateRejects,
                Deliver, Publish, Crash
<1>9. CASE Other(q)
    BY <1>5, <1>9 DEF Other
<1> QED
    BY <1>2, <1>3, <1>4, <1>5, <1>6, <1>7, <1>8, <1>9 DEF Next

JoinInv == TreeInv /\ \A q \in Queues : Joined(q)

LEMMA JoinStep ==
    ASSUME ~SameTree, JoinInv, [Next]_vars
    PROVE  JoinInv'
<1>0. TreeInv /\ TypeOK /\ TreeInv'
    BY TreeStep DEF JoinInv, TreeInv
<1>1. ASSUME NEW q \in Queues PROVE Joined(q)'
  <2>0. Joined(q)
      BY DEF JoinInv
  <2>1. \A n, run : Named(n, run) => Named(n, run)'
      BY <1>0, MarksStand
  <2>2. \A i \in Recorded(q) : i \in Recorded(q)' /\ SameEntry(Entry(q, i), Entry(q, i)')
    <3>1. CASE Finish(q)
        BY <1>0, <3>1, FinishAdds
    <3>2. CASE ~Finish(q)
        BY <1>0, <3>2, RecordsStand DEF SameRecords
    <3> QED
        BY <3>1, <3>2
  <2>3. ASSUME NEW i \in Recorded(q)', Entry(q, i)'.names > 0
        PROVE  \E n, run : n = Entry(q, i)'.names /\ run = Entry(q, i)'.by /\ Named(n, run)
    <3>1. CASE i \in Recorded(q)
        BY <2>0, <2>2, <2>3, <3>1 DEF Joined, SameEntry
    <3>2. CASE i \notin Recorded(q)
      <4>1. Finish(q)
          BY <1>0, <2>3, <3>2, RecordsStand DEF SameRecords
      <4>2. Entry(q, i)'.by = Run(q) /\ Entry(q, i)'.names = turn[q].names
          BY <1>0, <2>3, <3>2, <4>1, FinishAdds
      <4> QED
          BY <2>0, <2>3, <4>2 DEF Joined
    <3> QED
        BY <3>1, <3>2
  <2>4. ASSUME turn'[q].names > 0
        PROVE  Named(turn[q].names, Run(q))'
    <3>1. CASE turn'[q].names = turn[q].names /\ begun'[q] = begun[q]
      <4>1. Named(turn[q].names, Run(q))
          BY <2>0, <2>4, <3>1 DEF Joined
      <4>2. PICK n, run : n = turn[q].names /\ run = Run(q) /\ Named(n, run)
          BY <4>1
      <4>3. Named(n, run)'
          BY <2>1, <4>2
      <4> QED
          BY <3>1, <4>2, <4>3 DEF Named, Run
    <3>2. CASE Deliver(q) /\ Amends(q)
      <4>1. begun' = begun
          BY <3>2 DEF Deliver
      <4> QED
          BY <3>2, <4>1 DEF Amends, Named, Run, Top
    <3> QED
        BY <1>0, <2>4, <3>1, <3>2, NamesStand
  <2>5. ASSUME crashes' = 0, NEW n \in 1 .. Len(hist'[Workspace]),
               hist'[Workspace][n].marks # {}, hist'[Workspace][n].by[1] = q
        PROVE  \/ hist'[Workspace][n].by = Run(q)' /\ Delivering(q)'
               \/ \E i \in Recorded(q)' : Entry(q, i)'.by = hist'[Workspace][n].by
    <3> DEFINE c == hist'[Workspace][n]
    <3>1. crashes = 0
        BY <1>0, <2>5, CrashesStand
    <3>2. hist[Workspace] \in Seq(Commits) /\ Top(Workspace) \in Nat
        BY <1>0 DEF TypeOK, Repos, Top
    <3>3. CASE n \in 1 .. Top(Workspace) /\ c = hist[Workspace][n]
      <4>1. \/ c.by = Run(q) /\ Delivering(q)
            \/ \E i \in Recorded(q) : Entry(q, i).by = c.by
          BY <2>0, <2>5, <3>1, <3>3 DEF Joined
      <4>2. CASE \E i \in Recorded(q) : Entry(q, i).by = c.by
          BY <2>2, <4>2 DEF SameEntry
      <4>3. CASE c.by = Run(q) /\ Finish(q)
          BY <1>0, <4>3, FinishAdds
      <4>4. CASE c.by = Run(q) /\ Delivering(q) /\ ~Finish(q)
          BY <1>0, <2>5, <4>4, DeliveringGoesOn
      <4> QED
          BY <4>1, <4>2, <4>3, <4>4
    <3>4. CASE \E r \in Queues : Deliver(r) /\ Amends(r) /\ n = Top(Workspace)
      <4>1. PICK r \in Queues : Deliver(r) /\ Amends(r) /\ n = Top(Workspace)
          BY <3>4
      <4>2. c.by = Run(r) /\ turn'[r].pc = "apply" /\ begun' = begun
          BY <4>1 DEF Amends, Deliver
      <4>3. r = q
          BY <2>5, <4>2 DEF Run
      <4> QED
          BY <4>2, <4>3 DEF Delivering, Run
    <3>5. \/ n \in 1 .. Top(Workspace) /\ c = hist[Workspace][n]
          \/ \E r \in Queues : Deliver(r) /\ Amends(r) /\ n = Top(Workspace)
      <4>1. CASE hist'[Workspace] = hist[Workspace]
          BY <4>1 DEF Top
      <4>2. CASE /\ Len(hist'[Workspace]) = Top(Workspace) + 1
                 /\ \A i \in 1 .. Top(Workspace) : hist'[Workspace][i] = hist[Workspace][i]
                 /\ hist'[Workspace][Top(Workspace) + 1].marks = {}
          BY <2>5, <3>2, <4>2
      <4>3. CASE \E r \in Queues : Deliver(r) /\ Amends(r)
          BY <3>2, <4>3 DEF Amends
      <4> QED
          BY <1>0, <4>1, <4>2, <4>3, WorkspaceStep
    <3> QED
        BY <3>3, <3>4, <3>5
  <2>6. \A i \in Recorded(q)' : Entry(q, i)'.names > 0 => Named(Entry(q, i).names, Entry(q, i).by)'
    <3> SUFFICES ASSUME NEW i \in Recorded(q)', Entry(q, i)'.names > 0
                 PROVE  Named(Entry(q, i).names, Entry(q, i).by)'
        OBVIOUS
    <3>1. PICK n, run : n = Entry(q, i)'.names /\ run = Entry(q, i)'.by /\ Named(n, run)
        BY <2>3
    <3>2. Named(n, run)'
        BY <2>1, <3>1
    <3> QED
        BY <3>1, <3>2 DEF Named
  <2> QED
      BY <2>4, <2>5, <2>6 DEF Joined, Top
<1> QED
    BY <1>0, <1>1 DEF JoinInv

LEMMA InitJoin == Init => JoinInv
<1> SUFFICES ASSUME Init PROVE JoinInv
    OBVIOUS
<1>1. ASSUME NEW q \in Queues PROVE Joined(q)
  <2>1. hist[RepoOf(q)] = <<>> /\ hist[Workspace] = <<>>
      BY RepoOfType DEF Init, Repos
  <2>2. Recorded(q) = {} /\ Top(Workspace) = 0
      BY <2>1 DEF Recorded, RecordsOf, Top
  <2>3. turn[q].names = 0
      BY DEF Init, NoTurn
  <2> QED
      BY <2>2, <2>3 DEF Joined
<1> QED
    BY <1>1, InitTree DEF JoinInv

THEOREM JoinInvariant == ASSUME ~SameTree PROVE Spec => []JoinInv
<1>1. JoinInv /\ [Next]_vars => JoinInv'
    BY JoinStep
<1> QED
    BY InitJoin, <1>1, PTL DEF Spec

\* Whatever turns of other queues do in the workspace later, what a record names is
\* there under the mark of its run, and what bears a mark is recorded, unless its
\* run is under way or was killed (_deliver_workspace, _finish).
THEOREM RecordsAndCommitsJoin == ASSUME ~SameTree PROVE Spec => []TheJoinResolves
<1>1. ASSUME JoinInv PROVE TheJoinResolves
  <2>1. ASSUME NEW q \in Queues, NEW i \in RecordsOf(hist[RepoOf(q)]),
               hist[RepoOf(q)][i].names > 0
        PROVE  /\ hist[RepoOf(q)][i].names <= Top(Workspace)
               /\ hist[Workspace][hist[RepoOf(q)][i].names].marks = {hist[RepoOf(q)][i].by}
    <3>1. Named(hist[RepoOf(q)][i].names, hist[RepoOf(q)][i].by)
        BY <1>1, <2>1 DEF JoinInv, Joined, Recorded, Entry
    <3> QED
        BY <3>1 DEF Named
  <2>2. ASSUME crashes = 0, NEW q \in Queues, NEW i \in DOMAIN hist[Workspace],
               hist[Workspace][i].marks # {}, hist[Workspace][i].by[1] = q
        PROVE  \/ hist[Workspace][i].by = Run(q) /\ ~At(q, "idle")
               \/ \E j \in RecordsOf(hist[RepoOf(q)]) : hist[RepoOf(q)][j].by = hist[Workspace][i].by
    <3>1. i \in 1 .. Top(Workspace)
        BY <1>1, <2>2 DEF JoinInv, TreeInv, TypeOK, Repos, Top
    <3>2. \/ hist[Workspace][i].by = Run(q) /\ Delivering(q)
          \/ \E j \in Recorded(q) : Entry(q, j).by = hist[Workspace][i].by
        BY <1>1, <2>2, <3>1 DEF JoinInv, Joined
    <3> QED
        BY <3>2 DEF Delivering, At, Recorded, Entry
  <2> QED
      BY <2>1, <2>2 DEF TheJoinResolves
<1> QED
    BY JoinInvariant, <1>1, PTL

-----------------------------------------------------------------------------
(***************************************************************************)
(* What is public.                                                         *)
(***************************************************************************)

\* Where the queue is about to be pushed, the workspace has been: every commit its
\* records name is public, those of turns that were killed before their pushes
\* included.
Asked(q) ==
    /\ turn[q].asked = 1 =>
          /\ At(q, "publish")
          /\ \A i \in Recorded(q) : Entry(q, i).names <= Len(remote[Workspace])
    /\ \A i \in RecordsOf(remote[RepoOf(q)]) :
          remote[RepoOf(q)][i].names <= Len(remote[Workspace])

PublicInv == JoinInv /\ \A q \in Queues : Asked(q)

\* A push is the whole of the repository or nothing, and never loses a commit.
LEMMA PushGrows ==
    ASSUME TreeInv, [Next]_vars, NEW s \in Repos
    PROVE  /\ remote'[s] \in {remote[s], hist[s]}
           /\ Len(remote[s]) \in Nat /\ Len(remote'[s]) \in Nat /\ Len(hist[s]) \in Nat
           /\ Len(remote[s]) <= Len(remote'[s]) /\ Len(remote'[s]) <= Len(hist[s])
<1>1. hist[s] \in Seq(Commits) /\ remote[s] \in Seq(Commits)
    BY DEF TreeInv, TypeOK
<1>2. remote'[s] \in {remote[s], hist[s]}
  <2>1. CASE remote' = remote
      BY <2>1
  <2>2. ASSUME NEW r \in Repos, Push(r) PROVE remote'[s] \in {remote[s], hist[s]}
      BY <2>2 DEF Push, TreeInv, TypeOK
  <2>3. ASSUME NEW q \in Queues, Publish(q)
        PROVE  remote' = remote \/ \E r \in Repos : Push(r)
      BY <2>3, RepoOfType DEF Publish, Repos
  <2> QED
      BY <2>1, <2>2, <2>3 DEF Next, Open, Lock, LockBusy, ReadHead, Work, AgentEnds, GatePasses, GateRejects,
         Deliver, Applied, Refused, Price, Finish, Other, Crash, vars
<1>3. Len(remote[s]) <= Len(hist[s])
    BY <1>1, PrefixDef DEF TreeInv, OwnPushesFastForward
<1> QED
    BY <1>1, <1>2, <1>3

\* A push of one queue is no push of another; the workspace is pushed first.
LEMMA PublishInOrder ==
    ASSUME ~SameTree, TreeInv, [Next]_vars, NEW q \in Queues,
           PublishWorkspace, Workspace \notin Unreachable
    PROVE  /\ remote'[RepoOf(q)] = remote[RepoOf(q)] \/ (Publish(q) /\ turn[q].asked = 1)
           /\ Publish(q) /\ turn[q].asked = 0 =>
                 /\ remote'[Workspace] = hist[Workspace]
                 /\ turn'[q].asked = 1 /\ turn'[q].pc = "publish"
<1> USE DeliveryAssumption
<1>0. TypeOK /\ turn[q].asked \in {0, 1}
    BY DEF TreeInv, TypeOK, Turns
<1>1. \A r \in Queues : RepoOf(r) = r /\ r # Workspace
    BY DEF RepoOf
<1>2. Order[1] = "workspace" /\ Order[2] = "queue" /\ Len(Order) = 2
    BY DEF Order
<1>3. ASSUME NEW r \in Queues, Publish(r), turn[r].asked = 0
      PROVE  /\ Push(Workspace) /\ turn' = [turn EXCEPT ![r].asked = @ + 1]
             /\ At(r, "publish")
    BY <1>2, <1>3 DEF Publish
<1>4. Push(Workspace) => \A r \in Queues : remote'[r] = remote[r]
    BY <1>0, <1>1 DEF Push, TypeOK, Repos
<1>5. ASSUME NEW r \in Queues, Publish(r), turn[r].asked = 1
      PROVE  remote' = remote \/ Push(r)
    BY <1>1, <1>2, <1>5 DEF Publish
<1>6. ASSUME NEW r \in Queues, Push(r), r # q
      PROVE  remote'[q] = remote[q]
    BY <1>0, <1>6 DEF Push, TypeOK, Repos
<1>7. remote'[q] = remote[q] \/ (Publish(q) /\ turn[q].asked = 1)
  <2>1. ASSUME NEW r \in Queues, Publish(r) PROVE remote'[q] = remote[q] \/ (Publish(q) /\ turn[q].asked = 1)
    <3>1. turn[r].asked \in {0, 1}
        BY DEF TreeInv, TypeOK, Turns
    <3> QED
        BY <1>3, <1>4, <1>5, <1>6, <2>1, <3>1
  <2> QED
      BY <2>1 DEF Next, Open, Lock, LockBusy, ReadHead, Work, AgentEnds, GatePasses, GateRejects,
         Deliver, Applied, Refused, Price, Finish, Other, Crash, vars
<1>8. ASSUME Publish(q), turn[q].asked = 0
      PROVE  /\ remote'[Workspace] = hist[Workspace]
             /\ turn'[q].asked = 1 /\ turn'[q].pc = "publish"
  <2>1. /\ Push(Workspace) /\ turn' = [turn EXCEPT ![q].asked = @ + 1]
        /\ turn[q].pc = "publish"
      BY <1>3, <1>8 DEF At
  <2>2. remote'[Workspace] = hist[Workspace]
      BY <1>0, <2>1 DEF Push, TypeOK, Repos, TreeInv, OwnPushesFastForward
  <2> QED
      BY <1>0, <1>8, <2>1, <2>2 DEF TypeOK
<1> QED
    BY <1>1, <1>7, <1>8

\* How far a turn's pushes are is its own doing.
LEMMA AskedStands ==
    ASSUME TypeOK, [Next]_vars, NEW q \in Queues
    PROVE  \/ turn'[q].asked = turn[q].asked /\ (At(q, "publish") => turn'[q].pc = "publish")
           \/ turn'[q].asked = 0
           \/ Publish(q)
<1>1. CASE turn' = [turn EXCEPT ![q] = NoTurn]
    BY <1>1 DEF NoTurn, TypeOK
<1>2. CASE turn'[q] = turn[q]
    BY <1>2 DEF At
<1>3. CASE \E act \in Acts : Open(q, act)
    BY <1>3 DEF Open, NoTurn, TypeOK
<1>4. CASE Lock(q)
    BY <1>4 DEF Lock, Goto, TypeOK, At
<1>5. CASE ReadHead(q)
    BY <1>5 DEF ReadHead, TypeOK, At
<1>6. CASE \E ending \in Endings : AgentEnds(q, ending)
    BY <1>6 DEF AgentEnds, TypeOK, At
<1>7. CASE GatePasses(q)
    BY <1>7 DEF GatePasses, TypeOK, At
<1>8. CASE GateRejects(q)
    BY <1>8 DEF GateRejects, TypeOK, At
<1>9. CASE Deliver(q)
  <2>1. CASE turn' = [turn EXCEPT ![q].pc = "apply"]
      BY <1>9, <2>1 DEF Deliver, TypeOK, At
  <2>2. CASE turn' = [turn EXCEPT ![q].names = Top(Workspace), ![q].pc = "apply"]
      BY <1>9, <2>2 DEF Deliver, TypeOK, At
  <2> QED
      BY <1>9, <2>1, <2>2 DEF Deliver, Goto
<1>10. CASE Applied(q)
    BY <1>10 DEF Applied, TypeOK, At
<1>11. CASE Refused(q)
    BY <1>11 DEF Refused, TypeOK, At
<1>12. CASE \E written \in BOOLEAN : Price(q, written)
    BY <1>12 DEF Price, TypeOK, At
<1>13. CASE Finish(q) /\ Goto(q, "publish")
    BY <1>13 DEF Finish, Goto, TypeOK, At
<1>14. CASE UNCHANGED vars
    BY <1>2, <1>14 DEF vars
<1>15. CASE Work(q) \/ Other(q)
    BY <1>2, <1>15 DEF Work, Other
<1>16. CASE Finish(q)
    BY <1>1, <1>13, <1>16 DEF Finish, EndTurn, Exit
<1>17. CASE LockBusy(q) \/ Crash(q)
    BY <1>1, <1>17 DEF LockBusy, Crash, Exit
<1>18. ASSUME NEW r \in Queues, r # q,
             \/ \E act \in Acts : Open(r, act)
             \/ Lock(r) \/ LockBusy(r) \/ ReadHead(r)
             \/ Work(r) \/ \E ending \in Endings : AgentEnds(r, ending)
             \/ GatePasses(r) \/ GateRejects(r) \/ Deliver(r) \/ Applied(r) \/ Refused(r)
             \/ \E written \in BOOLEAN : Price(r, written)
             \/ Finish(r) \/ Publish(r)
             \/ Other(r) \/ Crash(r)
       PROVE  turn'[q] = turn[q]
    BY <1>18, TurnOfOther
<1> QED
    BY <1>2, <1>3, <1>4, <1>5, <1>6, <1>7, <1>8, <1>9, <1>10, <1>11, <1>12, <1>14, <1>15, <1>16, <1>17, <1>18
    DEF Next

LEMMA LastAsked ==
    ASSUME TypeOK, NEW q \in Queues, Publish(q), turn[q].asked = 1
    PROVE  turn'[q].asked = 0
<1>1. turn' = [turn EXCEPT ![q] = NoTurn]
    BY DEF Publish, Exit, Order
<1> QED
    BY <1>1 DEF NoTurn, TypeOK

LEMMA PublicStep ==
    ASSUME ~SameTree, PublishWorkspace, Workspace \notin Unreachable,
           PublicInv, [Next]_vars
    PROVE  PublicInv'
<1>0. /\ JoinInv /\ TreeInv /\ TypeOK /\ JoinInv' /\ TypeOK'
      /\ Workspace \in Repos
    BY JoinStep DEF PublicInv, JoinInv, TreeInv, Repos
<1>1. /\ Len(remote[Workspace]) \in Nat /\ Len(remote'[Workspace]) \in Nat
      /\ Len(remote[Workspace]) <= Len(remote'[Workspace])
    BY <1>0, PushGrows
<1>2. ASSUME NEW q \in Queues PROVE Asked(q)'
  <2>1. Asked(q)
      BY DEF PublicInv
  <2>2. \A s \in {hist[RepoOf(q)], remote[RepoOf(q)]} : \A i \in RecordsOf(s) : s[i].names \in Nat
    <3>1. hist[RepoOf(q)] \in Seq(Commits) /\ remote[RepoOf(q)] \in Seq(Commits)
        BY <1>0, RepoOfType DEF TypeOK
    <3>2. \A c \in Commits : c.names \in Nat
        BY DEF Commits
    <3>3. ASSUME NEW s \in Seq(Commits), NEW i \in RecordsOf(s) PROVE s[i] \in Commits
        BY DEF RecordsOf
    <3> QED
        BY <3>1, <3>2, <3>3
  <2>3. turn[q].asked \in {0, 1}
      BY <1>0 DEF TypeOK, Turns
  <2>4. ASSUME turn'[q].asked = 1
        PROVE  /\ turn'[q].pc = "publish"
               /\ \A i \in Recorded(q)' : Entry(q, i)'.names <= Len(remote'[Workspace])
    <3>1. CASE turn[q].asked = 1
      <4>1. At(q, "publish") /\ \A i \in Recorded(q) : Entry(q, i).names <= Len(remote[Workspace])
          BY <2>1, <3>1 DEF Asked
      <4>2. ~Finish(q)
          BY <4>1 DEF Finish, At
      <4>3. SameRecords(q)
          BY <1>0, <4>2, RecordsStand
      <4>4. \A i \in Recorded(q) : Entry(q, i).names \in Nat
          BY <2>2 DEF Recorded, Entry
      <4>5. \A i \in Recorded(q)' : Entry(q, i)'.names <= Len(remote'[Workspace])
          BY <1>1, <4>1, <4>3, <4>4 DEF SameRecords, SameEntry
      <4>6. turn'[q].pc = "publish"
        <5>1. CASE Publish(q)
            BY <1>0, <2>4, <3>1, <5>1, LastAsked
        <5> QED
            BY <1>0, <2>4, <4>1, <5>1, AskedStands
      <4> QED
          BY <4>5, <4>6
    <3>2. CASE turn[q].asked = 0
      <4>1. Publish(q)
          BY <1>0, <2>4, <3>2, AskedStands
      <4>2. remote'[Workspace] = hist[Workspace] /\ turn'[q].pc = "publish"
          BY <1>0, <3>2, <4>1, PublishInOrder
      <4>3. ~Finish(q)
          BY <4>1 DEF Publish, Finish, At
      <4>4. SameRecords(q)
          BY <1>0, <4>3, RecordsStand
      <4>5. ASSUME NEW i \in Recorded(q) PROVE Entry(q, i).names <= Top(Workspace)
        <5>1. Entry(q, i).names \in Nat /\ Top(Workspace) \in Nat
            BY <1>0, <2>2 DEF Recorded, Entry, TypeOK, Repos, Top
        <5>2. Entry(q, i).names > 0 => Entry(q, i).names \in 1 .. Top(Workspace)
            BY <1>0 DEF JoinInv, Joined, Named
        <5> QED
            BY <5>1, <5>2
      <4> QED
          BY <4>2, <4>4, <4>5 DEF SameRecords, SameEntry, Top
    <3> QED
        BY <2>3, <3>1, <3>2
  <2>5. ASSUME NEW i \in RecordsOf(remote'[RepoOf(q)])
        PROVE  remote'[RepoOf(q)][i].names <= Len(remote'[Workspace])
    <3>1. CASE remote'[RepoOf(q)] = remote[RepoOf(q)]
        BY <1>1, <2>1, <2>2, <2>5, <3>1 DEF Asked
    <3>2. CASE turn[q].asked = 1 /\ remote'[RepoOf(q)] = hist[RepoOf(q)]
      <4>1. \A j \in RecordsOf(hist[RepoOf(q)]) : hist[RepoOf(q)][j].names <= Len(remote[Workspace])
          BY <2>1, <3>2 DEF Asked, Recorded, Entry
      <4> QED
          BY <1>1, <2>2, <2>5, <3>2, <4>1
    <3>3. remote'[RepoOf(q)] \in {remote[RepoOf(q)], hist[RepoOf(q)]}
        BY <1>0, PushGrows, RepoOfType
    <3> QED
        BY <1>0, <3>1, <3>2, <3>3, PublishInOrder
  <2>6. (\A i \in RecordsOf(remote[RepoOf(q)]) : remote[RepoOf(q)][i].names <= Len(remote[Workspace]))'
    <3>1. RepoOf(q)' = RepoOf(q)
        BY DEF RepoOf
    <3>2. (remote[RepoOf(q)])' = remote'[RepoOf(q)]
        BY DEF RepoOf
    <3> QED
        BY <2>5, <3>2 DEF RecordsOf, RepoOf
  <2> QED
      BY <2>4, <2>6 DEF Asked, At
<1> QED
    BY <1>0, <1>2 DEF PublicInv

LEMMA InitPublic == Init => PublicInv
<1> SUFFICES ASSUME Init PROVE PublicInv
    OBVIOUS
<1>1. ASSUME NEW q \in Queues PROVE Asked(q)
  <2>1. remote[RepoOf(q)] = <<>> /\ RecordsOf(<<>>) = {}
      BY RepoOfType DEF Init, RecordsOf
  <2>2. turn[q].asked = 0
      BY DEF Init, NoTurn
  <2> QED
      BY <2>1, <2>2 DEF Asked
<1> QED
    BY <1>1, InitJoin DEF PublicInv

\* A public record never names a commit that is not public, whichever turns were
\* killed between their commits and their pushes and whichever queues refused, as
\* long as the workspace's remote takes what it is offered (publish).
THEOREM PublicRecordsResolve ==
    ASSUME ~SameTree PROVE Spec => []PublishedRecordsNamePublicCommits
<1>1. CASE PublishWorkspace /\ Workspace \notin Unreachable
  <2>1. PublicInv /\ [Next]_vars => PublicInv'
      BY <1>1, PublicStep
  <2>2. PublicInv => PublishedRecordsNamePublicCommits
      BY DEF PublicInv, Asked, PublishedRecordsNamePublicCommits
  <2> QED
      BY InitPublic, <2>1, <2>2, PTL DEF Spec
<1>2. CASE ~(PublishWorkspace /\ Workspace \notin Unreachable)
  <2>1. PublishedRecordsNamePublicCommits
      BY <1>2 DEF PublishedRecordsNamePublicCommits
  <2> QED
      BY <2>1, PTL
<1> QED
    BY <1>1, <1>2

=============================================================================
