------------------------------ MODULE ItemTrail ------------------------------
(***************************************************************************)
(* One item's log.  append() (runtime/turn.py) folds the candidate log and *)
(* either keeps the line or leaves the file as it was.  At first there is  *)
(* one file, and beside it the view that TurnCycle keeps of it, updated by *)
(* Backlog's After operators: the two agree, so TurnCycle may use the view *)
(* where the code folds the file again.  Then the queue is cloned: each    *)
(* clone's writers append under their own clock, and git merges one file   *)
(* into the other, interleaving the lines and possibly repeating them      *)
(* (merge=union), which nothing under src/ prevents or repairs: the fold   *)
(* (protocol/eventlog.py) has to cope.                                     *)
(***************************************************************************)
EXTENDS ItemLog

CONSTANTS
    Vocabulary,     \* the events appended while there is one file
    ReturnTargets,  \* what blocks store in return_to, declared states or not
    Clones,
    Base,           \* the events behind which the queue is cloned
    Ends,           \* the events appended after that
    MaxEnds,        \* bound: lines appended in the clones, in all
    MaxLength       \* bound: lines in a file

\* What is written in the clones stores no return.
ASSUME TrailAssumption ==
    /\ Vocabulary \subseteq Events /\ Ends \subseteq Vocabulary \ {"blocked"}
    /\ IsFiniteSet(Clones) /\ Clones # {}
    /\ Base \in Seq(Vocabulary)
    /\ MaxEnds \in Nat /\ MaxLength \in Nat

VARIABLES
    log,     \* the lines of each clone's file, in file order
    cloned,  \* until then every clone's file is the one file
    view,    \* of the one file
    ends     \* lines appended since the cloning

vars == <<log, cloned, view, ends>>

Init == /\ log = [c \in Clones |-> <<>>] /\ cloned = FALSE
        /\ view = NoItem /\ ends = 0

-----------------------------------------------------------------------------
(* The one file.                                                           *)

Trail == log[CHOOSE c \in Clones : TRUE]

\* What a writer may put in a record of event e.
Bodies(e) ==
    CASE e = "claimed" -> {claims(Trail) + 1}
      [] e = "blocked" -> {[NoBlock EXCEPT !.kind = "item", !.ret = s] : s \in ReturnTargets}
      [] e = "failed" -> [recorded : {TRUE}, attempt : {claims(Trail)}, retryable : BOOLEAN]
      [] e = "snoozed" -> {1}
      [] e = "priority_set" -> {1, 2}
      [] OTHER -> {0}

Candidate(e, body) == Append(Trail, Line(Len(Trail) + 1, Len(Trail) + 1, e, body))

ViewAfter(e, body) ==
    CASE e = "claimed" -> AfterClaimed(view, view.claims + 1, body, 0)
      [] e = "blocked" -> AfterBlocked(view, body)
      [] e = "failed" -> AfterFailed(view, body.attempt, body.retryable)
      [] e = "snoozed" -> AfterSnoozed(view, body)
      [] e = "priority_set" -> AfterPrioritySet(view, body)
      [] OTHER -> After(view, e)

Folds(e, body) == StateOf(ITEM, Candidate(e, body)) # Unreadable

Grow(e, body) ==
    /\ ~cloned /\ Len(Trail) < MaxLength
    /\ Folds(e, body)
    /\ log' = [c \in Clones |-> Candidate(e, body)]
    /\ view' = ViewAfter(e, body)
    /\ UNCHANGED <<cloned, ends>>

-----------------------------------------------------------------------------
(* Two clones.                                                             *)

Clone == /\ ~cloned /\ [k \in DOMAIN Trail |-> Trail[k].event] = Base
         /\ cloned' = TRUE /\ view' = NoItem
         /\ UNCHANGED <<log, ends>>

\* append(): utc_now() is the clone's own clock, which runs after the base's
\* and is otherwise in step with nobody's; ids (uuid4) are unique.
Write(c, e, ts) ==
    LET candidate == Append(log[c], Line(Len(Base) + ends + 1, ts, e, 0)) IN
    /\ cloned /\ ends < MaxEnds /\ Len(log[c]) < MaxLength
    /\ StateOf(ITEM, candidate) # Unreadable
    /\ log' = [log EXCEPT ![c] = candidate]
    /\ ends' = ends + 1
    /\ UNCHANGED <<cloned, view>>

\* git merge: d's lines join c's somewhere behind the base, and a line both have
\* may be kept twice.
Missing(c, d) ==
    LET at == {k \in DOMAIN log[d] : \A j \in DOMAIN log[c] : log[c][j] # log[d][k]}
    IN [n \in 1 .. Cardinality(at) |->
           log[d][CHOOSE k \in at : Cardinality({j \in at : j < k}) = n - 1]]

\* The positions behind the base.
Since(c) == DOMAIN log[c] \ DOMAIN Base

Merge(c, d) ==
    /\ cloned /\ c # d
    /\ \E again \in {<<>>} \cup {<<log[c][k]>> : k \in Since(c)} :
       \E at \in {Len(Base)} \cup Since(c) :
          LET lines == again \o Missing(c, d)
          IN /\ Len(log[c]) + Len(lines) <= MaxLength
             /\ log' = [log EXCEPT ![c] = SubSeq(log[c], 1, at) \o lines
                                          \o SubSeq(log[c], at + 1, Len(log[c]))]
    /\ UNCHANGED <<cloned, view, ends>>

Clock == Len(Base) + 1 .. Len(Base) + MaxEnds

Next == \/ \E e \in Vocabulary : \E body \in Bodies(e) : Grow(e, body)
        \/ Clone
        \/ \E c \in Clones, e \in Ends, ts \in Clock : Write(c, e, ts)
        \/ \E c, d \in Clones : Merge(c, d)

Spec == Init /\ [][Next]_vars

-----------------------------------------------------------------------------
\* append() accepts an event exactly where the view's guard does, so that every
\* guard of TurnCycle is the fold's (eventlog._fold, backlog.ITEM).
AcceptsWhatFolds ==
    \A e \in Vocabulary : \A body \in Bodies(e) : Accepts(view, e) <=> Folds(e, body)

\* Every field of the view a reader can still ask for is what that reader finds
\* in the trail (backlog.lease, claims, awaiting, failure, scheduled_for,
\* priority; turn.eligible).  What a block returns to is asked by the fold alone.
ShowsWhatFolds ==
    Trail # <<>> =>
        LET records == Records(Trail)
            state == StateOf(ITEM, Trail)
        IN /\ view.state = state
           /\ view.claims = claims(records)
           /\ view.resumable = (state = "doing" /\ resumes(records))
           /\ state \in Leased => view.attempt = lease(records)
           /\ state = "blocked" => [view.block EXCEPT !.ret = awaiting(records).ret]
                                       = awaiting(records)
           /\ state \notin Terminal => /\ view.failure = failure(records)
                                      /\ view.wake = scheduled_for(records)
                                      /\ view.prio = priority(records)

\* TurnCycle reads a view where the code folds the file: the view takes the same
\* events and shows the same item, along every trail of an item's whole vocabulary.
ViewIsTheFold == ~cloned => AcceptsWhatFolds /\ ShowsWhatFolds

State(c) == StateOf(ITEM, log[c])
LinesOf(c) == {log[c][k].id : k \in DOMAIN log[c]}

\* Clones that hold the same lines read the same state, in whatever order and
\* however often the merges left them (backlog-item-format, "State survives a
\* merge that interleaves lines"; eventlog: order-insensitive).
SameLinesSameState ==
    \A c, d \in Clones : LinesOf(c) = LinesOf(d) => State(c) = State(d)

\* A merge may make a closed item's log fail the read, but no log that reads has
\* forgotten that one of its lines closed it (eventlog: loud).
ClosedStaysClosed ==
    [][\A c \in Clones : State(c) \in Terminal =>
           StateOf(ITEM, log'[c]) \in {State(c), Unreadable}]_vars

=============================================================================
