------------------------------ MODULE BoardInbox ------------------------------
(***************************************************************************)
(* The external board and the loop's process that mirrors the backlog onto *)
(* it and reads commands from it (board/github.py, inbox.py, projection.py,*)
(* and their two calls in runtime/loop.py).                                *)
(*                                                                         *)
(* Humans write to the board whenever they like, so reads of the board,    *)
(* changes to it and writes to disk are steps of their own (a thread is    *)
(* looked up and created in one, retitled and closed in one: no other      *)
(* process marks threads or closes them).  A command is an event: the      *)
(* opening of a thread without an item marker, or a comment on a thread    *)
(* with one.  Threads and comments are numbered in the order of creation,  *)
(* and an event is the number of the thread or comment it is.  Only        *)
(* comments that parse as a command are modelled.                          *)
(***************************************************************************)
EXTENDS Backlog, FiniteSets, FiniteSetsExt

CONSTANTS
    Threads,      \* issue numbers, 1 .. n
    Comments,     \* comment numbers, above those
    Items,        \* item ids, in the order they are allocated
    Commands,     \* what comments ask for
    Authors,      \* who writes: "allowed" or "stranger"
    Trees,        \* may the queue lie in the workspace's tree? a set of answers
    \* Bounds on the instance:
    MaxOpened,    \* threads opened by humans
    MaxDamage,    \* threads deleted, or markers erased from a body, by humans
    MaxPlanned,   \* items created by turns
    MaxClock,     \* of the board's clock
    MaxFaults     \* processes killed, or API calls that fail, at any point

None == 0
ConsumedLog == 0    \* the one file beside the items' and questions' logs
CommandEvents == Threads \cup Comments

ASSUME BoardAssumption ==
    /\ Threads \subseteq Nat \ {None} /\ IsFiniteSet(Threads)
    /\ Comments \subseteq Nat \ {None} /\ IsFiniteSet(Comments)
    /\ \A t \in Threads, c \in Comments : t < c
    /\ Items \subseteq Nat \ {None} /\ IsFiniteSet(Items)
    /\ Commands \subseteq {"set_priority", "cancel", "answer"}
    /\ Authors \subseteq {"allowed", "stranger"}
    /\ Trees \subseteq BOOLEAN
    /\ {MaxOpened, MaxDamage, MaxPlanned, MaxClock, MaxFaults} \subseteq Nat

VARIABLES
    clock,        \* the board's clock, one step per second
    thread,       \* the board's issues
    comment,      \* the comments on them
    item,         \* the state of each item's log
    asking,       \* blocked items whose question is still awaiting
    applied,      \* lines the logs hold from each event
    consumed,     \* rows the consumed-log holds for each event
    replied,      \* events a rejection was posted for
    uncommitted,  \* items whose log, or its question's, is not in a commit; the consumed-log
    pass,         \* what the process holds in memory
    shared,       \* Places.local/nested: the queue lies in the workspace
    damage,       \* human deletions and erasures so far
    faults,
    \* History of the processes that ended early:
    torn,         \* how many did between an event's line and its row
    muted,        \* events of which one did between the rejection's row and its reply
    abandoned     \* what the last of them left uncommitted, as far as it still is

vars == <<clock, thread, comment, item, asking, applied, consumed, replied,
          uncommitted, pass, shared, damage, faults, torn, muted, abandoned>>

board == <<clock, thread, comment>>
git == <<item, asking, applied, consumed, uncommitted>>
history == <<torn, muted, abandoned>>
aside == <<shared, damage, faults, history>>

-----------------------------------------------------------------------------
NoThread == [status |-> "none", ts |-> 0, by |-> "nobody", marker |-> None,
             shown |-> Absent]
NoComment == [thread |-> None, ts |-> 0, by |-> "nobody", command |-> "none"]

Used(t) == thread[t].status # "none"
Live(t) == thread[t].status \in {"open", "closed"}
NextThread(t) == ~Used(t) /\ \A u \in Threads : u < t => Used(u)
NextComment(c) == /\ comment[c].thread = None
                  /\ \A d \in Comments : d < c => comment[d].thread # None
NextItem(i) == item[i] = Absent /\ \A j \in Items : j < i => item[j] # Absent

Ts(e) == IF e \in Threads THEN thread[e].ts ELSE comment[e].ts
Author(e) == IF e \in Threads THEN thread[e].by ELSE comment[e].by
ThreadOf(e) == IF e \in Threads THEN e ELSE comment[e].thread

\* _load_consumed: the offset is the latest board time among the recorded rows.
Consumed == {e \in CommandEvents : consumed[e] > 0}
Since == Max({0} \cup {Ts(e) : e \in Consumed})

\* list_events: oldest first; the sort keeps the listing's order, in which the
\* newest thread comes first and comments are in the order they were posted.
Earlier(d, e) == \/ Ts(d) < Ts(e)
                 \/ /\ Ts(d) = Ts(e)
                    /\ \/ ThreadOf(d) > ThreadOf(e)
                       \/ ThreadOf(d) = ThreadOf(e) /\ d < e

NoPass == [pc |-> "idle", marked |-> {}, unread |-> {}, pending |-> {},
           event |-> None, item |-> None, rejected |-> FALSE, todo |-> {}]

\* run_loop projects the queue's state before it does anything else, if it starts.
Restarted == [NoPass EXCEPT !.pc = "open", !.todo = {i \in Items : item[i] # Absent}]

At(p) == pass.pc = p

Init ==
    /\ clock = 1
    /\ thread = [t \in Threads |-> NoThread]
    /\ comment = [c \in Comments |-> NoComment]
    /\ item = [i \in Items |-> Absent] /\ asking = {}
    /\ applied = [e \in CommandEvents |-> 0]
    /\ consumed = [e \in CommandEvents |-> 0]
    /\ replied = {} /\ uncommitted = {}
    /\ pass = [NoPass EXCEPT !.pc = "open"]
    /\ shared \in Trees
    /\ damage = 0 /\ faults = 0
    /\ torn = [e \in CommandEvents |-> 0] /\ muted = {} /\ abandoned = {}

(***************************************************************************)
(* Humans.  They number their own threads together with the factory's.     *)
(***************************************************************************)
OpensThread(t, who) ==
    /\ NextThread(t)
    /\ Cardinality({u \in Threads : thread[u].by \in Authors}) < MaxOpened
    /\ thread' = [thread EXCEPT ![t] = [NoThread EXCEPT !.status = "open",
                                                        !.ts = clock, !.by = who]]
    /\ UNCHANGED <<clock, comment, git, replied, pass, aside>>

PostsComment(c, t, command, who) ==
    /\ NextComment(c) /\ Live(t)
    /\ comment' = [comment EXCEPT ![c] = [thread |-> t, ts |-> clock, by |-> who,
                                          command |-> command]]
    /\ UNCHANGED <<clock, thread, git, replied, pass, aside>>

\* Deletes the issue, or rewrites its body without the marker line.
Damages(t) ==
    /\ Live(t) /\ damage < MaxDamage
    /\ \/ thread' = [thread EXCEPT ![t].status = "deleted"]
       \/ thread[t].marker # None /\ thread' = [thread EXCEPT ![t].marker = None]
    /\ damage' = damage + 1
    /\ UNCHANGED <<clock, comment, git, replied, pass, shared, faults, history>>

Second == /\ clock < MaxClock
          /\ clock' = clock + 1
          /\ UNCHANGED <<thread, comment, git, replied, pass, aside>>

Humans == \/ \E t \in Threads :
                \/ Damages(t)
                \/ \E who \in Authors :
                      \/ OpensThread(t, who)
                      \/ \E c \in Comments, command \in Commands :
                            PostsComment(c, t, command, who)
          \/ Second

(***************************************************************************)
(* A turn, seen from the board: it moves one item or plans one, asks a     *)
(* question with a block, and commits all it wrote.                        *)
(***************************************************************************)
Turn ==
    /\ At("idle")
    /\ \/ UNCHANGED <<item, asking>>
       \/ \E i \in Items :
             \/ /\ item[i] \in NonTerminal
                /\ \E s \in {"ready", "blocked", "done"} :
                      /\ item' = [item EXCEPT ![i] = s]
                      /\ asking' = IF s = "blocked" THEN asking \cup {i} ELSE asking \ {i}
             \/ /\ NextItem(i)
                /\ Cardinality({j \in Items : item[j] # Absent}) < MaxPlanned
                /\ item' = [item EXCEPT ![i] = "ready"]
                /\ UNCHANGED asking
    /\ pass' = [NoPass EXCEPT !.pc = "open", !.todo = {i \in Items : item'[i] # Absent}]
    /\ UNCHANGED <<board, applied, consumed, replied, uncommitted, aside>>

(***************************************************************************)
(* project_all: for every item, open() its thread (find it by its marker,  *)
(* or create it), then project() and, for a closed item, close().          *)
(***************************************************************************)
Foremost == Min(pass.todo)
Carrying(i) == {t \in Threads : Live(t) /\ thread[t].marker = i}

\* Mutant: the board is not searched; the thread is always created.
OpenAlways ==
    LET i == Foremost IN
    /\ At("open") /\ pass.todo # {}
    /\ \E t \in Threads :
          /\ NextThread(t)
          /\ thread' = [thread EXCEPT ![t] = [status |-> "open", ts |-> clock,
                            by |-> "factory", marker |-> i, shown |-> item[i]]]
          /\ pass' = [pass EXCEPT !.pc = "show", !.item = t]
    /\ UNCHANGED <<clock, comment, git, replied, aside>>

Open ==
    LET i == Foremost IN
    /\ At("open") /\ pass.todo # {}
    /\ \E t \in Threads :
          /\ \/ t \in Carrying(i) /\ UNCHANGED thread
             \/ /\ Carrying(i) = {} /\ NextThread(t)
                /\ thread' = [thread EXCEPT ![t] = [status |-> "open", ts |-> clock,
                                  by |-> "factory", marker |-> i, shown |-> item[i]]]
          /\ pass' = [pass EXCEPT !.pc = "show", !.item = t]
    /\ UNCHANGED <<clock, comment, git, replied, aside>>

\* project(): the title is rendered afresh, the body touched only to put a
\* missing marker back.
Retitled(r, i) == [r EXCEPT !.marker = IF @ = None THEN i ELSE @, !.shown = item[i]]

\* Mutant: the title is written once, when the thread is opened.
ShowNothing ==
    LET i == Foremost  t == pass.item IN
    /\ At("show") /\ Live(t)
    /\ thread' = [thread EXCEPT ![t].status = IF item[i] \in Terminal THEN "closed" ELSE @]
    /\ pass' = [pass EXCEPT !.pc = "open", !.todo = @ \ {i}, !.item = None]
    /\ UNCHANGED <<clock, comment, git, replied, aside>>

Show ==
    LET i == Foremost  t == pass.item IN
    /\ At("show") /\ Live(t)
    /\ thread' = [thread EXCEPT ![t] = [Retitled(thread[t], i) EXCEPT
                      !.status = IF item[i] \in Terminal THEN "closed" ELSE @]]
    /\ pass' = [pass EXCEPT !.pc = "open", !.todo = @ \ {i}, !.item = None]
    /\ UNCHANGED <<clock, comment, git, replied, aside>>

EndProjection == /\ At("open") /\ pass.todo = {}
                 /\ pass' = NoPass
                 /\ UNCHANGED <<board, git, replied, aside>>

(***************************************************************************)
(* list_events: one call for the issues, then one per marked issue for its *)
(* comments.  The marker an event is dispatched by is the one listed.      *)
(***************************************************************************)
\* Mutant: the offset is applied to the issues, too.
ListNewIssues ==
    /\ At("idle")
    /\ LET listed == {t \in Threads : Live(t)}
           marked == {t \in listed : thread[t].marker # None}
       IN pass' = [NoPass EXCEPT !.pc = "read", !.unread = marked,
                       !.marked = {<<t, thread[t].marker>> : t \in marked},
                       !.pending = {t \in listed \ marked : Ts(t) > Since}]
    /\ UNCHANGED <<board, git, replied, aside>>

ListIssues ==
    /\ At("idle")
    /\ LET listed == {t \in Threads : Live(t)}
           marked == {t \in listed : thread[t].marker # None}
       IN pass' = [NoPass EXCEPT !.pc = "read", !.unread = marked,
                       !.marked = {<<t, thread[t].marker>> : t \in marked},
                       !.pending = listed \ marked]
    /\ UNCHANGED <<board, git, replied, aside>>

NewComments(t) == {c \in Comments : comment[c].thread = t /\ comment[c].ts > Since}

ReadComments ==
    /\ At("read") /\ pass.unread # {}
    /\ LET t == Max(pass.unread) IN
          /\ Live(t)
          /\ pass' = [pass EXCEPT !.unread = @ \ {t}, !.pending = @ \cup NewComments(t)]
    /\ UNCHANGED <<board, git, replied, aside>>

EndList == /\ At("read") /\ pass.unread = {}
           /\ pass' = [pass EXCEPT !.pc = "apply"]
           /\ UNCHANGED <<board, git, replied, aside>>

(***************************************************************************)
(* ingest: the events one by one.                                          *)
(***************************************************************************)
Pending(e) == /\ At("apply") /\ e \in pass.pending
              /\ \A d \in pass.pending \ {e} : Earlier(e, d)

\* Mutant: the consumed-log is not asked.
AdmittedAnyway(e) == Author(e) # "stranger"

\* Not yet recorded, and from an allowed author.  The factory's own threads are
\* an allowed author's: the bot and the operator may share one account.
Admitted(e) == e \notin Consumed /\ Author(e) # "stranger"

Skip(e) == /\ Pending(e) /\ ~Admitted(e)
           /\ pass' = [pass EXCEPT !.pending = @ \ {e}]
           /\ UNCHANGED <<board, git, replied, aside>>

\* What the command is dispatched on: the marker of the listing.
Addressed(e) == CHOOSE i \in Items : <<ThreadOf(e), i>> \in pass.marked

Legal(e, i) == CASE comment[e].command = "set_priority" -> item[i] \in From["priority_set"]
                 [] comment[e].command = "cancel" -> item[i] \in From["cancelled"]
                 [] comment[e].command = "answer" -> item[i] = "blocked" /\ i \in asking

\* A line from event e is on disk, in the log of item i or of its question.
Written(e, i) == /\ applied' = [applied EXCEPT ![e] = @ + 1]
                 /\ uncommitted' = uncommitted \cup {i}
                 /\ UNCHANGED consumed

\* The first line of a new log, its frame filled in: append() has no reason to
\* refuse it, and the handler for that case is never entered.
ApplyCreate(e, i) ==
    /\ Pending(e) /\ Admitted(e) /\ e \in Threads
    /\ NextItem(i)
    /\ item' = [item EXCEPT ![i] = "ready"] /\ UNCHANGED asking
    /\ Written(e, i)
    /\ pass' = [pass EXCEPT !.pc = "imprint", !.event = e, !.item = i]
    /\ UNCHANGED <<board, replied, aside>>

Imprint ==
    /\ At("imprint") /\ Live(pass.event)
    /\ thread' = [thread EXCEPT ![pass.event] = Retitled(@, pass.item)]
    /\ pass' = [pass EXCEPT !.pc = "record"]
    /\ UNCHANGED <<clock, comment, git, replied, aside>>

ApplyCommand(e) ==
    LET i == Addressed(e) IN
    /\ Pending(e) /\ Admitted(e) /\ e \in Comments
    /\ Legal(e, i)
    /\ item' = [item EXCEPT ![i] = IF comment[e].command = "cancel" THEN "cancelled" ELSE @]
    /\ asking' = IF comment[e].command = "set_priority" THEN asking ELSE asking \ {i}
    /\ Written(e, i)
    /\ pass' = [pass EXCEPT !.pc = "record", !.event = e, !.item = i]
    /\ UNCHANGED <<board, replied, aside>>

\* LookupError, or a LogError from the fold.
RejectCommand(e) ==
    /\ Pending(e) /\ Admitted(e) /\ e \in Comments
    /\ ~Legal(e, Addressed(e))
    /\ pass' = [pass EXCEPT !.pc = "record", !.event = e, !.rejected = TRUE]
    /\ UNCHANGED <<board, git, replied, aside>>

\* Mutant: only rejections are recorded.
RecordRejected == /\ At("record")
                  /\ consumed' = [consumed EXCEPT ![pass.event] =
                                     IF pass.rejected THEN @ + 1 ELSE @]
                  /\ uncommitted' = uncommitted \cup {ConsumedLog}
                  /\ pass' = [pass EXCEPT !.pc = "commit"]
                  /\ UNCHANGED <<board, item, asking, applied, replied, aside>>

Record == /\ At("record")
          /\ consumed' = [consumed EXCEPT ![pass.event] = @ + 1]
          /\ uncommitted' = uncommitted \cup {ConsumedLog}
          /\ pass' = [pass EXCEPT !.pc = "commit"]
          /\ UNCHANGED <<board, item, asking, applied, replied, aside>>

\* The event is dealt with.
Done == [pass EXCEPT !.pc = "apply", !.pending = @ \ {pass.event}, !.event = None,
                     !.item = None, !.rejected = FALSE]

\* Mutant: only the consumed-log is named in the commit.
CommitLogOnly == /\ At("commit")
                 /\ uncommitted' = uncommitted \ {ConsumedLog}
                 /\ abandoned' = abandoned \ {ConsumedLog}
                 /\ pass' = IF pass.rejected THEN [pass EXCEPT !.pc = "reply"] ELSE Done
                 /\ UNCHANGED <<board, item, asking, applied, consumed, replied,
                                shared, damage, faults, torn, muted>>

CommitEvent == /\ At("commit")
               /\ uncommitted' = uncommitted \ {pass.item, ConsumedLog}
               /\ abandoned' = abandoned \ {pass.item, ConsumedLog}
               /\ pass' = IF pass.rejected THEN [pass EXCEPT !.pc = "reply"] ELSE Done
               /\ UNCHANGED <<board, item, asking, applied, consumed, replied,
                              shared, damage, faults, torn, muted>>

\* Mutant: the rejection is not posted.
ReplyNothing == /\ At("reply")
                /\ pass' = Done
                /\ UNCHANGED <<board, git, replied, aside>>

Reply == /\ At("reply") /\ Live(ThreadOf(pass.event))
         /\ replied' = replied \cup {pass.event}
         /\ pass' = Done
         /\ UNCHANGED <<board, git, aside>>

EndIngest == /\ At("apply") /\ pass.pending = {}
             /\ pass' = NoPass
             /\ UNCHANGED <<board, git, replied, aside>>

(***************************************************************************)
(* A BoardError leaves ingest and run_loop alike.  What is on disk stays.  *)
(* The process that is started next begins with a projection, unless it    *)
(* finds the workspace dirty: then every start is refused until a person   *)
(* has committed what is there.                                            *)
(***************************************************************************)
HalfApplied == At("imprint") \/ (At("record") /\ ~pass.rejected)
HalfRejected == (At("commit") \/ At("reply")) /\ pass.rejected

EndsEarly ==
    /\ pass' = IF shared /\ uncommitted # {} THEN [NoPass EXCEPT !.pc = "refused"]
               ELSE Restarted
    /\ torn' = IF HalfApplied THEN [torn EXCEPT ![pass.event] = @ + 1] ELSE torn
    /\ muted' = IF HalfRejected THEN muted \cup {pass.event} ELSE muted
    /\ abandoned' = uncommitted
    /\ UNCHANGED <<board, git, replied, shared, damage>>

\* The call names a thread that has been deleted since it was listed.
GoneThread == \/ At("show") /\ ~Live(pass.item)
              \/ At("read") /\ pass.unread # {} /\ ~Live(Max(pass.unread))
              \/ At("imprint") /\ ~Live(pass.event)
              \/ At("reply") /\ ~Live(ThreadOf(pass.event))

Raise == GoneThread /\ EndsEarly /\ UNCHANGED faults

Fault == /\ pass.pc \notin {"idle", "refused"} /\ faults < MaxFaults
         /\ faults' = faults + 1
         /\ EndsEarly

CleanUp == /\ At("refused")
           /\ uncommitted' = {} /\ abandoned' = {}
           /\ pass' = Restarted
           /\ UNCHANGED <<board, item, asking, applied, consumed, replied,
                          shared, damage, faults, torn, muted>>

Ingest == \/ ReadComments \/ EndList
          \/ \E e \in CommandEvents :
                \/ Skip(e) \/ ApplyCommand(e) \/ RejectCommand(e)
                \/ \E i \in Items : ApplyCreate(e, i)
          \/ Imprint \/ Record \/ CommitEvent \/ Reply \/ EndIngest

Loop == Open \/ Show \/ EndProjection \/ Ingest \/ Raise

Next == Humans \/ Turn \/ ListIssues \/ Loop \/ Fault \/ CleanUp

Spec == Init /\ [][Next]_vars

(***************************************************************************)
(* The process goes on with what it has begun, and between two such passes *)
(* neither the poll nor the turn waits for ever: board.poll_seconds and    *)
(* wake.heartbeat_seconds are finite.  Humans and faults owe nothing, and  *)
(* nobody has to clean up.                                                 *)
(***************************************************************************)
Fairness == WF_vars(Loop) /\ SF_vars(ListIssues) /\ SF_vars(Turn)

FairSpec == Spec /\ Fairness
-----------------------------------------------------------------------------
PCs == {"idle", "open", "show", "read", "apply", "imprint", "record", "commit", "reply",
       "refused"}

ThreadRecords == [status : {"none", "open", "closed", "deleted"}, ts : Nat,
                  by : Authors \cup {"factory", "nobody"},
                  marker : Items \cup {None}, shown : States \cup {Absent}]
CommentRecords == [thread : Threads \cup {None}, ts : Nat,
                   by : Authors \cup {"nobody"}, command : Commands \cup {"none"}]
Passes == [pc : PCs, marked : SUBSET (Threads \X Items), unread : SUBSET Threads,
           pending : SUBSET CommandEvents, event : CommandEvents \cup {None},
           item : Items \cup Threads \cup {None}, rejected : BOOLEAN, todo : SUBSET Items]

\* Every variable has its type, and the process holds an event exactly while it
\* is dealing with one.
TypeOK ==
    /\ clock \in Nat
    /\ thread \in [Threads -> ThreadRecords] /\ comment \in [Comments -> CommentRecords]
    /\ item \in [Items -> States \cup {Absent}] /\ asking \subseteq Items
    /\ applied \in [CommandEvents -> Nat] /\ consumed \in [CommandEvents -> Nat]
    /\ replied \subseteq CommandEvents /\ uncommitted \subseteq Items \cup {ConsumedLog}
    /\ pass \in Passes
    /\ pass.event # None <=> pass.pc \in {"imprint", "record", "commit", "reply"}
    /\ shared \in BOOLEAN /\ damage \in Nat /\ faults \in Nat
    /\ torn \in [CommandEvents -> Nat] /\ muted \subseteq CommandEvents
    /\ abandoned \subseteq Items \cup {ConsumedLog}

\* An event is applied once, and once more for every process that died, or raised,
\* between its line and its row in the consumed-log ("the target log gains exactly
\* one new line from that event, not two", board-projection/inbox, holds of the rest).
AppliedOnce == \A e \in CommandEvents : applied[e] <= 1 + torn[e]

\* An event the log records as consumed is never applied or recorded again,
\* however often processes die, bodies are rewritten and threads listed.
ConsumedIsFinal ==
    [][\A e \in CommandEvents : consumed[e] > 0
           => applied'[e] = applied[e] /\ consumed'[e] = consumed[e]]_vars

\* Once ingest is over, a consumed command has landed or its author was told why
\* not, unless a process died, or the post failed, between the rejection's row and
\* its reply ("A rejected command is visible on the board, never silent").
NeverSilent == At("idle") =>
    \A e \in Consumed : applied[e] > 0 \/ e \in replied \/ e \in muted

\* Once ingest is over, all it wrote is in a commit, whatever it made of each event:
\* only what a process left that died is not, and in a shared tree not even that
\* ("a command's effect is committed to git, not left in the working tree").
EffectsAreCommitted == At("idle") =>
    /\ uncommitted \subseteq abandoned
    /\ shared => uncommitted = {}

\* No item has two threads, whoever opened them, and whatever was deleted, erased
\* or retried in between (GitHubIssuesAdapter.open).
OneThreadPerItem ==
    \A s, t \in Threads : Live(s) /\ Live(t) /\ thread[s].marker # None
        /\ thread[s].marker = thread[t].marker => s = t

\* Every item has a thread that shows its state, closed if the item is.
BoardShowsTheItems ==
    \A i \in Items : item[i] # Absent =>
        \E t \in Carrying(i) : /\ thread[t].shown = item[i]
                               /\ item[i] \in Terminal => thread[t].status = "closed"

\* Once humans leave the board alone, whatever they deleted or erased comes back
\* ("Projection is re-derivable from git alone", project_all), unless a process left
\* a log uncommitted in a shared tree, and the loop refuses to start on it.
TheBoardCatchesUp ==
    <>[][~Humans]_vars => []<>(BoardShowsTheItems \/ (At("refused") /\ shared /\ abandoned # {}))

\* An allowed author's issue becomes an item, or is already one's, unless it is
\* deleted or the loop refuses to start: no cursor and no other command passes it
\* over (list_events).
IssuesBecomeItems ==
    \A t \in Threads : (Live(t) /\ thread[t].by = "allowed")
        ~> (~Live(t) \/ applied[t] > 0 \/ thread[t].marker # None \/ At("refused"))

\* An allowed author's command is consumed, unless its thread is gone ("every
\* command Denis sends from it either lands or tells him why it did not").
CommandsAreConsumed ==
    \A c \in Comments, t \in Threads : (comment[c].thread = t /\ comment[c].by = "allowed")
        ~> (consumed[c] > 0 \/ ~Live(t))

=============================================================================
