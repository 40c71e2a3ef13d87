--------------------------- MODULE BoardInboxProofs ---------------------------
(***************************************************************************)
(* Theorems about BoardInbox, for any number of threads, comments, items   *)
(* and deletions, and any faults: no item gets a second thread; what is    *)
(* consumed stays so; and a command is applied once, committed, and        *)
(* answered if rejected, but for what a process that ended left undone.    *)
(***************************************************************************)
EXTENDS BoardInbox, FiniteSetTheorems, TLAPS

-----------------------------------------------------------------------------
(* The least and the greatest number of a set.                             *)

LEMMA LeastExists ==
    ASSUME NEW S, S \subseteq Nat, S # {}
    PROVE  \E x \in S : \A y \in S : x <= y
<1> DEFINE R == OpToRel(<, Nat)
<1>1. PICK x \in S : \A y \in S : ~(<<y, x>> \in R)
    BY NatLessThanWellFounded, WFMin
<1>2. ASSUME NEW y \in S PROVE ~(y < x)
  <2>1. y < x => <<y, x>> \in R
      BY DEF OpToRel
  <2> QED
      BY <1>1, <2>1
<1> HIDE DEF R
<1> QED
    BY <1>2

LEMMA MinInSet ==
    ASSUME NEW S, S \subseteq Nat, S # {}
    PROVE  Min(S) \in S
    BY LeastExists DEF Min

\* The greatest is the one with the fewest numbers from it upwards.
LEMMA MaxInSet ==
    ASSUME NEW S, S \subseteq Nat, S # {}, IsFiniteSet(S)
    PROVE  Max(S) \in S
<1> DEFINE Up(x) == {y \in S : y >= x}
           Sizes == {Cardinality(Up(x)) : x \in S}
<1>1. \A x \in S : IsFiniteSet(Up(x)) /\ Cardinality(Up(x)) \in Nat
    BY FS_Subset, FS_CardinalityType
<1>2. Sizes \subseteq Nat /\ Sizes # {}
    BY <1>1
<1>3. PICK x \in S : \A y \in S : Cardinality(Up(x)) <= Cardinality(Up(y))
  <2>1. PICK n \in Sizes : \A m \in Sizes : n <= m
      BY <1>2, LeastExists
  <2> QED
      BY <2>1
<1>4. ASSUME NEW y \in S, y > x PROVE FALSE
  <2>1. Up(y) \in SUBSET Up(x) /\ x \in Up(x) \ Up(y)
    <3>1. x \in Nat /\ y \in Nat /\ x >= x /\ ~(x >= y)
        BY <1>4
    <3>2. ASSUME NEW z \in S, z >= y PROVE z >= x
        BY <1>4, <3>2
    <3> QED
        BY <3>1, <3>2, Zenon
  <2>2. Cardinality(Up(y)) <= Cardinality(Up(x)) /\ Cardinality(Up(y)) # Cardinality(Up(x))
    <3> HIDE DEF Up
    <3>1. IsFiniteSet(Up(x)) /\ Up(x) # Up(y)
        BY <1>1, <2>1
    <3> QED
        BY <2>1, <3>1, FS_Subset
  <2> QED
      BY <1>1, <1>3, <2>2
<1>5. \A y \in S : x >= y
    BY <1>4
<1> QED
    BY <1>5 DEF Max

-----------------------------------------------------------------------------
(* The invariant.                                                          *)

\* What the process holds at each step of a projection or of an event.
Targets ==
    /\ At("show") => pass.item \in Threads /\ pass.todo # {}
    /\ At("imprint") => pass.event \in Threads
    /\ pass.rejected => pass.pc \in {"record", "commit", "reply"}
    /\ pass.pc \in {"imprint", "record", "commit"} /\ ~pass.rejected => pass.item \in Items

\* What is read and applied belongs to a thread that was listed with its marker.
ListedMarkers ==
    /\ \A t \in pass.unread : \E i \in Items : <<t, i>> \in pass.marked
    /\ \A e \in pass.pending \cap Comments :
          \E i \in Items : <<comment[e].thread, i>> \in pass.marked

\* Only items have markers, and only items are projected.
OnlyItemsShow ==
    /\ \A i \in pass.todo : item[i] # Absent
    /\ \A t \in Threads : Live(t) /\ thread[t].marker # None => item[thread[t].marker] # Absent

\* The thread in hand is the only one that carries, or is to carry, its item.
InHandAlone ==
    /\ At("show") => \A u \in Threads : Live(u) /\ thread[u].marker = Foremost => u = pass.item
    /\ At("imprint") =>
          /\ item[pass.item] # Absent
          /\ \A u \in Threads : Live(u) /\ thread[u].marker = pass.item => u = pass.event

\* An event is dealt with only while no row of the consumed-log has it.
NotYetConsumed == pass.pc \in {"imprint", "record"} => consumed[pass.event] = 0

IInv == TypeOK /\ Targets /\ ListedMarkers /\ OnlyItemsShow /\ InHandAlone
        /\ OneThreadPerItem /\ NotYetConsumed

LEMMA Foremosts == ASSUME TypeOK, pass.todo # {} PROVE Foremost \in pass.todo /\ Foremost \in Items
    BY MinInSet, BoardAssumption DEF Foremost, TypeOK, Passes

LEMMA NoThreadIsComment == \A t \in Threads, c \in Comments : t # c
<1> TAKE t \in Threads, c \in Comments
<1>1. t \in Nat /\ t < c
    BY BoardAssumption
<1> QED
    BY <1>1

LEMMA Addressee ==
    ASSUME TypeOK, ListedMarkers, NEW e \in pass.pending \cap Comments
    PROVE  Addressed(e) \in Items
<1>1. e \notin Threads
    BY NoThreadIsComment
<1>2. \E i \in Items : <<ThreadOf(e), i>> \in pass.marked
    BY <1>1 DEF ListedMarkers, ThreadOf
<1> QED
    BY <1>2, Zenon DEF Addressed

LEMMA InitInv == Init => IInv
<1> SUFFICES ASSUME Init PROVE IInv
    OBVIOUS
<1>1. TypeOK
  <2>1. NoThread \in ThreadRecords /\ NoComment \in CommentRecords
      BY DEF NoThread, NoComment, ThreadRecords, CommentRecords, None
  <2>2. [NoPass EXCEPT !.pc = "open"] \in Passes
      BY DEF NoPass, Passes, PCs, None
  <2> QED
      BY <2>1, <2>2, BoardAssumption DEF Init, TypeOK, NoPass
<1>2. \A t \in Threads : ~Live(t)
    BY DEF Init, Live, NoThread
<1> QED
    BY <1>1, <1>2
    DEF Init, IInv, NoPass, Targets, ListedMarkers, OnlyItemsShow, InHandAlone,
        OneThreadPerItem, NotYetConsumed, At

LEMMA PassTypes ==
    /\ NoPass \in Passes /\ Restarted \in Passes /\ [NoPass EXCEPT !.pc = "refused"] \in Passes
    /\ NoPass.event = None /\ Restarted.event = None /\ [NoPass EXCEPT !.pc = "refused"].event = None
    /\ NoPass.pc = "idle" /\ Restarted.pc = "open" /\ [NoPass EXCEPT !.pc = "refused"].pc = "refused"
    BY DEF NoPass, Restarted, Passes, PCs, None

LEMMA PassUpdates ==
    ASSUME NEW p \in Passes, NEW pc \in PCs, NEW x \in SUBSET CommandEvents,
           NEW u \in SUBSET Threads, NEW e \in CommandEvents \cup {None},
           NEW i \in Items \cup Threads \cup {None}, NEW r \in BOOLEAN, NEW todo \in SUBSET Items
    PROVE  /\ [p EXCEPT !.pc = pc] \in Passes
           /\ [p EXCEPT !.pending = x] \in Passes
           /\ [p EXCEPT !.unread = u, !.pending = x] \in Passes
           /\ [p EXCEPT !.pc = pc, !.item = i] \in Passes
           /\ [p EXCEPT !.pc = pc, !.todo = todo, !.item = i] \in Passes
           /\ [p EXCEPT !.pc = pc, !.event = e, !.item = i] \in Passes
           /\ [p EXCEPT !.pc = pc, !.event = e, !.rejected = r] \in Passes
           /\ [p EXCEPT !.pc = pc, !.pending = x, !.event = e, !.item = i, !.rejected = r] \in Passes
    BY DEF Passes

LEMMA PassFields ==
    ASSUME NEW p \in Passes
    PROVE  /\ p.pc \in PCs /\ p.unread \in SUBSET Threads /\ p.pending \in SUBSET CommandEvents
           /\ p.event \in CommandEvents \cup {None} /\ p.todo \in SUBSET Items
           /\ p.rejected \in BOOLEAN /\ p.marked \in SUBSET (Threads \X Items)
           /\ p.item \in Items \cup Threads \cup {None}
    BY DEF Passes

LEMMA DoneType == ASSUME pass \in Passes
                  PROVE Done \in Passes /\ Done.event = None /\ Done.pc = "apply"
<1>1. pass.pending \ {pass.event} \in SUBSET CommandEvents
    BY PassFields
<1>2. Done \in Passes
    BY <1>1, PassUpdates DEF Done, PCs
<1> QED
    BY <1>2 DEF Done, Passes

\* A thread or the process gets a record of its type.
LEMMA ThreadType ==
    ASSUME TypeOK, NEW t \in Threads, NEW r \in ThreadRecords, thread' = [thread EXCEPT ![t] = r],
           UNCHANGED <<clock, comment, git, replied, aside>>, pass' \in Passes,
           pass'.event # None <=> pass'.pc \in {"imprint", "record", "commit", "reply"}
    PROVE  TypeOK'
    BY DEF TypeOK, git, aside, history

LEMMA PassType ==
    ASSUME TypeOK, UNCHANGED <<board, git, replied, shared, damage>>, faults' \in Nat,
           torn' \in [CommandEvents -> Nat], muted' \subseteq CommandEvents,
           abandoned' \subseteq Items \cup {ConsumedLog}, pass' \in Passes,
           pass'.event # None <=> pass'.pc \in {"imprint", "record", "commit", "reply"}
    PROVE  TypeOK'
    BY DEF TypeOK, board, git

LEMMA RetitledType ==
    ASSUME TypeOK, NEW t \in Threads, NEW i \in Items
    PROVE  /\ Retitled(thread[t], i) \in ThreadRecords
           /\ [Retitled(thread[t], i) EXCEPT
                  !.status = IF item[i] \in Terminal THEN "closed" ELSE @] \in ThreadRecords
<1>1. thread[t] \in ThreadRecords /\ item[i] \in States \cup {Absent}
    BY DEF TypeOK
<1>2. Retitled(thread[t], i) \in ThreadRecords
    BY <1>1 DEF Retitled, ThreadRecords
<1>3. \A r \in ThreadRecords :
         [r EXCEPT !.status = IF item[i] \in Terminal THEN "closed" ELSE @] \in ThreadRecords
    BY DEF ThreadRecords
<1> QED
    BY <1>2, <1>3

LEMMA TypeStep == ASSUME TypeOK, Targets, ListedMarkers, [Next]_vars PROVE TypeOK'
<1>a. /\ thread \in [Threads -> ThreadRecords] /\ clock \in Nat
      /\ pass \in Passes
      /\ pass.event # None <=> pass.pc \in {"imprint", "record", "commit", "reply"}
      /\ damage \in Nat /\ faults \in Nat
      /\ torn \in [CommandEvents -> Nat] /\ muted \subseteq CommandEvents
      /\ abandoned \subseteq Items \cup {ConsumedLog}
    BY DEF TypeOK
<1>1. ASSUME NEW t \in Threads, NEW who \in Authors, OpensThread(t, who) PROVE TypeOK'
  <2> DEFINE r == [NoThread EXCEPT !.status = "open", !.ts = clock, !.by = who]
  <2>1. r \in ThreadRecords
      BY <1>a DEF NoThread, ThreadRecords
  <2>2. /\ thread' = [thread EXCEPT ![t] = r] /\ pass' = pass
        /\ UNCHANGED <<clock, comment, git, replied, aside>>
      BY <1>1 DEF OpensThread
  <2> HIDE DEF r
  <2> QED
      BY <1>a, <2>1, <2>2, ThreadType
<1>2. ASSUME NEW c \in Comments, NEW t \in Threads, NEW command \in Commands, NEW who \in Authors,
             PostsComment(c, t, command, who)
      PROVE  TypeOK'
    BY <1>2 DEF PostsComment, TypeOK, CommentRecords, git, aside, history
<1>3. ASSUME NEW t \in Threads, Damages(t) PROVE TypeOK'
  <2>1. /\ [thread[t] EXCEPT !.status = "deleted"] \in ThreadRecords
        /\ [thread[t] EXCEPT !.marker = None] \in ThreadRecords
      BY <1>a DEF ThreadRecords
  <2>2. \E r \in ThreadRecords : thread' = [thread EXCEPT ![t] = r]
      BY <1>3, <1>a, <2>1 DEF Damages
  <2> QED
      BY <1>3, <1>a, <2>2 DEF Damages, TypeOK, git, history
<1>4. ASSUME Second PROVE TypeOK'
    BY <1>4 DEF Second, TypeOK, git, aside, history
<1>5. ASSUME Turn PROVE TypeOK'
  <2>1. item' \in [Items -> States \cup {Absent}] /\ asking' \subseteq Items
      BY <1>5 DEF Turn, TypeOK, States
  <2>2. pass' \in Passes /\ pass'.event = None /\ pass'.pc = "open"
      BY <1>5 DEF Turn, NoPass, Passes, PCs
  <2> QED
      BY <1>5, <2>1, <2>2 DEF Turn, TypeOK, board, aside, history
<1>6. ASSUME ListIssues PROVE TypeOK'
  <2> DEFINE listed == {t \in Threads : Live(t)}
             marked == {t \in listed : thread[t].marker # None}
  <2>1. /\ {<<t, thread[t].marker>> : t \in marked} \in SUBSET (Threads \X Items)
        /\ marked \in SUBSET Threads /\ listed \ marked \in SUBSET CommandEvents
      BY <1>a DEF ThreadRecords, CommandEvents
  <2>2. pass' = [NoPass EXCEPT !.pc = "read", !.unread = marked,
                     !.marked = {<<t, thread[t].marker>> : t \in marked},
                     !.pending = listed \ marked]
      BY <1>6 DEF ListIssues
  <2> HIDE DEF listed, marked
  <2>3. pass' \in Passes /\ pass'.event = None /\ pass'.pc = "read"
      BY <2>1, <2>2 DEF NoPass, Passes, PCs
  <2> QED
      BY <1>6, <1>a, <2>3, PassType DEF ListIssues, aside, history
<1>7. ASSUME Open PROVE TypeOK'
  <2>1. PICK t \in Threads :
           /\ thread' = thread \/
              thread' = [thread EXCEPT ![t] = [status |-> "open", ts |-> clock, by |-> "factory",
                                               marker |-> Foremost, shown |-> item[Foremost]]]
           /\ pass' = [pass EXCEPT !.pc = "show", !.item = t]
      BY <1>7 DEF Open
  <2>2. [status |-> "open", ts |-> clock, by |-> "factory", marker |-> Foremost,
         shown |-> item[Foremost]] \in ThreadRecords
      BY <1>7, <1>a, Foremosts DEF Open, TypeOK, ThreadRecords
  <2>3. pass' \in Passes
      BY <1>a, <2>1, PassUpdates DEF PCs
  <2>5. pass'.event = pass.event /\ pass'.pc = "show" /\ pass.pc = "open"
      BY <1>7, <1>a, <2>1 DEF Open, At, Passes
  <2>4. UNCHANGED <<clock, comment, git, replied, aside>>
      BY <1>7 DEF Open
  <2>6. CASE thread' = thread
      BY <1>a, <2>3, <2>4, <2>5, <2>6, PassType DEF board, aside, history
  <2>7. CASE thread' # thread
      BY <1>a, <2>1, <2>2, <2>3, <2>4, <2>5, <2>7, ThreadType
  <2> QED
      BY <2>6, <2>7
<1>8. ASSUME Show PROVE TypeOK'
  <2> DEFINE r == [Retitled(thread[pass.item], Foremost) EXCEPT
                      !.status = IF item[Foremost] \in Terminal THEN "closed" ELSE @]
  <2>1. pass.item \in Threads /\ Foremost \in Items
      BY <1>8, Foremosts DEF Show, Targets
  <2>2. r \in ThreadRecords
      BY <2>1, RetitledType
  <2>3. thread' = [thread EXCEPT ![pass.item] = r]
      BY <1>8 DEF Show
  <2> HIDE DEF r
  <2>4. pass' = [pass EXCEPT !.pc = "open", !.todo = pass.todo \ {Foremost}, !.item = None]
      BY <1>8 DEF Show
  <2>5. pass.todo \ {Foremost} \in SUBSET Items
      BY <1>a, PassFields
  <2>6. pass' \in Passes
    <3>1. pass \in Passes /\ "open" \in PCs /\ None \in Items \cup Threads \cup {None}
        BY <1>a, Zenon DEF PCs
    <3>2. [pass EXCEPT !.pc = "open", !.todo = pass.todo \ {Foremost}, !.item = None] \in Passes
        BY <3>1, <2>5 DEF Passes
    <3> QED
        BY <3>2, <2>4, Zenon
  <2>7. pass'.event = pass.event /\ pass'.pc = "open" /\ pass.pc = "show"
      BY <1>8, <1>a, <2>4 DEF Show, At, Passes
  <2>8. UNCHANGED <<clock, comment, git, replied, aside>>
      BY <1>8 DEF Show
  <2> QED
      BY <1>a, <2>1, <2>2, <2>3, <2>6, <2>7, <2>8, ThreadType
<1>9. ASSUME EndProjection \/ EndIngest PROVE TypeOK'
    BY <1>9, <1>a, PassTypes, PassType DEF EndProjection, EndIngest, aside, history
<1>10. ASSUME Raise \/ Fault PROVE TypeOK'
  <2>1. EndsEarly /\ faults' \in Nat
      BY <1>10, <1>a DEF Raise, Fault
  <2>2. HalfApplied \/ HalfRejected => pass.event \in CommandEvents
      BY <1>a, PassFields DEF HalfApplied, HalfRejected, At
  <2>3. torn' \in [CommandEvents -> Nat] /\ muted' \subseteq CommandEvents
      BY <1>a, <2>1, <2>2 DEF EndsEarly
  <2>4. abandoned' \subseteq Items \cup {ConsumedLog}
      BY <2>1 DEF EndsEarly, TypeOK
  <2>5. pass' \in Passes /\ pass'.event = None
           /\ pass'.pc \notin {"imprint", "record", "commit", "reply"}
    <3>1. pass' \in {[NoPass EXCEPT !.pc = "refused"], Restarted}
        BY <2>1 DEF EndsEarly
    <3> QED
        BY <3>1, PassTypes
  <2>6. UNCHANGED <<board, git, replied, shared, damage>>
      BY <2>1 DEF EndsEarly
  <2> QED
      BY <2>1, <2>3, <2>4, <2>5, <2>6, PassType
<1>17. ASSUME CleanUp PROVE TypeOK'
    BY <1>17, PassTypes DEF CleanUp, TypeOK, board
<1>11. ASSUME ReadComments \/ EndList \/ \E e \in CommandEvents : Skip(e) PROVE TypeOK'
  <2>1. PICK u \in SUBSET Threads, x \in SUBSET CommandEvents, pc \in {"read", "apply"} :
           \/ pass' = [pass EXCEPT !.unread = u, !.pending = x]
           \/ pass' = [pass EXCEPT !.pending = x]
           \/ pass' = [pass EXCEPT !.pc = pc]
    <3>1. \A t \in Threads : NewComments(t) \subseteq CommandEvents
        BY DEF NewComments, CommandEvents
    <3>2. \A t : pass.unread \ {t} \in SUBSET Threads /\ pass.pending \ {t} \in SUBSET CommandEvents
        BY <1>a, PassFields
    <3>3. \A t : pass.pending \cup NewComments(t) \in SUBSET CommandEvents
        BY <1>a, PassFields DEF NewComments, CommandEvents
    <3>4. CASE ReadComments
        BY <3>2, <3>3, <3>4 DEF ReadComments
    <3>5. CASE EndList
        BY <3>5 DEF EndList
    <3>6. CASE \E e \in CommandEvents : Skip(e)
        BY <3>2, <3>6 DEF Skip
    <3> QED
        BY <1>11, <3>4, <3>5, <3>6
  <2>2. pass.pc \in {"read", "apply"} /\ UNCHANGED <<board, git, replied, aside>>
      BY <1>11 DEF ReadComments, EndList, Skip, Pending, At
  <2>3. pass' \in Passes
    <3>1. pc \in PCs
        BY DEF PCs
    <3>2. CASE pass' = [pass EXCEPT !.unread = u, !.pending = x]
        BY <1>a, <3>2 DEF Passes
    <3>3. CASE pass' = [pass EXCEPT !.pending = x]
        BY <1>a, <3>3 DEF Passes
    <3>4. CASE pass' = [pass EXCEPT !.pc = pc]
        BY <1>a, <3>1, <3>4, PassUpdates, Zenon
    <3> QED
        BY <2>1, <3>2, <3>3, <3>4
  <2>4. pass'.event = pass.event /\ pass'.pc \in {"read", "apply"}
      BY <1>a, <2>1, <2>2 DEF Passes
  <2> QED
      BY <1>a, <2>2, <2>3, <2>4, PassType DEF aside, history
<1>12. ASSUME NEW e \in CommandEvents, ApplyCommand(e) PROVE TypeOK'
  <2>1. Addressed(e) \in Items
      BY <1>12, Addressee DEF ApplyCommand, Pending
  <2>2. item' \in [Items -> States \cup {Absent}] /\ asking' \subseteq Items
      BY <1>12, <2>1 DEF ApplyCommand, TypeOK, States
  <2>6. pass' = [pass EXCEPT !.pc = "record", !.event = e, !.item = Addressed(e)]
      BY <1>12 DEF ApplyCommand
  <2>3. pass' \in Passes /\ pass'.event = e /\ pass'.pc = "record"
    <3>1. pass' \in Passes
        BY <1>a, <2>1, <2>6, PassUpdates DEF PCs
    <3> QED
        BY <1>a, <2>6, <3>1 DEF Passes
  <2>4. e # None
      BY BoardAssumption DEF CommandEvents
  <2>5. applied' \in [CommandEvents -> Nat] /\ uncommitted' \subseteq Items \cup {ConsumedLog}
      BY <1>12, <2>1 DEF ApplyCommand, Written, TypeOK
  <2> QED
      BY <1>12, <2>2, <2>3, <2>4, <2>5 DEF ApplyCommand, Written, TypeOK, board, aside, history
<1>13. ASSUME NEW e \in CommandEvents, RejectCommand(e) PROVE TypeOK'
  <2>3. pass' = [pass EXCEPT !.pc = "record", !.event = e, !.rejected = TRUE]
      BY <1>13 DEF RejectCommand
  <2>1. pass' \in Passes /\ pass'.event = e /\ pass'.pc = "record"
    <3>1. pass' \in Passes
        BY <1>a, <2>3, PassUpdates DEF PCs
    <3> QED
        BY <1>a, <2>3, <3>1 DEF Passes
  <2>2. e # None
      BY BoardAssumption DEF CommandEvents
  <2> QED
      BY <1>13, <1>a, <2>1, <2>2, PassType DEF RejectCommand, aside, history
<1>14. ASSUME NEW e \in CommandEvents, NEW i \in Items, ApplyCreate(e, i) PROVE TypeOK'
  <2>5. pass' = [pass EXCEPT !.pc = "imprint", !.event = e, !.item = i]
      BY <1>14 DEF ApplyCreate
  <2>1. pass' \in Passes /\ pass'.event = e /\ pass'.pc = "imprint"
    <3>1. pass' \in Passes
        BY <1>a, <2>5, PassUpdates DEF PCs
    <3> QED
        BY <1>a, <2>5, <3>1 DEF Passes
  <2>2. e # None
      BY BoardAssumption DEF CommandEvents
  <2>3. applied' \in [CommandEvents -> Nat] /\ uncommitted' \subseteq Items \cup {ConsumedLog}
      BY <1>14 DEF ApplyCreate, Written, TypeOK
  <2>4. item' \in [Items -> States \cup {Absent}]
      BY <1>14 DEF ApplyCreate, TypeOK, States
  <2> QED
      BY <1>14, <2>1, <2>2, <2>3, <2>4 DEF ApplyCreate, Written, TypeOK, board, aside, history
<1>15. ASSUME Imprint PROVE TypeOK'
  <2>1. pass.event \in Threads /\ pass.item \in Items
      BY <1>15 DEF Imprint, At, Targets
  <2>2. Retitled(thread[pass.event], pass.item) \in ThreadRecords
      BY <2>1, RetitledType
  <2>3. thread' = [thread EXCEPT ![pass.event] = Retitled(thread[pass.event], pass.item)]
      BY <1>15, <1>a, <2>1 DEF Imprint
  <2>4. pass' \in Passes /\ pass'.event = pass.event /\ pass'.pc = "record" /\ pass.pc = "imprint"
      BY <1>15, <1>a DEF Imprint, At, Passes, PCs
  <2>5. UNCHANGED <<clock, comment, git, replied, aside>>
      BY <1>15 DEF Imprint
  <2> QED
      BY <1>a, <2>1, <2>2, <2>3, <2>4, <2>5, ThreadType
<1>16. ASSUME Record PROVE TypeOK'
  <2>1. pass' \in Passes /\ pass'.event = pass.event /\ pass'.pc = "commit" /\ pass.pc = "record"
      BY <1>16, <1>a DEF Record, At, Passes, PCs
  <2>2. consumed' \in [CommandEvents -> Nat]
    <3>1. \A e \in CommandEvents : consumed[e] + 1 \in Nat
        BY DEF TypeOK
    <3> QED
        BY <1>16, <3>1 DEF Record, TypeOK
  <2> QED
      BY <1>16, <1>a, <2>1, <2>2 DEF Record, TypeOK, board, aside, history
<1>18. ASSUME CommitEvent PROVE TypeOK'
  <2>1. /\ pass' \in Passes
        /\ pass'.event # None <=> pass'.pc \in {"imprint", "record", "commit", "reply"}
      BY <1>18, <1>a, DoneType DEF CommitEvent, At, Passes, PCs
  <2> QED
      BY <1>18, <2>1 DEF CommitEvent, TypeOK, board, aside, history
<1>19. ASSUME Reply PROVE TypeOK'
  <2>1. replied' \subseteq CommandEvents
      BY <1>19, <1>a DEF Reply, At, TypeOK, Passes
  <2> QED
      BY <1>19, <1>a, DoneType, <2>1 DEF Reply, TypeOK, board, git, aside, history
<1>20. ASSUME UNCHANGED vars PROVE TypeOK'
    BY <1>20 DEF vars, TypeOK
<1> QED
    BY <1>1, <1>2, <1>3, <1>4, <1>5, <1>6, <1>7, <1>8, <1>9, <1>10, <1>11, <1>12, <1>13, <1>14,
       <1>15, <1>16, <1>17, <1>18, <1>19, <1>20, Zenon
    DEF Next, Humans, Loop, Ingest

LEMMA UnreadMax == ASSUME TypeOK, pass.unread # {} PROVE Max(pass.unread) \in pass.unread
<1>1. pass.unread \in SUBSET Threads
    BY PassFields DEF TypeOK
<1>2. IsFiniteSet(pass.unread) /\ pass.unread \subseteq Nat
    BY <1>1, BoardAssumption, FS_Subset
<1> QED
    BY <1>2, MaxInSet

\* What the process holds keeps its shape.
LEMMA PassStep ==
    ASSUME TypeOK, Targets, ListedMarkers, NotYetConsumed, TypeOK', [Next]_vars
    PROVE  Targets' /\ ListedMarkers' /\ NotYetConsumed'
<1> DEFINE Goal == Targets' /\ ListedMarkers' /\ NotYetConsumed'
<1> USE DEF Targets, ListedMarkers, NotYetConsumed, At
<1>a. /\ pass \in Passes /\ pass' \in Passes
      /\ pass.event # None <=> pass.pc \in {"imprint", "record", "commit", "reply"}
      /\ comment \in [Comments -> CommentRecords]
    BY DEF TypeOK
<1>b. ASSUME pass'.pc \in {"idle", "open", "refused"}, pass'.unread = {}, pass'.pending = {}, ~pass'.rejected
      PROVE  Goal
    BY <1>b
<1>c. ASSUME UNCHANGED <<pass, consumed>>, \A c \in pass.pending : comment'[c] = comment[c] PROVE Goal
    BY <1>c
<1>1. ASSUME NEW t \in Threads, NEW who \in Authors, OpensThread(t, who) PROVE Goal
    BY <1>1, <1>c DEF OpensThread, git
<1>2. ASSUME NEW c \in Comments, NEW t \in Threads, NEW command \in Commands, NEW who \in Authors,
             PostsComment(c, t, command, who)
      PROVE  Goal
  <2>1. c \notin pass.pending
    <3>1. comment[c].thread = None /\ None \notin Threads
        BY <1>2, BoardAssumption DEF PostsComment, NextComment
    <3>2. \A i : <<None, i>> \notin pass.marked
        BY <1>a, <3>1, PassFields
    <3> QED
        BY <3>1, <3>2
  <2> QED
      BY <1>2, <1>a, <1>c, <2>1 DEF PostsComment, git
<1>3. ASSUME NEW t \in Threads, Damages(t) PROVE Goal
    BY <1>3, <1>c DEF Damages, git
<1>4. ASSUME Second PROVE Goal
    BY <1>4, <1>c DEF Second, git
<1>5. ASSUME Turn \/ EndProjection \/ EndIngest \/ Raise \/ Fault \/ CleanUp PROVE Goal
  <2>1. PICK todo \in SUBSET Items :
           \/ pass' = NoPass \/ pass' = [NoPass EXCEPT !.pc = "open", !.todo = todo]
           \/ pass' = [NoPass EXCEPT !.pc = "refused"]
    <3>1. Raise \/ Fault => EndsEarly
        BY DEF Raise, Fault
    <3>2. {i \in Items : item[i] # Absent} \in SUBSET Items
        OBVIOUS
    <3>3. {i \in Items : item'[i] # Absent} \in SUBSET Items
        OBVIOUS
    <3> QED
        BY <1>5, <3>1, <3>2, <3>3 DEF Turn, EndProjection, EndIngest, EndsEarly, CleanUp, Restarted
  <2>2. /\ pass'.pc \in {"idle", "open", "refused"} /\ ~pass'.rejected
        /\ pass'.unread = {} /\ pass'.pending = {}
    <3>1. CASE pass' = NoPass
        BY <3>1 DEF NoPass
    <3>2. CASE pass' = [NoPass EXCEPT !.pc = "open", !.todo = todo]
        BY <3>2 DEF NoPass
    <3>3. CASE pass' = [NoPass EXCEPT !.pc = "refused"]
        BY <3>3 DEF NoPass
    <3> QED
        BY <2>1, <3>1, <3>2, <3>3
  <2> QED
      BY <1>b, <2>2
<1>6. ASSUME ListIssues PROVE Goal
  <2>1. /\ pass'.pc = "read" /\ ~pass'.rejected
        /\ pass'.unread = {t \in Threads : Live(t) /\ thread[t].marker # None}
        /\ pass'.marked = {<<t, thread[t].marker>> : t \in pass'.unread}
        /\ pass'.pending \subseteq Threads
      BY <1>6 DEF ListIssues, NoPass
  <2>2. \A t \in pass'.unread : thread[t].marker \in Items
      BY <2>1 DEF TypeOK, ThreadRecords
  <2>3. pass'.pending \cap Comments = {}
      BY <2>1, NoThreadIsComment
  <2> QED
      BY <2>1, <2>2, <2>3
<1>7. ASSUME Open PROVE Goal
    BY <1>7, <1>a DEF Open, Passes, git
<1>8. ASSUME Show PROVE Goal
    BY <1>8, <1>a DEF Show, Passes, git
<1>9. ASSUME ReadComments PROVE Goal
  <2> DEFINE t == Max(pass.unread)
  <2>1. t \in pass.unread
      BY <1>9, UnreadMax DEF ReadComments
  <2>2. /\ pass'.pc = "read" /\ pass'.marked = pass.marked /\ pass'.unread = pass.unread \ {t}
        /\ pass'.pending = pass.pending \cup NewComments(t) /\ ~pass'.rejected
        /\ UNCHANGED comment
      BY <1>9, <1>a DEF ReadComments, Passes, board
  <2> HIDE DEF t
  <2>3. \A c \in NewComments(t) : comment[c].thread = t
      BY DEF NewComments
  <2> QED
      BY <2>1, <2>2, <2>3
<1>10. ASSUME EndList PROVE Goal
    BY <1>10, <1>a DEF EndList, Passes, board
<1>11. ASSUME NEW e \in CommandEvents, Skip(e) PROVE Goal
    BY <1>11, <1>a DEF Skip, Pending, Passes, board
<1>12. ASSUME NEW e \in CommandEvents, ApplyCommand(e) PROVE Goal
  <2>1. Addressed(e) \in Items
      BY <1>12, Addressee DEF ApplyCommand, Pending
  <2>2. consumed'[e] = 0
      BY <1>12 DEF ApplyCommand, Written, Admitted, Consumed, TypeOK
  <2> QED
      BY <1>12, <1>a, <2>1, <2>2 DEF ApplyCommand, Passes, board
<1>13. ASSUME NEW e \in CommandEvents, RejectCommand(e) PROVE Goal
  <2>1. consumed'[e] = 0
      BY <1>13 DEF RejectCommand, Admitted, Consumed, TypeOK, git
  <2> QED
      BY <1>13, <1>a, <2>1 DEF RejectCommand, Passes, board
<1>14. ASSUME NEW e \in CommandEvents, NEW i \in Items, ApplyCreate(e, i) PROVE Goal
  <2>1. consumed'[e] = 0
      BY <1>14 DEF ApplyCreate, Written, Admitted, Consumed, TypeOK
  <2> QED
      BY <1>14, <1>a, <2>1 DEF ApplyCreate, Pending, Passes, board
<1>15. ASSUME Imprint PROVE Goal
    BY <1>15, <1>a DEF Imprint, Passes, git
<1>16. ASSUME Record PROVE Goal
    BY <1>16, <1>a DEF Record, Passes, board
<1>17. ASSUME CommitEvent \/ Reply PROVE Goal
  <2>1. \/ pass' = [pass EXCEPT !.pc = "reply"] /\ pass.rejected
        \/ pass' = Done
      BY <1>17 DEF CommitEvent, Reply
  <2>2. UNCHANGED <<comment, consumed>>
      BY <1>17 DEF CommitEvent, Reply, board, git
  <2>3. CASE pass' = [pass EXCEPT !.pc = "reply"] /\ pass.rejected
      BY <1>a, <2>2, <2>3 DEF Passes
  <2>4. CASE pass' = Done
    <3>1. /\ pass'.pc = "apply" /\ ~pass'.rejected /\ pass'.marked = pass.marked
          /\ pass'.unread = pass.unread /\ pass'.pending \subseteq pass.pending
        BY <1>a, <2>4 DEF Done, Passes
    <3> QED
        BY <2>2, <3>1
  <2> QED
      BY <2>1, <2>3, <2>4
<1>18. ASSUME UNCHANGED vars PROVE Goal
    BY <1>18, <1>c DEF vars
<1> QED
    BY <1>1, <1>2, <1>3, <1>4, <1>5, <1>6, <1>7, <1>8, <1>9, <1>10, <1>11, <1>12, <1>13, <1>14,
       <1>15, <1>16, <1>17, <1>18, Zenon
    DEF Next, Humans, Loop, Ingest

\* A marker is only ever given to the one thread of an item.
LEMMA ThreadStep ==
    ASSUME TypeOK, Targets, ListedMarkers, OnlyItemsShow, InHandAlone, OneThreadPerItem, TypeOK', [Next]_vars
    PROVE  OnlyItemsShow' /\ InHandAlone' /\ OneThreadPerItem'
<1> DEFINE Goal == OnlyItemsShow' /\ InHandAlone' /\ OneThreadPerItem'
<1>a. /\ pass \in Passes /\ pass' \in Passes
      /\ thread \in [Threads -> ThreadRecords] /\ item \in [Items -> States \cup {Absent}]
      /\ thread' \in [Threads -> ThreadRecords]
    BY DEF TypeOK
<1>b. \A t \in Threads : thread[t].marker # None => thread[t].marker \in Items
    BY <1>a DEF ThreadRecords
<1> USE DEF OnlyItemsShow, InHandAlone, OneThreadPerItem, At, Live
<1>c. ASSUME thread' = thread, pass'.pc \notin {"show", "imprint"}, \A i \in pass'.todo : item'[i] # Absent,
             \A i \in Items : item[i] # Absent => item'[i] # Absent
      PROVE  Goal
    BY <1>b, <1>c
<1>d. ASSUME UNCHANGED <<pass, item>>,
             \A t \in Threads : /\ Live(t)' => Live(t) \/ thread'[t].marker = None
                                /\ thread'[t].marker \in {None, thread[t].marker}
      PROVE  Goal
  <2>1. Foremost' = Foremost
      BY <1>d DEF Foremost
  <2>2. Foremost # None \/ ~At("show")
      BY Foremosts, BoardAssumption DEF Targets
  <2>3. pass.item # None \/ ~At("imprint")
      BY BoardAssumption DEF Targets
  <2> QED
      BY <1>d, <2>1, <2>2, <2>3
<1>1. ASSUME NEW t \in Threads, NEW who \in Authors, OpensThread(t, who) PROVE Goal
    BY <1>1, <1>a, <1>d DEF OpensThread, git, NoThread
<1>2. ASSUME NEW c \in Comments, NEW t \in Threads, NEW command \in Commands, NEW who \in Authors,
             PostsComment(c, t, command, who)
      PROVE  Goal
    BY <1>2, <1>d DEF PostsComment, git
<1>3. ASSUME NEW t \in Threads, Damages(t) PROVE Goal
    BY <1>3, <1>a, <1>d DEF Damages, git, ThreadRecords
<1>4. ASSUME Second \/ UNCHANGED vars PROVE Goal
    BY <1>4, <1>d DEF Second, git, vars
<1>5. ASSUME Turn PROVE Goal
  <2>1. thread' = thread /\ pass' = [NoPass EXCEPT !.pc = "open", !.todo = {i \in Items : item'[i] # Absent}]
      BY <1>5 DEF Turn, board
  <2>2. \A i \in Items : item[i] # Absent => item'[i] # Absent
      BY <1>5, <1>a DEF Turn, Absent
  <2>3. pass'.pc = "open" /\ \A i \in pass'.todo : item'[i] # Absent
      BY <2>1 DEF NoPass
  <2> QED
      BY <1>c, <2>1, <2>2, <2>3
<1>6. ASSUME Open PROVE Goal
  <2> DEFINE i == Foremost
  <2>1. i \in pass.todo /\ i \in Items /\ i # None /\ item[i] # Absent
      BY <1>6, Foremosts, BoardAssumption DEF Open
  <2>2. PICK t \in Threads :
           /\ \/ t \in Carrying(i) /\ UNCHANGED thread
              \/ /\ Carrying(i) = {} /\ NextThread(t)
                 /\ thread' = [thread EXCEPT ![t] = [status |-> "open", ts |-> clock,
                                   by |-> "factory", marker |-> i, shown |-> item[i]]]
           /\ pass' = [pass EXCEPT !.pc = "show", !.item = t]
      BY <1>6 DEF Open
  <2>3. /\ pass'.pc = "show" /\ pass'.item = t /\ pass'.todo = pass.todo /\ Foremost' = i
        /\ item' = item
      BY <1>6, <1>a, <2>2 DEF Passes, Foremost, Open, git
  <2> HIDE DEF i
  <2>4. CASE t \in Carrying(i) /\ UNCHANGED thread
      BY <1>b, <2>1, <2>3, <2>4 DEF Carrying
  <2>5. CASE /\ Carrying(i) = {}
             /\ thread' = [thread EXCEPT ![t] = [status |-> "open", ts |-> clock,
                               by |-> "factory", marker |-> i, shown |-> item[i]]]
    <3>1. /\ \A u \in Threads : u # t => thread'[u] = thread[u]
          /\ thread'[t].marker = i
          /\ \A u \in Threads : Live(u) => thread[u].marker # i
        BY <1>a, <2>5 DEF Carrying
    <3> QED
        BY <1>b, <2>1, <2>3, <3>1
  <2> QED
      BY <2>2, <2>4, <2>5
<1>7. ASSUME Show \/ Imprint PROVE Goal
  <2>1. PICK t \in Threads, i \in Items :
           /\ Live(t) /\ i # None /\ item[i] # Absent
           /\ \A u \in Threads : u # t => thread'[u] = thread[u]
           /\ thread'[t].marker = IF thread[t].marker = None THEN i ELSE thread[t].marker
           /\ \A u \in Threads : Live(u) /\ thread[u].marker = i => u = t
    <3>1. CASE Show
      <4>1. pass.item \in Threads /\ Foremost \in Items /\ Foremost # None /\ item[Foremost] # Absent
          BY <3>1, Foremosts, BoardAssumption DEF Show, Targets
      <4>2. thread' = [thread EXCEPT ![pass.item] = [Retitled(thread[pass.item], Foremost) EXCEPT
                          !.status = IF item[Foremost] \in Terminal THEN "closed" ELSE @]]
          BY <3>1 DEF Show
      <4>3. thread'[pass.item].marker = Retitled(thread[pass.item], Foremost).marker
          BY <1>a, <4>1, <4>2, RetitledType DEF ThreadRecords
      <4>4. Retitled(thread[pass.item], Foremost).marker =
                IF thread[pass.item].marker = None THEN Foremost ELSE thread[pass.item].marker
          BY <1>a, <4>1 DEF Retitled, ThreadRecords
      <4> QED
          BY <3>1, <1>a, <4>1, <4>2, <4>3, <4>4 DEF Show
    <3>2. CASE Imprint
      <4>1. pass.event \in Threads /\ pass.item \in Items /\ pass.item # None /\ item[pass.item] # Absent
          BY <3>2, BoardAssumption DEF Imprint, Targets
      <4>2. thread' = [thread EXCEPT ![pass.event] = Retitled(thread[pass.event], pass.item)]
          BY <3>2, <1>a, <4>1 DEF Imprint
      <4>3. thread'[pass.event].marker =
                IF thread[pass.event].marker = None THEN pass.item ELSE thread[pass.event].marker
          BY <1>a, <4>1, <4>2 DEF Retitled, ThreadRecords
      <4> QED
          BY <3>2, <1>a, <4>1, <4>2, <4>3 DEF Imprint
    <3> QED
        BY <1>7, <3>1, <3>2
  <2>2. item' = item /\ pass'.pc \in {"open", "record"} /\ pass'.todo \subseteq pass.todo
    <3>1. CASE Show
        BY <3>1, <1>a DEF Show, git, Passes
    <3>2. CASE Imprint
        BY <3>2, <1>a DEF Imprint, git, Passes
    <3> QED
        BY <1>7, <3>1, <3>2
  <2> QED
      BY <1>b, <2>1, <2>2
<1>8. ASSUME EndProjection \/ EndIngest \/ Raise \/ Fault \/ CleanUp PROVE Goal
  <2>1. /\ UNCHANGED <<thread, item>>
        /\ pass' \in {NoPass, Restarted, [NoPass EXCEPT !.pc = "refused"]}
      BY <1>8 DEF EndProjection, EndIngest, Raise, Fault, EndsEarly, CleanUp, board, git
  <2>2. pass'.pc \in {"idle", "open", "refused"} /\ \A i \in pass'.todo : item[i] # Absent
    <3>1. NoPass.pc = "idle" /\ NoPass.todo = {}
        BY DEF NoPass
    <3>2. Restarted.pc = "open" /\ Restarted.todo = {i \in Items : item[i] # Absent}
        BY DEF NoPass, Restarted
    <3>3. [NoPass EXCEPT !.pc = "refused"].pc = "refused" /\ [NoPass EXCEPT !.pc = "refused"].todo = {}
        BY DEF NoPass
    <3> QED
        BY <2>1, <3>1, <3>2, <3>3
  <2> QED
      BY <1>c, <2>1, <2>2
<1>9. ASSUME ListIssues PROVE Goal
  <2>1. pass'.pc = "read" /\ pass'.todo = {} /\ UNCHANGED <<thread, item>>
      BY <1>9 DEF ListIssues, NoPass, board, git
  <2> QED
      BY <1>c, <2>1
<1>10. ASSUME ReadComments \/ EndList \/ (\E e \in CommandEvents : Skip(e) \/ RejectCommand(e)) \/ Record
              \/ CommitEvent \/ Reply
       PROVE  Goal
  <2>1. UNCHANGED <<thread, item>>
      BY <1>10 DEF ReadComments, EndList, Skip, RejectCommand, Record, CommitEvent, Reply, board, git
  <2>2. pass'.todo = pass.todo /\ pass'.pc \in {"read", "apply", "record", "commit", "reply"}
      BY <1>10, <1>a DEF ReadComments, EndList, Skip, RejectCommand, Pending, Record, CommitEvent, Reply, Done, Passes
  <2> QED
      BY <1>c, <2>1, <2>2
<1>11. ASSUME NEW e \in CommandEvents, ApplyCommand(e) PROVE Goal
  <2>1. /\ thread' = thread /\ pass'.pc = "record" /\ pass'.todo = pass.todo
        /\ \A i \in Items : item[i] # Absent => item'[i] # Absent
      BY <1>11, <1>a DEF ApplyCommand, board, Passes, Absent
  <2>2. pass.todo \subseteq Items
      BY <1>a, PassFields
  <2> QED
      BY <1>c, <2>1, <2>2
<1>12. ASSUME NEW e \in CommandEvents, NEW i \in Items, ApplyCreate(e, i) PROVE Goal
  <2>1. /\ thread' = thread /\ pass'.pc = "imprint" /\ pass'.todo = pass.todo /\ pass'.item = i
        /\ item[i] = Absent /\ item' = [item EXCEPT ![i] = "ready"]
      BY <1>12, <1>a DEF ApplyCreate, NextItem, board, Passes
  <2>2. \A u \in Threads : Live(u) => thread[u].marker # i
      BY <2>1, BoardAssumption
  <2>3. item'[i] # Absent /\ \A j \in Items : item[j] # Absent => item'[j] # Absent
      BY <1>a, <2>1 DEF Absent
  <2>4. pass.todo \subseteq Items
      BY <1>a, PassFields
  <2> QED
      BY <1>b, <2>1, <2>2, <2>3, <2>4
<1> QED
    BY <1>1, <1>2, <1>3, <1>4, <1>5, <1>6, <1>7, <1>8, <1>9, <1>10, <1>11, <1>12, Zenon
    DEF Next, Humans, Loop, Ingest

-----------------------------------------------------------------------------
(* Theorems.                                                               *)

LEMMA StepInv == IInv /\ [Next]_vars => IInv'
    BY TypeStep, PassStep, ThreadStep DEF IInv

LEMMA Invariant == Spec => []IInv
<1> QED
    BY InitInv, StepInv, PTL DEF Spec

\* Whatever people write and delete and processes lose, every variable keeps its
\* type (run_loop's board half).
THEOREM TypeCorrect == Spec => []TypeOK
<1>1. IInv => TypeOK
    BY DEF IInv
<1> QED
    BY <1>1, Invariant, PTL

\* However many threads people open, delete or strip of their marker, and wherever
\* processes die, no item has two threads (GitHubIssuesAdapter.open, project).
THEOREM ThreadsAreUnique == Spec => []OneThreadPerItem
<1>1. IInv => OneThreadPerItem
    BY DEF IInv
<1> QED
    BY <1>1, Invariant, PTL

\* Whatever happens, an event with a row in the consumed-log is neither applied
\* nor recorded again (ingest).
THEOREM ConsumedOnce == Spec => ConsumedIsFinal
<1> DEFINE Kept == \A e \in CommandEvents : consumed[e] > 0
                      => applied'[e] = applied[e] /\ consumed'[e] = consumed[e]
<1>1. ASSUME IInv, [Next]_vars PROVE Kept
  <2>a. applied \in [CommandEvents -> Nat] /\ consumed \in [CommandEvents -> Nat]
      BY <1>1 DEF IInv, TypeOK
  <2>1. CASE UNCHANGED <<applied, consumed>>
      BY <2>1
  <2>2. ASSUME NEW e \in CommandEvents, ApplyCommand(e) \/ \E i \in Items : ApplyCreate(e, i) PROVE Kept
    <3>1. /\ consumed[e] = 0 /\ consumed' = consumed
          /\ applied' = [applied EXCEPT ![e] = @ + 1]
      <4>1. Admitted(e) /\ \E i : Written(e, i)
          BY <2>2 DEF ApplyCommand, ApplyCreate
      <4>2. consumed[e] = 0
          BY <2>a, <4>1 DEF Admitted, Consumed
      <4> QED
          BY <4>1, <4>2 DEF Written
    <3> QED
        BY <2>a, <3>1
  <2>3. CASE Record
    <3>1. /\ consumed[pass.event] = 0 /\ applied' = applied
          /\ consumed' = [consumed EXCEPT ![pass.event] = @ + 1]
        BY <1>1, <2>3 DEF Record, IInv, NotYetConsumed, At
    <3> QED
        BY <2>a, <3>1
  <2>4. ASSUME Next PROVE \/ UNCHANGED <<applied, consumed>>
                          \/ \E e \in CommandEvents : ApplyCommand(e) \/ \E i \in Items : ApplyCreate(e, i)
                          \/ Record
      BY <2>4
      DEF Next, Humans, Loop, Ingest, OpensThread, PostsComment, Damages, Second, Turn, ListIssues, Open,
          Show, EndProjection, Raise, ReadComments, EndList, Skip, RejectCommand, Imprint, CommitEvent,
          Reply, EndIngest, Fault, EndsEarly, CleanUp, git
  <2> QED
      BY <1>1, <2>1, <2>2, <2>3, <2>4 DEF vars
<1> QED
    BY <1>1, Invariant, PTL DEF Spec, ConsumedIsFinal

-----------------------------------------------------------------------------
(* What a pass begins it ends, unless its process ends before.             *)

\* An event is applied once, and is then on its way to the consumed-log or in it,
\* and once more for every process that ended on the way.
AppliedThenConsumed == \A e \in CommandEvents :
    applied[e] <= torn[e] + IF consumed[e] > 0 \/ (pass.event = e /\ HalfApplied) THEN 1 ELSE 0

\* A consumed event was applied, was answered, is about to be, or was forgotten by
\* the process that ended on the way.
ConsumedThenAnswered ==
    /\ pass.pc \in {"imprint", "record", "commit"} /\ ~pass.rejected => applied[pass.event] > 0
    /\ pass.pc = "reply" => pass.rejected
    /\ \A e \in CommandEvents : consumed[e] > 0 =>
          \/ applied[e] > 0 \/ e \in replied \/ e \in muted
          \/ pass.event = e /\ HalfRejected

\* What the event in hand has not committed yet.
InHand == {i \in {pass.item} : pass.pc \in {"imprint", "record", "commit"} /\ ~pass.rejected}
          \cup {f \in {ConsumedLog} : pass.pc = "commit"}

\* What is uncommitted is in hand, or was when a process ended; a shared tree is
\* clean before the process starts.
CommitFollows ==
    /\ uncommitted \subseteq abandoned \cup InHand
    /\ shared /\ pass.pc # "refused" => uncommitted \subseteq InHand

Bookkeeping == AppliedThenConsumed /\ ConsumedThenAnswered /\ CommitFollows

LEMMA EventsGoForward == ASSUME IInv, Bookkeeping, TypeOK', [Next]_vars PROVE Bookkeeping'
<1>a. /\ pass \in Passes /\ pass' \in Passes /\ Targets
      /\ applied \in [CommandEvents -> Nat] /\ consumed \in [CommandEvents -> Nat]
      /\ torn \in [CommandEvents -> Nat]
      /\ pass.event # None <=> pass.pc \in {"imprint", "record", "commit", "reply"}
      /\ pass.event \in CommandEvents \cup {None} /\ None \notin CommandEvents
    BY PassFields, BoardAssumption DEF IInv, TypeOK, CommandEvents
<1>b. AppliedThenConsumed /\ ConsumedThenAnswered /\ CommitFollows
    BY DEF Bookkeeping
<1> USE DEF Bookkeeping, AppliedThenConsumed, ConsumedThenAnswered, CommitFollows, InHand, HalfApplied,
            HalfRejected, At
<1> DEFINE Calm == {"idle", "open", "show", "read", "apply"}
<1>c. ASSUME UNCHANGED <<pass, applied, consumed, replied, uncommitted, shared, history>> PROVE Bookkeeping'
    BY <1>b, <1>c DEF history
<1>d. ASSUME UNCHANGED <<applied, consumed, replied, uncommitted, shared, history>>,
             pass.pc \in Calm, pass'.pc \in Calm
      PROVE  Bookkeeping'
  <2>1. ~HalfApplied /\ ~HalfRejected /\ ~HalfApplied' /\ ~HalfRejected' /\ InHand = {}
      BY <1>d
  <2>2. AppliedThenConsumed' /\ ConsumedThenAnswered'
      BY <1>b, <1>d, <2>1 DEF history
  <2>3. CommitFollows'
      BY <1>b, <1>d, <2>1 DEF history
  <2> QED
      BY <2>2, <2>3
<1>1. ASSUME \/ \E t \in Threads, who \in Authors : OpensThread(t, who)
             \/ \E c \in Comments, t \in Threads, command \in Commands, who \in Authors :
                   PostsComment(c, t, command, who)
             \/ \E t \in Threads : Damages(t)
             \/ Second \/ UNCHANGED vars
      PROVE Bookkeeping'
    BY <1>1, <1>c DEF OpensThread, PostsComment, Damages, Second, vars, git, aside, history
<1>2. ASSUME Raise \/ Fault PROVE Bookkeeping'
  <2>1. EndsEarly
      BY <1>2 DEF Raise, Fault
  <2>2. UNCHANGED <<applied, consumed, replied, uncommitted, shared>>
      BY <2>1 DEF EndsEarly, git
  <2>3. /\ pass'.pc \in {"open", "refused"} /\ pass'.event = None
        /\ shared /\ pass'.pc # "refused" => uncommitted = {}
      BY <2>1, PassTypes DEF EndsEarly
  <2>4. AppliedThenConsumed'
      BY <1>a, <1>b, <2>1, <2>2, <2>3 DEF EndsEarly
  <2>5. ConsumedThenAnswered'
      BY <1>a, <1>b, <2>1, <2>2, <2>3 DEF EndsEarly
  <2>6. CommitFollows'
      BY <2>1, <2>2, <2>3 DEF EndsEarly
  <2> QED
      BY <2>4, <2>5, <2>6
<1>3. ASSUME Turn \/ ListIssues PROVE Bookkeeping'
  <2>1. pass.pc = "idle" /\ UNCHANGED <<applied, consumed, replied, uncommitted, shared, history>>
      BY <1>3 DEF Turn, ListIssues, git, aside
  <2>2. pass'.pc \in {"open", "read"}
    <3>1. CASE Turn
        BY <3>1 DEF Turn, NoPass
    <3>2. CASE ListIssues
        BY <3>2 DEF ListIssues, NoPass
    <3> QED
        BY <1>3, <3>1, <3>2
  <2> QED
      BY <1>d, <2>1, <2>2
<1>4. ASSUME Open \/ Show \/ ReadComments \/ EndList \/ \E e \in CommandEvents : Skip(e) PROVE Bookkeeping'
  <2>1. /\ pass.pc \in {"open", "show", "read", "apply"}
        /\ UNCHANGED <<applied, consumed, replied, uncommitted, shared, history>>
      BY <1>4 DEF Open, Show, ReadComments, EndList, Skip, Pending, git, aside
  <2>2. pass'.pc \in {"open", "show", "read", "apply"}
    <3>1. CASE Open
        BY <3>1, <1>a DEF Open, Passes
    <3>2. CASE Show
        BY <3>2, <1>a DEF Show, Passes
    <3>3. CASE ReadComments \/ \E e \in CommandEvents : Skip(e)
        BY <3>3, <1>a DEF ReadComments, Skip, Pending, Passes
    <3>4. CASE EndList
        BY <3>4, <1>a DEF EndList, Passes
    <3> QED
        BY <1>4, <3>1, <3>2, <3>3, <3>4
  <2> QED
      BY <1>d, <2>1, <2>2
<1>5. ASSUME EndProjection \/ EndIngest PROVE Bookkeeping'
  <2>1. UNCHANGED <<applied, consumed, replied, uncommitted, shared, history>> /\ pass' = NoPass
        /\ pass.pc \in {"open", "apply"}
      BY <1>5 DEF EndProjection, EndIngest, git, aside
  <2> QED
      BY <1>d, <2>1, PassTypes
<1>15. ASSUME CleanUp PROVE Bookkeeping'
  <2>1. /\ UNCHANGED <<applied, consumed, replied, shared, torn, muted>> /\ uncommitted' = {}
        /\ pass.pc = "refused" /\ pass' = Restarted
      BY <1>15 DEF CleanUp
  <2>2. pass'.pc = "open" /\ pass'.event = None
      BY <2>1, PassTypes
  <2> QED
      BY <1>a, <1>b, <2>1, <2>2
<1>6. ASSUME NEW e \in CommandEvents, NEW i \in Items, Written(e, i), Pending(e), Admitted(e),
             pass' \in {[pass EXCEPT !.pc = "imprint", !.event = e, !.item = i],
                        [pass EXCEPT !.pc = "record", !.event = e, !.item = i]},
             UNCHANGED <<replied, shared, history>>
      PROVE  Bookkeeping'
  <2>1. pass.pc = "apply" /\ ~pass.rejected /\ consumed[e] = 0 /\ applied[e] <= torn[e] /\ InHand = {}
      BY <1>6, <1>a, <1>b DEF Pending, Admitted, Consumed, Targets
  <2>2. /\ applied' = [applied EXCEPT ![e] = @ + 1] /\ uncommitted' = uncommitted \cup {i}
        /\ consumed' = consumed
      BY <1>6 DEF Written
  <2>3. pass'.pc \in {"imprint", "record"} /\ pass'.event = e /\ pass'.item = i /\ ~pass'.rejected
      BY <1>6, <1>a, <2>1 DEF Passes
  <2>4. AppliedThenConsumed'
      BY <1>6, <1>a, <1>b, <2>1, <2>2, <2>3 DEF history
  <2>5. ConsumedThenAnswered'
      BY <1>6, <1>a, <1>b, <2>1, <2>2, <2>3 DEF history
  <2>6. CommitFollows'
      BY <1>6, <1>b, <2>1, <2>2, <2>3 DEF history
  <2> QED
      BY <2>4, <2>5, <2>6
<1>7. ASSUME NEW e \in CommandEvents, ApplyCommand(e) PROVE Bookkeeping'
  <2>1. Addressed(e) \in Items
      BY <1>7, Addressee DEF ApplyCommand, Pending, IInv
  <2> QED
      BY <1>6, <1>7, <2>1 DEF ApplyCommand, aside
<1>8. ASSUME NEW e \in CommandEvents, NEW i \in Items, ApplyCreate(e, i) PROVE Bookkeeping'
    BY <1>6, <1>8 DEF ApplyCreate, aside
<1>9. ASSUME NEW e \in CommandEvents, RejectCommand(e) PROVE Bookkeeping'
  <2>1. /\ pass.pc = "apply" /\ consumed[e] = 0
        /\ UNCHANGED <<applied, consumed, replied, uncommitted, shared, history>>
      BY <1>9, <1>a DEF RejectCommand, Pending, Admitted, Consumed, git, aside
  <2>2. pass'.pc = "record" /\ pass'.event = e /\ pass'.rejected
      BY <1>9, <1>a DEF RejectCommand, Passes
  <2>3. CommitFollows'
      BY <1>b, <2>1, <2>2 DEF history
  <2> QED
      BY <1>a, <1>b, <2>1, <2>2, <2>3 DEF history
<1>10. ASSUME Imprint PROVE Bookkeeping'
  <2>1. pass.pc = "imprint" /\ UNCHANGED <<applied, consumed, replied, uncommitted, shared, history>>
      BY <1>10 DEF Imprint, git, aside
  <2>2. /\ pass'.pc = "record" /\ pass'.event = pass.event /\ pass'.item = pass.item
        /\ pass'.rejected = pass.rejected /\ ~pass.rejected
      BY <1>10, <1>a DEF Imprint, Passes, Targets
  <2>3. CommitFollows'
      BY <1>b, <2>1, <2>2 DEF history
  <2> QED
      BY <1>a, <1>b, <2>1, <2>2, <2>3 DEF history
<1>11. ASSUME Record PROVE Bookkeeping'
  <2>1. /\ pass.pc = "record" /\ UNCHANGED <<applied, replied, shared, history>>
        /\ uncommitted' = uncommitted \cup {ConsumedLog}
        /\ consumed' = [consumed EXCEPT ![pass.event] = @ + 1]
      BY <1>11 DEF Record, aside
  <2>2. /\ pass'.pc = "commit" /\ pass'.event = pass.event /\ pass'.item = pass.item
        /\ pass'.rejected = pass.rejected
      BY <1>11, <1>a DEF Record, Passes
  <2>3. CommitFollows'
      BY <1>b, <2>1, <2>2 DEF history
  <2>4. AppliedThenConsumed'
      BY <1>a, <1>b, <2>1, <2>2 DEF history
  <2>5. ConsumedThenAnswered'
      BY <1>a, <1>b, <2>1, <2>2 DEF history
  <2> QED
      BY <2>3, <2>4, <2>5
<1>12. Done.pc = "apply" /\ Done.event = None /\ ~Done.rejected
    BY <1>a DEF Done, Passes
<1>13. ASSUME CommitEvent PROVE Bookkeeping'
  <2>1. /\ pass.pc = "commit" /\ UNCHANGED <<applied, consumed, replied, shared, torn, muted>>
        /\ uncommitted' = uncommitted \ {pass.item, ConsumedLog}
        /\ abandoned' = abandoned \ {pass.item, ConsumedLog}
      BY <1>13 DEF CommitEvent
  <2>2. /\ pass'.pc \in {"apply", "reply"}
        /\ IF pass.rejected THEN pass'.event = pass.event /\ pass'.pc = "reply" /\ pass'.rejected
                            ELSE pass'.event = None /\ pass'.pc = "apply"
      BY <1>13, <1>a, <1>12 DEF CommitEvent, Passes
  <2>3. CommitFollows'
      BY <1>b, <2>1, <2>2
  <2>4. AppliedThenConsumed'
      BY <1>a, <1>b, <2>1, <2>2
  <2>5. ConsumedThenAnswered'
      BY <1>a, <1>b, <2>1, <2>2
  <2> QED
      BY <2>3, <2>4, <2>5
<1>14. ASSUME Reply PROVE Bookkeeping'
  <2>1. /\ pass.pc = "reply" /\ UNCHANGED <<applied, consumed, uncommitted, shared, history>>
        /\ replied' = replied \cup {pass.event} /\ pass' = Done
      BY <1>14 DEF Reply, git, aside
  <2>2. CommitFollows'
      BY <1>b, <1>12, <2>1 DEF history
  <2> QED
      BY <1>a, <1>b, <1>12, <2>1, <2>2 DEF history
<1> QED
    BY <1>1, <1>2, <1>3, <1>4, <1>5, <1>7, <1>8, <1>9, <1>10, <1>11, <1>13, <1>14, <1>15, Zenon
    DEF Next, Humans, Loop, Ingest

LEMMA BookkeepingInvariant == Spec => [](IInv /\ Bookkeeping)
<1>1. Init => Bookkeeping
  <2>1. Init => pass.pc = "open" /\ pass.event = None
      BY DEF Init, NoPass
  <2> QED
      BY <2>1 DEF Init, Bookkeeping, AppliedThenConsumed, ConsumedThenAnswered, CommitFollows, InHand,
                  HalfApplied, HalfRejected, At
<1>2. IInv /\ Bookkeeping /\ [Next]_vars => (IInv /\ Bookkeeping)'
    BY StepInv, EventsGoForward DEF IInv
<1> QED
    BY <1>1, <1>2, InitInv, PTL DEF Spec

\* For any number of commands in any order, and wherever processes die and the board
\* fails, no event is applied twice but by a process that follows one which ended
\* between the event's line and its row (ingest).
THEOREM NoneAppliedTwice == Spec => []AppliedOnce
<1>1. IInv /\ Bookkeeping => AppliedOnce
  <2> SUFFICES ASSUME IInv, Bookkeeping, NEW e \in CommandEvents PROVE applied[e] <= 1 + torn[e]
      BY DEF AppliedOnce
  <2>1. applied[e] \in Nat /\ torn[e] \in Nat
      BY DEF IInv, TypeOK
  <2>2. applied[e] <= torn[e] + 1 \/ applied[e] <= torn[e] + 0
      BY DEF Bookkeeping, AppliedThenConsumed
  <2> QED
      BY <2>1, <2>2
<1> QED
    BY <1>1, BookkeepingInvariant, PTL

\* As soon as ingest is over a consumed command has landed or was answered, unless
\* a process ended between the rejection's row and its reply (ingest).
THEOREM NoneIgnored == Spec => []NeverSilent
<1>1. IInv /\ Bookkeeping => NeverSilent
    BY DEF Bookkeeping, ConsumedThenAnswered, HalfRejected, NeverSilent, Consumed, At
<1> QED
    BY <1>1, BookkeepingInvariant, PTL

\* As soon as ingest is over nothing a command wrote is left out of a commit but what
\* a process that ended left, and in a shared tree nothing at all (ingest,
\* turn.commit, _refuse_if_dirty).
THEOREM NoneUncommitted == Spec => []EffectsAreCommitted
<1>1. IInv /\ Bookkeeping => EffectsAreCommitted
    BY DEF Bookkeeping, CommitFollows, InHand, EffectsAreCommitted, At
<1> QED
    BY <1>1, BookkeepingInvariant, PTL

=============================================================================
