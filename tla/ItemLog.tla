------------------------------- MODULE ItemLog -------------------------------
(***************************************************************************)
(* The item as the fold of its log: ITEM as a declaration for EventLog, and*)
(* the readers of protocol/backlog.py and runtime/turn.py over the records.*)
(***************************************************************************)
EXTENDS Backlog, EventLog

RuleFor(e) ==
    [from |-> From[e],
     to |-> CASE To[e] = Stay -> Unchanged
              [] To[e] = Stored -> ReturnTo
              [] OTHER -> To[e],
     required |-> e \notin {"started", "frame_amended"}]

ITEM == [initial |-> "created", states |-> States,
         rules |-> [e \in Events |-> <<RuleFor(e)>>]]

\* A record as the turn and the board write them; `body` is what its readers
\* read back, in the form the item's view keeps it.
Line(id, ts, e, body) ==
    [id |-> id, ts |-> ts, event |-> e, complete |-> TRUE, body |-> body,
     ret |-> IF e = "blocked" THEN body.ret ELSE Nowhere]

OfEvent(records, e) == {n \in DOMAIN records : records[n].event = e}

\* Mutant: the first record of an event instead of the last.
FirstBody(records, e, none) ==
    IF OfEvent(records, e) = {} THEN none ELSE records[Min(OfEvent(records, e))].body

\* _last: the most recent record of an event.
LastBody(records, e, none) ==
    IF OfEvent(records, e) = {} THEN none ELSE records[Max(OfEvent(records, e))].body

claims(records) == Cardinality(OfEvent(records, "claimed"))
lease(records) == LastBody(records, "claimed", 0)
awaiting(records) == LastBody(records, "blocked", NoBlock)
failure(records) == LastBody(records, "failed", NoFailure)
scheduled_for(records) == LastBody(records, "snoozed", 0)
priority(records) == LastBody(records, "priority_set", 0)
resumes(records) == records[Len(records)].event = "gate_rejected"

=============================================================================
