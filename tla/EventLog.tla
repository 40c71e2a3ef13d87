------------------------------ MODULE EventLog ------------------------------
(***************************************************************************)
(* The generic fold of an append-only log (protocol/eventlog.py): the lines*)
(* of a file, in file order, become a state or make the read fail.         *)
(*                                                                         *)
(* A line is a record with at least                                        *)
(*   id, ts     the event's id and its writer's clock                      *)
(*   event      its name; a line that is not JSON, or lacks one of the four*)
(*              required fields, has a name no declaration knows           *)
(*   complete   it carries every field its rule requires, of the right type*)
(*   ret        awaiting.return_to, or something that is no state          *)
(* A declaration is [initial, states, rules]; rules maps an event's name to*)
(* a sequence of [from, to, required], the first that matches being used.  *)
(***************************************************************************)
EXTENDS Naturals, Sequences, FiniteSets, SequencesExt

\* What a rule's `to` may be besides a state: None and ReturnTo(...).
Unchanged == "unchanged"
ReturnTo == "return to"

\* The state before the first event, and what a LogError leaves the reader with.
Nowhere == "nowhere"
Unreadable == "unreadable"

Before(a, b) == a.ts < b.ts \/ (a.ts = b.ts /\ a.id < b.id)

\* Mutant: the lines are replayed in file order.
FileOrder(kept, r) ==
    IF \E k \in DOMAIN kept : kept[k].id = r.id THEN kept ELSE Append(kept, r)

\* Of the lines that share an id, which are equal or make the read fail, one is
\* kept, at its place in (ts, event_id) order.
Keep(kept, r) ==
    IF \E k \in DOMAIN kept : kept[k].id = r.id THEN kept
    ELSE InsertAt(kept, Cardinality({k \in DOMAIN kept : Before(kept[k], r)}) + 1, r)

\* _dedup.
Records(lines) == FoldLeft(Keep, <<>>, lines)

\* Lines that share an id without being the same event.
Conflicting(lines) ==
    \E i, j \in DOMAIN lines : lines[i].id = lines[j].id /\ lines[i] # lines[j]

\* _select: the rules that match; the first one declared is used.
Matching(declaration, state, event) ==
    IF event \in DOMAIN declaration.rules
    THEN {i \in DOMAIN declaration.rules[event] :
             state = Nowhere \/ state \in declaration.rules[event][i].from}
    ELSE {}

\* One turn of _fold's loop.  `stored` remembers, for every state, the ret of
\* the record that last led into it.
FoldStep(declaration, log, r) ==
    LET matching == Matching(declaration, log.state, r.event)
        rule == declaration.rules[r.event][Min(matching)]
        target == CASE rule.to = Unchanged -> log.state
                    [] rule.to = ReturnTo -> log.stored[log.state]
                    [] OTHER -> rule.to
    IN IF /\ log.state # Unreadable
          /\ matching # {}
          /\ (log.state = Nowhere) <=> (r.event = declaration.initial)
          /\ rule.required => r.complete
          /\ target \in declaration.states
       THEN [state |-> target,
             stored |-> IF rule.to = Unchanged THEN log.stored
                        ELSE [log.stored EXCEPT ![target] = r.ret]]
       ELSE [log EXCEPT !.state = Unreadable]

\* _fold: what the records make of the empty log.
Fold(declaration, records) ==
    FoldLeft(LAMBDA log, r : FoldStep(declaration, log, r),
             [state |-> Nowhere, stored |-> [s \in declaration.states |-> Nowhere]], records)

\* load: the state the log folds to, or Unreadable.
StateOf(declaration, lines) ==
    IF lines = <<>> \/ Conflicting(lines) THEN Unreadable
    ELSE Fold(declaration, Records(lines)).state

=============================================================================
