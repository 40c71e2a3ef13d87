---------------------------- MODULE ItemLifecycle ----------------------------
(***************************************************************************)
(* What the turn cycle promises about an item, without turns, locks, sweeps*)
(* or crashes: an item moves between the states of protocol/backlog.py, it *)
(* spends an attempt only when a lease expires or its work is reported     *)
(* failed, and it is taken up again only while attempts are left.  A block *)
(* may return it to any state, failed and snoozed among them.              *)
(* TurnCycle implements this specification (TurnCycle!ImplementsLifecycle).*)
(***************************************************************************)
EXTENDS Backlog

CONSTANTS
    Items,
    MaxAttempts,    \* Guardrails.max_attempts
    ReturnTargets,  \* states an agent's block may ask to return to
    Misreports,     \* attempt numbers an agent may report instead of the lease's
    ClaimCap        \* bound: claims are counted up to this

\* What a user of this module has to show of its constants.
ConstantsOK ==
    /\ MaxAttempts \in Nat \ {0}
    /\ Misreports \subseteq Nat
    /\ ClaimCap \in Nat /\ ClaimCap > MaxAttempts

VARIABLES
    state,     \* of each item
    claims,    \* how often it was claimed
    lost,      \* how many of these claims expired or were reported failed
    reported   \* the attempt its last failure's record names, until it is closed

vars == <<state, claims, lost, reported>>

Init == /\ state = [i \in Items |-> Absent]
        /\ claims = [i \in Items |-> 0]
        /\ lost = [i \in Items |-> 0]
        /\ reported = [i \in Items |-> 0]

Enter(i, s) == /\ state' = [state EXCEPT ![i] = s]
               /\ UNCHANGED reported

Create(i) == /\ state[i] = Absent
             /\ Enter(i, "ready")
             /\ UNCHANGED <<claims, lost>>

\* A planning turn takes back what it has just created.
Discard(created) ==
    /\ \A i \in created : state[i] = "ready" /\ lost[i] = 0
    /\ state' = [i \in Items |-> IF i \in created THEN Absent ELSE state[i]]
    /\ claims' = [i \in Items |-> IF i \in created THEN 0 ELSE claims[i]]
    /\ reported' = [i \in Items |-> IF i \in created THEN 0 ELSE reported[i]]
    /\ UNCHANGED lost

Count(n) == IF n < ClaimCap THEN n + 1 ELSE ClaimCap

Claim(i) == /\ state[i] = "ready"
            /\ Enter(i, "claimed")
            /\ claims' = [claims EXCEPT ![i] = Count(@)]
            /\ UNCHANGED lost

\* Where an item goes on to without spending an attempt or closing.
Onward(s) == CASE s = "ready" -> {"snoozed"}
               [] s = "snoozed" -> {"ready"}
               [] s = "claimed" -> {"doing", "ready", "blocked"}
               [] s = "doing" -> {"ready", "blocked", "needs_split"}
               [] s = "blocked" -> {"snoozed", "doing"}
                                    \cup ((ReturnTargets \cap States) \ Terminal)
               [] OTHER -> {}

Move(i, s) == /\ s \in Onward(state[i])
              /\ Enter(i, s)
              /\ UNCHANGED <<claims, lost>>

Close(i, s) == /\ state[i] \in NonTerminal /\ s \in Terminal
               /\ state' = [state EXCEPT ![i] = s]
               /\ reported' = [reported EXCEPT ![i] = 0]
               /\ UNCHANGED <<claims, lost>>

Expire(i) == /\ state[i] \in Leased /\ claims[i] < MaxAttempts
             /\ Enter(i, "ready")
             /\ lost' = [lost EXCEPT ![i] = @ + 1]
             /\ UNCHANGED claims

\* The attempt an understated failure ends is not spent.
Fail(i, attempt) == /\ state[i] \in Leased
                    /\ attempt \in {claims[i]} \cup Misreports
                    /\ state' = [state EXCEPT ![i] = "failed"]
                    /\ reported' = [reported EXCEPT ![i] = attempt]
                    /\ lost' = IF attempt >= claims[i] THEN [lost EXCEPT ![i] = @ + 1] ELSE lost
                    /\ UNCHANGED claims

Retry(i) == /\ state[i] = "failed" /\ reported[i] < MaxAttempts
            /\ Enter(i, "ready")
            /\ UNCHANGED <<claims, lost>>

Step(i) == \/ Create(i) \/ Claim(i) \/ Expire(i) \/ Retry(i)
           \/ \E s \in States : Move(i, s) \/ Close(i, s)
           \/ \E attempt \in {claims[i]} \cup Misreports : Fail(i, attempt)

Next == \/ \E i \in Items : Step(i)
        \/ \E created \in SUBSET Items : Discard(created)

Spec == Init /\ [][Next]_vars

-----------------------------------------------------------------------------
\* An item never loses more than max_attempts leases, whether each expired or was
\* reported failed, and whatever else agents report: only a failure that names an
\* earlier attempt than its lease's is not counted (backlog-item-format:
\* "reclaiming is bounded by the attempt counter").
LossesAreCapped == \A i \in Items : lost[i] <= MaxAttempts

\* Why: the losses never outrun the claims, a lease in force is a claim not yet
\* lost, and only an item with attempts left is anything but closed, or failed
\* with a record that says they are spent.
LossesFollowClaims == \A i \in Items :
    /\ lost[i] <= claims[i]
    /\ state[i] \in Behind => lost[i] < claims[i]
    /\ state[i] = "failed" => lost[i] <= reported[i] \/ lost[i] < MaxAttempts
    /\ state[i] \in {Absent} \cup (NonTerminal \ {"failed"}) => lost[i] < MaxAttempts
    /\ state[i] = Absent => lost[i] = 0

=============================================================================
