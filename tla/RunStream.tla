------------------------------ MODULE RunStream -------------------------------
(***************************************************************************)
(* The turn-record stream and the stall detector that reads it             *)
(* (runtime/runs.py, runtime/stall.py, and the two calls that write it:    *)
(* supervise.StreamRecorder, and open_run and append in turn.take_turn).   *)
(*                                                                         *)
(* The stream is a directory: a run is declared by a marker and ended by a *)
(* record, both named after the second the run began and its id.  A record *)
(* is written in place, so a process can die, and a reader can look, while *)
(* it is half written.                                                     *)
(***************************************************************************)
EXTENDS Naturals, FiniteSets

CONSTANTS
    Runs,         \* run ids, in the order of their names
    Window,       \* positions the detector judges
    Reach,        \* positions it looks back over for the last advance (10_000)
    Kinds,        \* the failure kinds the writers use
    MaxClock      \* bound on the instance: seconds

Starvation == {"rate_limit", "budget_exhausted"}
FailureKinds == Starvation \cup {"turn_limit", "cancelled", "auth", "crash", "bad_output",
                                 "task_error", "version_mismatch"}

ASSUME StreamAssumption ==
    /\ Runs \subseteq Nat /\ IsFiniteSet(Runs)
    /\ {Window, Reach, MaxClock} \subseteq Nat \ {0}
    /\ Kinds \subseteq FailureKinds

VARIABLES
    clock,        \* in seconds
    run,          \* what became of each run: "new", "open", "writing", "ended" or "dead"
    stamp,        \* the second in the name of its marker, 0 when it has none
    file          \* its record: NoFile, TornFile or what it says

vars == <<clock, run, stamp, file>>

-----------------------------------------------------------------------------
Record(outcome, kind) == [outcome |-> outcome, kind |-> kind]
NoFile == Record("absent", "none")
TornFile == Record("torn", "none")

\* What TurnRecord accepts: only a failure has a kind, and it need not.
Records == {Record(o, "none") : o \in {"advanced", "blocked", "nothing_ready", "failed"}}
           \cup {Record("failed", k) : k \in Kinds}

Init ==
    /\ clock = 1
    /\ run = [r \in Runs |-> "new"]
    /\ stamp = [r \in Runs |-> 0]
    /\ file = [r \in Runs |-> NoFile]

\* open_run: the marker, before any work.
OpenRun(r) ==
    /\ run[r] = "new"
    /\ run' = [run EXCEPT ![r] = "open"]
    /\ stamp' = [stamp EXCEPT ![r] = clock]
    /\ UNCHANGED <<clock, file>>

\* append: the file is created empty, and then filled.  It is never rewritten.
BeginRecord(r) ==
    /\ run[r] = "open" /\ file[r] = NoFile
    /\ run' = [run EXCEPT ![r] = "writing"]
    /\ file' = [file EXCEPT ![r] = TornFile]
    /\ UNCHANGED <<clock, stamp>>

EndRecord(r, record) ==
    /\ run[r] = "writing"
    /\ run' = [run EXCEPT ![r] = "ended"]
    /\ file' = [file EXCEPT ![r] = record]
    /\ UNCHANGED <<clock, stamp>>

\* The process that owes the record dies, or TurnRecord refuses what it would say.
Die(r) ==
    /\ run[r] \in {"open", "writing"}
    /\ run' = [run EXCEPT ![r] = "dead"]
    /\ UNCHANGED <<clock, stamp, file>>

Tick ==
    /\ clock < MaxClock /\ clock' = clock + 1
    /\ UNCHANGED <<run, stamp, file>>

Next ==
    \/ \E r \in Runs : OpenRun(r) \/ BeginRecord(r) \/ Die(r)
    \/ \E r \in Runs, record \in Records : EndRecord(r, record)
    \/ Tick

Spec == Init /\ [][Next]_vars

(***************************************************************************)
(* The detector, on the directory as it is when it looks.                  *)
(***************************************************************************)
Before(r, q) == \/ stamp[r] < stamp[q]
                \/ stamp[r] = stamp[q] /\ r < q

\* Mutant: only the runs that left a record are positions.
RecordedOnly == {r \in Runs : file[r] # NoFile}

Declared == {r \in Runs : stamp[r] # 0 \/ file[r] # NoFile}

\* It refuses a record it cannot read, in the window or not.
Readable == \A r \in Declared : file[r] # TornFile

\* read_window: the last n names of the sorted ones.
Newer(r) == {q \in Declared : Before(r, q)}
LastNames(n) == {r \in Declared : Cardinality(Newer(r)) < n}

\* detect: what it calls everything, and the window it judges.
Everything == LastNames(IF Window > Reach THEN Window ELSE Reach)
Examined == LastNames(Window)

IsGap(r) == file[r] = NoFile
OutcomeOf(r) == IF IsGap(r) THEN "failed" ELSE file[r].outcome

\* Mutant: a run that gives no reason is given the benefit of the doubt.
StarvedOrSilent(r) == OutcomeOf(r) = "failed" /\ (IsGap(r) \/ file[r].kind \in Starvation)

Starved(r) == OutcomeOf(r) = "failed" /\ ~IsGap(r) /\ file[r].kind \in Starvation

\* evaluate: the status of the window.
Status ==
    CASE \E r \in Examined : OutcomeOf(r) = "advanced" -> "ok"
      [] Examined # {} /\ \A r \in Examined : Starved(r) -> "starved"
      [] OTHER -> "stalled"

\* The alarm says there was no advance anywhere if this is empty.
LastAdvance == {r \in Everything : /\ OutcomeOf(r) = "advanced"
                                   /\ \A q \in Newer(r) : OutcomeOf(q) # "advanced"}

-----------------------------------------------------------------------------
(***************************************************************************)
(* Properties, in terms of the runs rather than of the directory.  Two     *)
(* runs of one second have no order.                                       *)
(***************************************************************************)
Started == {r \in Runs : run[r] # "new"}
After(r) == {q \in Started \ {r} : stamp[q] > stamp[r]}
NotBefore(r) == {q \in Started \ {r} : stamp[q] >= stamp[r]}
SurelyLast(n) == {r \in Started : Cardinality(NotBefore(r)) < n}
PossiblyLast(n) == {r \in Started : Cardinality(After(r)) < n}
SurelyRecent == SurelyLast(Window)
PossiblyRecent == PossiblyLast(Window)
Advanced(r) == run[r] = "ended" /\ file[r].outcome = "advanced"

\* Every variable has its type, and every run that was ever started is named on
\* disk, so that what dies before its record is still a position (runs.open_run).
TypeOK ==
    /\ clock \in 1 .. MaxClock
    /\ run \in [Runs -> {"new", "open", "writing", "ended", "dead"}]
    /\ stamp \in [Runs -> 0 .. MaxClock]
    /\ file \in [Runs -> Records \cup {NoFile, TornFile}]
    /\ \A r \in Runs : (stamp[r] # 0) = (run[r] # "new")

\* The run the alarm names as the last advance is the latest of all that advanced,
\* and one of the last Reach runs did not if it names none.  Of older runs it says
\* nothing: "no advance anywhere in the stream" may be said of a stream that has one
\* (against run-guardrails/stall-detection, "the position of the most recent
\* `advanced` record if one exists outside the window").
AlarmNamesTheLastAdvance ==
    /\ \A r \in LastAdvance : Advanced(r) /\ \A q \in After(r) : ~Advanced(q)
    /\ (\E r \in SurelyLast(Reach) : Advanced(r)) => LastAdvance # {}

\* The alarm is silent exactly when one of the last Window runs started has
\* advanced: a run that died, is still going or had nothing to do takes its
\* place in the window and cannot be mistaken for one that never was; and when it
\* sounds it says since when nothing has advanced, as far as it looks back
\* (stall.evaluate, stall.detect; run-guardrails/stall-detection).
SilenceMeansProgress ==
    Readable =>
        /\ Status = "ok" => \E r \in PossiblyRecent : Advanced(r)
        /\ (\E r \in SurelyRecent : Advanced(r)) => Status = "ok"
        /\ AlarmNamesTheLastAdvance

\* "Wait" is the advice only if every recent run is known to have ended for
\* want of quota or budget; one death among them makes it "fix".
WaitingIsWarranted ==
    Readable /\ Status = "starved" =>
        \A r \in SurelyRecent :
            run[r] = "ended" /\ file[r].outcome = "failed" /\ file[r].kind \in Starvation

=============================================================================
