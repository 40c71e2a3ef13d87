----------------------------- MODULE Supervision ------------------------------
(***************************************************************************)
(* One run of the agent under the supervisor, from the launch to the turn  *)
(* record (executor/claude.run, executor/stream.StreamReader,              *)
(* executor/outcome, runtime/supervise.govern, and what turn._dispose      *)
(* makes of the result).                                                   *)
(*                                                                         *)
(* The agent appends lines to its event stream, a write at a time; the     *)
(* supervisor reads the stream while the agent is still writing it.  A     *)
(* line is its kind and, for the terminal event, the fields the            *)
(* classification looks at.  govern is called as the turn calls it: with   *)
(* no recorder, so the one record of the run is the turn's.                *)
(***************************************************************************)
EXTENDS Integers, FiniteSets, Sequences, FiniteSetsExt

CONSTANTS
    Lines,        \* the lines an agent may write
    WallClock,    \* the run's deadline, in ticks
    Grace,        \* ticks between SIGTERM and SIGKILL
    TurnCeiling,
    MaxLines      \* bound on the instance: lines one agent writes

(***************************************************************************)
(* The vocabulary of the stream.                                           *)
(***************************************************************************)
Kinds == {"turn", "rate_limit", "init", "leaky_init", "other", "result"}
LineForms == [kind : Kinds,
              status : {"ok", "quota", "auth"},   \* api_error_status
              denied : BOOLEAN,                   \* permission_denials
              subtype : {"success", "max_turns", "budget", "error"},
              budget : BOOLEAN,                   \* terminal_reason
              refusal : BOOLEAN,                  \* stop_reason
              is_error : BOOLEAN]

Line(kind) == [kind |-> kind, status |-> "ok", denied |-> FALSE, subtype |-> "success",
               budget |-> FALSE, refusal |-> FALSE, is_error |-> FALSE]
NoLine == Line("none")

\* Exit statuses as Popen reports them: an agent that handles SIGTERM exits
\* with 143, one that does not has -15, and SIGKILL gives -9.
Running == 1000
Handled == 143
Terminated == -15
Killed == -9
ExitCodes == {0, 1, Handled, Terminated, Killed}

ASSUME SupervisionAssumption ==
    /\ Lines \subseteq LineForms
    /\ {WallClock, Grace, TurnCeiling} \subseteq Nat \ {0} /\ MaxLines \in Nat

VARIABLES
    agent,        \* "none", "running", "signalled" or "gone"
    exit,         \* its exit status
    transcript,   \* the whole lines of its stream
    partial,      \* the line it is in the middle of writing
    reader,       \* what StreamReader has consumed
    clock,        \* ticks since the launch, up to the deadline
    patience,     \* ticks left of the grace window
    pc,           \* where claude.run is
    stop,         \* supervise.Stop
    governed,     \* the outcome and author of the record govern returns
    result,       \* the RunResult
    record        \* the outcome, author and reasons of the turn's record

vars == <<agent, exit, transcript, partial, reader, clock, patience, pc, stop,
          governed, result, record>>

process == <<agent, exit, transcript, partial>>
time == <<clock, patience>>
verdicts == <<governed, result, record>>

-----------------------------------------------------------------------------
Unread == [at |-> 0, turns |-> 0, limited |-> FALSE, init |-> "none",
           terminal |-> NoLine]
Completed == [reason |-> "completed", by_harness |-> FALSE, kind |-> "none"]
NoVerdict == [outcome |-> "none", enforced_by |-> "nobody"]
NoResult == [outcome |-> "none", kind |-> "none"]
NoRecord == [outcome |-> "none", enforced_by |-> "nobody", failure_kind |-> "none",
             blocked_kind |-> "none"]

Init ==
    /\ agent = "none" /\ exit = Running /\ transcript = <<>> /\ partial = NoLine
    /\ reader = Unread
    /\ clock = 0 /\ patience = 0
    /\ pc = "launch" /\ stop = Completed
    /\ governed = NoVerdict /\ result = NoResult /\ record = NoRecord

(***************************************************************************)
(* The stream reader.                                                      *)
(***************************************************************************)
\* consume, for the lines at the positions `new`: a later initialisation or terminal
\* event takes the place of an earlier one.
Consume(r, new) ==
    LET of(kinds) == {n \in new : transcript[n].kind \in kinds}
        latest(kinds) == transcript[Max(of(kinds))]
        inits == {"init", "leaky_init"}
    IN [r EXCEPT
          !.turns = @ + Cardinality(of({"turn"})),
          !.limited = @ \/ of({"rate_limit"}) # {},
          !.init = IF of(inits) = {} THEN @
                   ELSE IF latest(inits).kind = "init" THEN "clean" ELSE "leaky",
          !.terminal = IF of({"result"}) = {} THEN @ ELSE latest({"result"})]

\* Mutant: half a line is consumed, as the malformed event it is.
PollTorn(r) == [Consume(r, r.at + 1 .. Len(transcript)) EXCEPT
                  !.at = Len(transcript) + (IF partial = NoLine THEN 0 ELSE 1)]

\* Mutant: every call reads from the start.
PollAgain(r) == [Consume(r, 1 .. Len(transcript)) EXCEPT !.at = Len(transcript)]

\* poll: the whole lines written since the last call, and nothing of the one
\* the agent has only begun.
Poll(r) == [Consume(r, r.at + 1 .. Len(transcript)) EXCEPT !.at = Len(transcript)]

(***************************************************************************)
(* The verdict.                                                            *)
(***************************************************************************)
Ending(outcome, kind) == [outcome |-> outcome, kind |-> kind]

NoTerminal(r, code) ==
    CASE code = Handled -> Ending("cancelled", "none")
      [] code # Handled /\ r.limited -> Ending("failed", "rate_limit")
      [] OTHER -> Ending("failed", "bad_output")

\* classify: what the terminal event says, the first match first.
Classify(r, code) ==
    LET event == r.terminal
        starved == event.subtype = "budget" \/ event.budget
    IN IF event = NoLine THEN NoTerminal(r, code)
       ELSE IF event.status = "quota" THEN Ending("failed", "rate_limit")
       ELSE IF event.status = "auth" THEN Ending("failed", "auth")
       ELSE IF event.denied THEN Ending("needs_approval", "none")
       ELSE IF event.subtype = "max_turns" THEN Ending("turn_limit", "none")
       ELSE IF starved THEN Ending("budget_exhausted", "none")
       ELSE IF event.refusal THEN Ending("refused", "none")
       ELSE IF ~event.is_error /\ event.subtype = "success" THEN Ending("success", "none")
       ELSE IF r.limited THEN Ending("failed", "rate_limit")
       ELSE Ending("failed", "task_error")

\* The result of a run: its initialisation event has the last word (claude.run).
Verdict(r, code) == IF r.init = "leaky" THEN Ending("failed", "task_error")
                    ELSE Classify(r, code)

ToProtocol(outcome) ==
    CASE outcome = "success" -> "advanced"
      [] outcome \in {"needs_approval", "refused"} -> "blocked"
      [] OTHER -> "failed"

\* Mutant: only the typed kinds are carried.
TypedKindOf(res) == res.kind

\* The reasons the turn's record carries: failure_kind_of, and _TO_BLOCKED_KIND.
FailureKindOf(res) ==
    IF res.outcome \in {"budget_exhausted", "turn_limit", "cancelled"}
    THEN res.outcome ELSE res.kind
BlockedKindOf(res) == IF res.outcome \in {"needs_approval", "refused"} THEN res.outcome ELSE "none"

(***************************************************************************)
(* The agent, which owes the supervisor nothing.                           *)
(***************************************************************************)
Alive == agent \in {"running", "signalled"}

BeginsLine(line) ==
    /\ Alive /\ partial = NoLine /\ Len(transcript) < MaxLines
    /\ partial' = line
    /\ UNCHANGED <<agent, exit, transcript, reader, time, pc, stop, verdicts>>

EndsLine ==
    /\ Alive /\ partial # NoLine
    /\ transcript' = Append(transcript, partial) /\ partial' = NoLine
    /\ UNCHANGED <<agent, exit, reader, time, pc, stop, verdicts>>

\* The agent ends by itself, or by a signal from elsewhere.
Exits(code) ==
    /\ Alive
    /\ code \in {0, 1, Handled, Terminated}
    /\ agent' = "gone" /\ exit' = code
    /\ UNCHANGED <<transcript, partial, reader, time, pc, stop, verdicts>>

Tick ==
    /\ agent # "none"
    /\ \/ pc = "grace" /\ patience > 0 /\ patience' = patience - 1 /\ UNCHANGED clock
       \/ pc # "grace" /\ clock < WallClock /\ clock' = clock + 1 /\ UNCHANGED patience
    /\ UNCHANGED <<process, reader, pc, stop, verdicts>>

(***************************************************************************)
(* The supervisor: govern, and the rest of claude.run after it.            *)
(***************************************************************************)
Goto(p) == pc' = p

Launch ==
    /\ pc = "launch"
    /\ agent' = "running" /\ Goto("watch")
    /\ UNCHANGED <<exit, transcript, partial, reader, time, stop, verdicts>>

\* send_signal does nothing to a process that has already ended.
Terminate(why) ==
    /\ stop' = why
    /\ agent' = IF agent = "gone" THEN "gone" ELSE "signalled"
    /\ patience' = Grace /\ Goto("grace")

WallClockExceeded == [reason |-> "wall clock", by_harness |-> TRUE, kind |-> "none"]
CeilingExceeded == [reason |-> "turn ceiling", by_harness |-> TRUE, kind |-> "turn_limit"]

\* The head of the polling loop.
Watch ==
    /\ pc = "watch"
    /\ \/ agent = "gone" /\ Goto("verdict") /\ UNCHANGED <<agent, patience, stop>>
       \/ agent # "gone" /\ clock >= WallClock /\ Terminate(WallClockExceeded)
       \/ agent # "gone" /\ clock < WallClock /\ Goto("count")
          /\ UNCHANGED <<agent, patience, stop>>
    /\ UNCHANGED <<exit, transcript, partial, reader, clock, verdicts>>

\* Mutant: the last turn allowed is one too many.
Reaches(turns) == turns >= TurnCeiling

Exceeds(turns) == turns > TurnCeiling

CountTurns ==
    /\ pc = "count"
    /\ reader' = Poll(reader)
    /\ \/ Exceeds(reader'.turns) /\ Terminate(CeilingExceeded)
       \/ ~Exceeds(reader'.turns) /\ Goto("watch") /\ UNCHANGED <<agent, patience, stop>>
    /\ UNCHANGED <<exit, transcript, partial, clock, verdicts>>

GraceEnds ==
    /\ pc = "grace" /\ agent = "gone"
    /\ Goto("verdict")
    /\ UNCHANGED <<process, reader, time, stop, verdicts>>

\* Mutant: the supervisor waits for the signal to be honoured.
KillNothing == FALSE /\ UNCHANGED vars

Kill ==
    /\ pc = "grace" /\ agent # "gone" /\ patience = 0
    /\ agent' = "gone" /\ exit' = Killed /\ Goto("verdict")
    /\ UNCHANGED <<transcript, partial, reader, time, stop, verdicts>>

\* The verdict closure, and the record govern authors.
Author ==
    /\ pc = "verdict"
    /\ reader' = Poll(reader)
    /\ LET flushed == reader'.terminal # NoLine
           says == ToProtocol(Classify(reader', Running).outcome)
       IN governed' = IF stop.by_harness \/ ~flushed
                      THEN [outcome |-> "failed", enforced_by |-> "harness"]
                      ELSE [outcome |-> says, enforced_by |-> "agent"]
    /\ Goto("classify")
    /\ UNCHANGED <<process, time, stop, result, record>>

\* claude.run classifies once more, from the stream and the exit status alone.
ClassifyRun ==
    /\ pc = "classify"
    /\ reader' = Poll(reader)
    /\ result' = Verdict(reader', exit)
    /\ Goto("dispose")
    /\ UNCHANGED <<process, time, stop, governed, record>>

\* What a run that succeeded leaves to the rest of the turn: the agent's
\* proposal is applied, or it is refused by the harness.
Proposed == {[NoRecord EXCEPT !.outcome = o, !.enforced_by = "agent"] :
                o \in {"advanced", "blocked", "failed"}}
            \cup {[NoRecord EXCEPT !.outcome = "failed", !.enforced_by = "harness"]}

Dispose ==
    /\ pc = "dispose"
    /\ LET outcome == ToProtocol(result.outcome)
       IN \/ /\ result.outcome = "success"
             /\ record' \in Proposed
          \/ /\ result.outcome # "success" /\ outcome = "blocked"
             /\ record' = [NoRecord EXCEPT !.outcome = "blocked", !.enforced_by = "harness",
                                           !.blocked_kind = BlockedKindOf(result)]
          \/ /\ result.outcome # "success" /\ outcome # "blocked"
             /\ record' = [NoRecord EXCEPT !.outcome = "failed", !.enforced_by = "harness",
                                           !.failure_kind = FailureKindOf(result)]
    /\ Goto("done")
    /\ UNCHANGED <<process, reader, time, stop, governed, result>>

\* The next turn starts a process and a transcript of its own.
NextRun ==
    /\ pc = "done"
    /\ agent' = "none" /\ exit' = Running /\ transcript' = <<>> /\ partial' = NoLine
    /\ reader' = Unread /\ clock' = 0 /\ patience' = 0
    /\ Goto("launch") /\ stop' = Completed
    /\ governed' = NoVerdict /\ result' = NoResult /\ record' = NoRecord

Agent == \/ \E line \in Lines : BeginsLine(line)
         \/ EndsLine
         \/ \E code \in ExitCodes : Exits(code)
Supervisor == \/ Launch \/ Watch \/ CountTurns \/ GraceEnds \/ Kill
              \/ Author \/ ClassifyRun \/ Dispose

Next == Agent \/ Tick \/ Supervisor \/ NextRun
Spec == Init /\ [][Next]_vars

\* Time passes and the supervisor's own process runs.  Nothing is assumed of
\* the agent: it may never end, nor honour the signal.
FairSpec == Spec /\ WF_vars(Tick) /\ WF_vars(Supervisor)

-----------------------------------------------------------------------------
(***************************************************************************)
(* Properties.                                                             *)
(***************************************************************************)
\* Every variable has its type: the reader never counts or keeps more than the
\* transcript holds, however often it polls (StreamReader.poll).
TypeOK ==
    /\ agent \in {"none", "running", "signalled", "gone"}
    /\ exit \in ExitCodes \cup {Running}
    /\ transcript \in Seq(Lines) /\ Len(transcript) <= MaxLines
    /\ partial \in Lines \cup {NoLine}
    /\ reader \in [at : 0 .. MaxLines, turns : 0 .. MaxLines, limited : BOOLEAN,
                   init : {"none", "clean", "leaky"}, terminal : Lines \cup {NoLine}]
    /\ clock \in 0 .. WallClock /\ patience \in 0 .. Grace
    /\ pc \in {"launch", "watch", "count", "grace", "verdict", "classify", "dispose", "done"}
    /\ stop \in {Completed, WallClockExceeded, CeilingExceeded}

Written(kind) == {n \in 1 .. Len(transcript) : transcript[n].kind = kind}

\* The run's result is what the last whole terminal event of the finished
\* stream says, however the reads fell between the agent's writes, and a run
\* with no such event has failed on every exit status (stream.py's header;
\* openspec/specs/claude-executor/terminal-verdict).
TheLastWordIsTheVerdict ==
    pc \in {"dispose", "done"} =>
        LET words == Written("result")
            last == transcript[Max(words)]
            sound == last.status = "ok" /\ ~last.denied /\ ~last.refusal /\ ~last.budget
                     /\ ~last.is_error /\ last.subtype = "success"
        IN /\ result.outcome = "success" => words # {} /\ sound
           /\ words # {} /\ sound /\ Written("leaky_init") = {} => result.outcome = "success"

\* A run the supervisor stopped had used up its time or had taken more turns
\* than it was allowed (supervise.govern).
OnlyOverrunsAreStopped ==
    stop.by_harness =>
        clock = WallClock \/ Cardinality(Written("turn")) > TurnCeiling

\* A run that ended for want of quota or budget, and for no other reason, is
\* recorded as starved: the stall detector tells "wait" from "fix" by this
\* reason alone (protocol/turn.STARVATION, stream.classify).
StarvedRunsSaySo ==
    pc = "done" =>
        LET event == reader.terminal
        IN event # NoLine /\ reader.init # "leaky" /\ ~event.denied
           /\ \/ event.status = "quota"
              \/ /\ event.status = "ok" /\ event.subtype # "max_turns"
                 /\ event.subtype = "budget" \/ event.budget
           => /\ record.outcome = "failed"
              /\ record.failure_kind \in {"rate_limit", "budget_exhausted"}

\* Every run ends, also that of an agent that hangs and ignores the signal
\* ("Every run is bounded by a wall clock").
EveryRunEnds == pc = "launch" ~> pc = "done"

\* Claimed by openspec/specs/run-guardrails/run-supervision: "A verdict flushed
\* during the grace period does not reclaim authorship".  govern discards the
\* verdict, and claude.run then reads it again.
StoppedRunsHaveFailed == pc = "done" /\ stop.by_harness => record.outcome = "failed"

=============================================================================
