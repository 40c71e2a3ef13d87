----------------------------- MODULE MCSupervision ----------------------------
(***************************************************************************)
(* Small instances of Supervision for TLC.                                 *)
(***************************************************************************)
EXTENDS Supervision

Result(field, value) == [Line("result") EXCEPT ![field] = value]

\* One terminal event for each branch of the classification, and two for which
\* branches compete.
Results == {Line("result"), Result("status", "quota"), Result("status", "auth"), Result("denied", TRUE),
            Result("subtype", "max_turns"), Result("subtype", "budget"),
            Result("is_error", TRUE), [Result("budget", TRUE) EXCEPT !.refusal = TRUE],
            [Result("denied", TRUE) EXCEPT !.status = "quota"]}

AllLines == {Line(kind) : kind \in {"turn", "rate_limit", "leaky_init"}} \cup Results
TurnLines == {Line("turn"), Line("result")}
=============================================================================
