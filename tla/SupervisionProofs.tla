--------------------------- MODULE SupervisionProofs ---------------------------
(***************************************************************************)
(* Theorems about Supervision, for any deadline, grace and ceiling, any    *)
(* lines an agent may write, and any way the reads fall between its writes.*)
(***************************************************************************)
EXTENDS Supervision, FiniteSetTheorems, TLAPS

-----------------------------------------------------------------------------
(* The latest of some positions.                                           *)

LEMMA LeastExists ==
    ASSUME NEW S, S \subseteq Nat, S # {}
    PROVE  \E x \in S : \A y \in S : x <= y
  <1> DEFINE R == OpToRel(<, Nat)
  <1>1. PICK x \in S : \A y \in S : ~(<<y, x>> \in R)
    BY NatLessThanWellFounded, WFMin
  <1>2. ASSUME NEW y \in S PROVE ~(y < x)
    <2>1. y < x => <<y, x>> \in R
      BY DEF OpToRel
    <2>2. QED
      BY <1>1, <2>1
  <1> HIDE DEF R
  <1>3. QED
    BY <1>2

LEMMA MaxOfPositions ==
    ASSUME NEW n \in Nat, NEW S \in SUBSET (1 .. n), S # {}
    PROVE  Max(S) \in S /\ \A x \in S : Max(S) >= x
  <1> DEFINE D == {n - x : x \in S}
  <1>0. \A x \in S : x \in Nat /\ n - x \in Nat
    OBVIOUS
  <1>1. D \subseteq Nat /\ D # {}
    BY <1>0
  <1>2. PICK d \in D : \A e \in D : d <= e
    BY <1>1, LeastExists
  <1>3. PICK x \in S : d = n - x
    OBVIOUS
  <1>4. ASSUME NEW y \in S PROVE x >= y
    <2>1. n - x <= n - y
      BY <1>2, <1>3
    <2>2. QED
      BY <1>0, <2>1
  <1>5. QED
    BY <1>4 DEF Max

\* The greatest of the later positions is the greatest of all.
LEMMA MaxOfLater ==
    ASSUME NEW m \in Nat, NEW n \in Nat, NEW S \in SUBSET (1 .. m),
           NEW T \in SUBSET (m + 1 .. n), T # {}
    PROVE  Max(S \cup T) = Max(T)
  <1>1. S \cup T \in SUBSET (1 .. (m + n)) /\ T \in SUBSET (1 .. (m + n)) /\ m + n \in Nat
    OBVIOUS
  <1>2. Max(T) \in T /\ \A x \in T : Max(T) >= x
    BY <1>1, MaxOfPositions
  <1>3. Max(S \cup T) \in S \cup T /\ \A x \in S \cup T : Max(S \cup T) >= x
    BY <1>1, MaxOfPositions
  <1>4. /\ \A x \in T : x \in Nat /\ x > m
        /\ \A x \in S : x \in Nat /\ x <= m
    OBVIOUS
  <1> DEFINE a == Max(S \cup T)
             b == Max(T)
  <1>5. /\ b \in T /\ \A x \in T : b >= x
        /\ a \in S \/ a \in T
        /\ \A x \in T : a >= x
    BY <1>2, <1>3
  <1> HIDE DEF a, b
  <1>6. a = b
    <2>1. b \in Nat /\ b > m
      BY <1>4, <1>5
    <2>0. a >= b /\ a \in Nat
      BY <1>4, <1>5
    <2>2. a \notin S
      BY <1>4, <2>0, <2>1
    <2>3. a \in T /\ a \in Nat /\ b >= a
      BY <1>4, <1>5, <2>2
    <2>4. QED
      BY <2>0, <2>1, <2>3
  <1>7. QED
    BY <1>6 DEF a, b

-----------------------------------------------------------------------------
(***************************************************************************)
(* The reader.  What it holds is what the first n lines of a transcript t  *)
(* say, in whatever portions it has consumed them.                         *)
(***************************************************************************)
Of(t, n, kinds) == {k \in 1 .. n : t[k].kind \in kinds}

Latest(t, n, kinds) == t[Max(Of(t, n, kinds))]

Inits == {"init", "leaky_init"}

Heard(t, n) ==
    [at |-> n,
     turns |-> Cardinality(Of(t, n, {"turn"})),
     limited |-> Of(t, n, {"rate_limit"}) # {},
     init |-> IF Of(t, n, Inits) = {} THEN "none"
              ELSE IF Latest(t, n, Inits).kind = "init" THEN "clean" ELSE "leaky",
     terminal |-> IF Of(t, n, {"result"}) = {} THEN NoLine ELSE Latest(t, n, {"result"})]

ReaderIsPrefix == /\ reader.at \in 0 .. Len(transcript)
                  /\ reader = Heard(transcript, reader.at)

LEMMA OfIsFinite ==
    ASSUME NEW t, NEW n \in Nat, NEW kinds
    PROVE  /\ Of(t, n, kinds) \in SUBSET (1 .. n) /\ IsFiniteSet(Of(t, n, kinds))
           /\ Cardinality(Of(t, n, kinds)) \in 0 .. n
  <1>1. Of(t, n, kinds) \in SUBSET (1 .. n)
    BY DEF Of
  <1>2. IsFiniteSet(1 .. n) /\ Cardinality(1 .. n) = n
    BY FS_Interval
  <1>3. QED
    BY <1>1, <1>2, FS_Subset, FS_CardinalityType

\* Reading on from line n adds what the lines behind it say.
LEMMA OfSplits ==
    ASSUME NEW t, NEW m \in Nat, NEW n \in 0 .. m, NEW kinds
    PROVE  LET new == {k \in n + 1 .. m : t[k].kind \in kinds} IN
           /\ Of(t, m, kinds) = Of(t, n, kinds) \cup new
           /\ Cardinality(Of(t, m, kinds)) = Cardinality(Of(t, n, kinds)) + Cardinality(new)
           /\ new # {} => Max(Of(t, m, kinds)) = Max(new)
  <1> DEFINE new == {k \in n + 1 .. m : t[k].kind \in kinds}
  <1>1. Of(t, m, kinds) = Of(t, n, kinds) \cup new
    BY DEF Of
  <1>2. Of(t, n, kinds) \in SUBSET (1 .. n) /\ new \in SUBSET (n + 1 .. m)
    BY DEF Of
  <1>3. Of(t, n, kinds) \cap new = {}
    BY <1>2
  <1>4. IsFiniteSet(Of(t, n, kinds)) /\ IsFiniteSet(new)
    <2>1. new \in SUBSET Of(t, m, kinds)
      BY <1>1
    <2>2. QED
      BY <2>1, OfIsFinite, FS_Subset
  <1> HIDE DEF new
  <1>5. Cardinality(Of(t, m, kinds)) = Cardinality(Of(t, n, kinds)) + Cardinality(new)
    <2>1. /\ Cardinality(Of(t, n, kinds)) \in Nat /\ Cardinality(new) \in Nat
          /\ Cardinality({}) = 0
      BY <1>4, FS_CardinalityType, FS_EmptySet
    <2>2. Cardinality(Of(t, n, kinds) \cup new) = Cardinality(Of(t, n, kinds))
            + Cardinality(new) - Cardinality(Of(t, n, kinds) \cap new)
      BY <1>4, FS_Union
    <2>3. /\ Cardinality(Of(t, n, kinds) \cup new) = Cardinality(Of(t, m, kinds))
          /\ Cardinality(Of(t, n, kinds) \cap new) = 0
      BY <1>1, <1>3, <2>1, Zenon
    <2>4. QED
      BY <2>1, <2>2, <2>3
  <1>6. new # {} => Max(Of(t, m, kinds)) = Max(new)
    <2>1. n \in Nat /\ m \in Nat
      OBVIOUS
    <2>2. new # {} => Max(Of(t, n, kinds) \cup new) = Max(new)
      <3> DEFINE old == Of(t, n, kinds)
      <3>1. old \in SUBSET (1 .. n) /\ new \in SUBSET (n + 1 .. m)
        BY <1>2
      <3> HIDE DEF old
      <3>2. ASSUME new # {} PROVE Max(old \cup new) = Max(new)
        <4>1. \A i, j \in Nat : \A S \in SUBSET (1 .. i), T \in SUBSET (i + 1 .. j) :
                  T # {} => Max(S \cup T) = Max(T)
          BY MaxOfLater
        <4>2. \A S \in SUBSET (1 .. n), T \in SUBSET (n + 1 .. m) :
                  T # {} => Max(S \cup T) = Max(T)
          BY <2>1, <4>1, Zenon
        <4>3. QED
          BY <3>1, <3>2, <4>2, Zenon
      <3>3. QED
        BY <3>2 DEF old
    <2>3. QED
      BY <1>1, <2>2, Zenon
  <1>7. QED
    BY <1>1, <1>5, <1>6 DEF new

LEMMA PollHears ==
    ASSUME transcript \in Seq(Lines), ReaderIsPrefix
    PROVE  Poll(reader) = Heard(transcript, Len(transcript))
  <1> DEFINE m == Len(transcript)
             n == reader.at
             new(kinds) == {k \in n + 1 .. m : transcript[k].kind \in kinds}
             latest(kinds) == transcript[Max(new(kinds))]
  <1>1. m \in Nat /\ n \in 0 .. m /\ reader = Heard(transcript, n)
    BY DEF ReaderIsPrefix
  <1>r. reader = [at |-> n, turns |-> reader.turns, limited |-> reader.limited,
                  init |-> reader.init, terminal |-> reader.terminal]
    BY <1>1 DEF Heard
  <1>2. Poll(reader) =
          [at |-> m,
           turns |-> reader.turns + Cardinality(new({"turn"})),
           limited |-> reader.limited \/ new({"rate_limit"}) # {},
           init |-> IF new(Inits) = {} THEN reader.init
                    ELSE IF latest(Inits).kind = "init" THEN "clean" ELSE "leaky",
           terminal |-> IF new({"result"}) = {} THEN reader.terminal ELSE latest({"result"})]
    <2>1. PICK a, b, c, d, e : reader = [at |-> a, turns |-> b, limited |-> c,
                                         init |-> d, terminal |-> e]
      BY <1>r
    <2>2. a = n /\ b = reader.turns /\ c = reader.limited /\ d = reader.init /\ e = reader.terminal
      BY <2>1
    <2> DEFINE r == [at |-> a, turns |-> b, limited |-> c, init |-> d, terminal |-> e]
    <2> DEFINE of(kinds) == {k \in a + 1 .. m : transcript[k].kind \in kinds}
               turns == b + Cardinality(of({"turn"}))
               limited == c \/ of({"rate_limit"}) # {}
               init == IF of({"init", "leaky_init"}) = {} THEN d
                       ELSE IF transcript[Max(of({"init", "leaky_init"}))].kind = "init"
                            THEN "clean" ELSE "leaky"
               terminal == IF of({"result"}) = {} THEN e ELSE transcript[Max(of({"result"}))]
    <2>3. Consume(r, a + 1 .. m) =
            [r EXCEPT !.turns = @ + Cardinality(of({"turn"})),
                      !.limited = @ \/ of({"rate_limit"}) # {},
                      !.init = IF of({"init", "leaky_init"}) = {} THEN @
                               ELSE IF transcript[Max(of({"init", "leaky_init"}))].kind = "init"
                                    THEN "clean" ELSE "leaky",
                      !.terminal = IF of({"result"}) = {} THEN @
                                   ELSE transcript[Max(of({"result"}))]]
      BY Zenon DEF Consume
    <2>5. Consume(r, a + 1 .. m) = [at |-> a, turns |-> turns, limited |-> limited,
                                    init |-> init, terminal |-> terminal]
      <3> HIDE DEF of
      <3>1. QED
        BY <2>3
    <2>6. Poll(r) = [at |-> m, turns |-> turns, limited |-> limited,
                     init |-> init, terminal |-> terminal]
      <3> HIDE DEF turns, limited, init, terminal
      <3>1. QED
        BY <2>5 DEF Poll
    <2>4. QED
      BY <2>1, <2>2, <2>6 DEF Inits
  <1> HIDE DEF n, m, new
  <1>3. ASSUME NEW kinds
        PROVE  /\ Of(transcript, m, kinds) = Of(transcript, n, kinds) \cup new(kinds)
               /\ Cardinality(Of(transcript, m, kinds)) =
                      Cardinality(Of(transcript, n, kinds)) + Cardinality(new(kinds))
               /\ new(kinds) # {} => Max(Of(transcript, m, kinds)) = Max(new(kinds))
    BY <1>1, OfSplits DEF new
  <1>4. reader.turns + Cardinality(new({"turn"})) = Cardinality(Of(transcript, m, {"turn"}))
    BY <1>1, <1>3 DEF Heard
  <1>5. (reader.limited \/ new({"rate_limit"}) # {}) = (Of(transcript, m, {"rate_limit"}) # {})
    BY <1>1, <1>3, Zenon DEF Heard
  <1>6. ASSUME NEW kinds
        PROVE  /\ new(kinds) # {} => /\ Of(transcript, m, kinds) # {}
                                     /\ latest(kinds) = Latest(transcript, m, kinds)
               /\ new(kinds) = {} => Of(transcript, m, kinds) = Of(transcript, n, kinds)
    BY <1>3 DEF Latest
  <1>7. (IF new(Inits) = {} THEN reader.init
         ELSE IF latest(Inits).kind = "init" THEN "clean" ELSE "leaky")
        = Heard(transcript, m).init
    BY <1>1, <1>6 DEF Heard, Latest
  <1>8. (IF new({"result"}) = {} THEN reader.terminal ELSE latest({"result"}))
        = Heard(transcript, m).terminal
    BY <1>1, <1>6 DEF Heard, Latest
  <1>9. QED
    BY <1>2, <1>4, <1>5, <1>7, <1>8 DEF Heard, m

\* What was heard of the lines so far stands when a line is added.
LEMMA HeardStands ==
    ASSUME NEW t \in Seq(Lines), NEW line \in Lines, NEW n \in 0 .. Len(t)
    PROVE  /\ Heard(Append(t, line), n) = Heard(t, n)
           /\ \A kinds : Of(t, Len(t), kinds) \subseteq Of(Append(t, line), Len(t) + 1, kinds)
  <1>1. \A k \in 1 .. Len(t) : Append(t, line)[k] = t[k]
    OBVIOUS
  <1>2. \A k \in 1 .. n : k \in 1 .. Len(t)
    OBVIOUS
  <1>3. \A kinds : Of(Append(t, line), n, kinds) = Of(t, n, kinds)
    BY <1>1, <1>2 DEF Of
  <1>4. ASSUME NEW kinds, Of(t, n, kinds) # {}
        PROVE  Latest(Append(t, line), n, kinds) = Latest(t, n, kinds)
    <2>1. n \in Nat /\ Of(t, n, kinds) \in SUBSET (1 .. n)
      BY DEF Of
    <2>2. Max(Of(t, n, kinds)) \in 1 .. n
      BY <1>4, <2>1, MaxOfPositions
    <2>3. QED
      BY <1>1, <1>2, <1>3, <2>2 DEF Latest
  <1>5. \A kinds : Of(t, Len(t), kinds) \subseteq Of(Append(t, line), Len(t) + 1, kinds)
    BY <1>1 DEF Of
  <1>6. Heard(Append(t, line), n) = Heard(t, n)
    BY <1>3, <1>4 DEF Heard
  <1>7. QED
    BY <1>5, <1>6

LEMMA NothingIsHeard == 0 \in 0 .. Len(<<>>) /\ Unread = Heard(<<>>, 0) /\ Unread.at = 0
  <1>1. \A kinds : Of(<<>>, 0, kinds) = {}
    BY DEF Of
  <1>2. Cardinality({}) = 0
    BY FS_EmptySet
  <1>3. 0 \in 0 .. Len(<<>>) /\ Unread.at = 0
    BY DEF Unread
  <1>4. (Of(<<>>, 0, {"rate_limit"}) # {}) = FALSE
    BY <1>1
  <1>5. Unread = Heard(<<>>, 0)
    BY <1>1, <1>2, <1>4, Zenon DEF Unread, Heard
  <1>6. QED
    BY <1>3, <1>5

LEMMA HeardType ==
    ASSUME NEW t \in Seq(Lines), NEW n \in 0 .. Len(t), NEW m \in Nat, Len(t) <= m
    PROVE  Heard(t, n) \in [at : 0 .. m, turns : 0 .. m, limited : BOOLEAN,
                            init : {"none", "clean", "leaky"}, terminal : Lines \cup {NoLine}]
  <1>1. n \in Nat /\ n <= m /\ Len(t) \in Nat
    OBVIOUS
  <1>2. Cardinality(Of(t, n, {"turn"})) \in 0 .. m
    <2>1. Cardinality(Of(t, n, {"turn"})) \in 0 .. n
      BY <1>1, OfIsFinite
    <2>2. QED
      BY <1>1, <2>1
  <1>3. Of(t, n, {"result"}) # {} => Latest(t, n, {"result"}) \in Lines
    <2>1. Of(t, n, {"result"}) \in SUBSET (1 .. n)
      BY DEF Of
    <2>2. Of(t, n, {"result"}) # {} => Max(Of(t, n, {"result"})) \in 1 .. n
      BY <1>1, <2>1, MaxOfPositions
    <2>3. QED
      BY <2>2 DEF Latest
  <1>4. QED
    BY <1>1, <1>2, <1>3 DEF Heard

-----------------------------------------------------------------------------
(***************************************************************************)
(* The invariant.                                                          *)
(***************************************************************************)
\* Where claude.run classifies the run, its process has ended: nothing is
\* written behind its back.
NothingIsAddedLate ==
    pc \in {"verdict", "classify", "dispose", "done"} => agent = "gone"

\* The result is the verdict on the whole of the stream.
ResultIsTheVerdict ==
    pc \in {"dispose", "done"} => reader.at = Len(transcript) /\ result = Verdict(reader, exit)

\* The turn's record says what the result was.
RecordTellsTheResult ==
    pc = "done" =>
        \/ ToProtocol(result.outcome) # "failed"
        \/ record.outcome = "failed" /\ record.failure_kind = FailureKindOf(result)

\* A line is begun where there is room for it.
RoomForTheLine == partial # NoLine => Len(transcript) < MaxLines

IInv == /\ TypeOK /\ RoomForTheLine /\ ReaderIsPrefix /\ NothingIsAddedLate /\ OnlyOverrunsAreStopped
        /\ ResultIsTheVerdict /\ RecordTellsTheResult

LEMMA Lengths ==
    ASSUME TypeOK
    PROVE  /\ transcript \in Seq(Lines) /\ Len(transcript) \in 0 .. MaxLines
           /\ NoLine \notin Lines /\ \A line \in Lines : line \in LineForms
  <1>1. \A line \in LineForms : line.kind \in Kinds
    BY DEF LineForms
  <1>2. NoLine.kind \notin Kinds
    BY DEF NoLine, Line, Kinds
  <1>3. Lines \subseteq LineForms /\ MaxLines \in Nat
    BY SupervisionAssumption
  <1>4. transcript \in Seq(Lines) /\ Len(transcript) <= MaxLines
    BY DEF TypeOK
  <1>5. QED
    BY <1>1, <1>2, <1>3, <1>4

\* The transcript and the reader change in five actions only.
LEMMA ReaderStep ==
    ASSUME TypeOK, ReaderIsPrefix, [Next]_vars
    PROVE  ReaderIsPrefix'
  <1>0. transcript \in Seq(Lines) /\ Len(transcript) \in Nat
    BY Lengths
  <1>1. CASE UNCHANGED <<transcript, reader>>
    BY <1>1 DEF ReaderIsPrefix
  <1>2. CASE reader' = Poll(reader) /\ transcript' = transcript
    <2>1. reader' = Heard(transcript, Len(transcript))
      BY <1>0, <1>2, PollHears
    <2>2. reader'.at = Len(transcript)
      BY <2>1 DEF Heard
    <2>3. QED
      BY <1>0, <1>2, <2>1, <2>2 DEF ReaderIsPrefix
  <1>3. CASE EndsLine
    <2>1. partial \in Lines /\ transcript' = Append(transcript, partial) /\ reader' = reader
      BY <1>3 DEF EndsLine, TypeOK
    <2>2. reader.at \in 0 .. Len(transcript) /\ reader = Heard(transcript, reader.at)
      BY DEF ReaderIsPrefix
    <2>3. Heard(transcript', reader.at) = Heard(transcript, reader.at)
      BY <1>0, <2>1, <2>2, HeardStands
    <2>4. Len(transcript') = Len(transcript) + 1
      BY <1>0, <2>1
    <2>5. QED
      BY <1>0, <2>1, <2>2, <2>3, <2>4 DEF ReaderIsPrefix
  <1>4. CASE NextRun
    <2>1. transcript' = <<>> /\ reader' = Unread
      BY <1>4 DEF NextRun
    <2>2. QED
      BY <2>1, NothingIsHeard DEF ReaderIsPrefix
  <1>5. QED
    BY <1>1, <1>2, <1>3, <1>4 DEF Next, Agent, BeginsLine, Exits, Tick, Supervisor, Launch, Watch,
       CountTurns, GraceEnds, Kill, Author, ClassifyRun, Dispose, process, vars

LEMMA TypeStep ==
    ASSUME TypeOK, RoomForTheLine, ReaderIsPrefix, [Next]_vars
    PROVE  TypeOK' /\ RoomForTheLine'
  <1>0. /\ WallClock \in Nat /\ Grace \in Nat /\ WallClock > 0 /\ MaxLines \in Nat
        /\ Lines \subseteq LineForms
    BY SupervisionAssumption
  <1>1. transcript \in Seq(Lines) /\ Len(transcript) \in 0 .. MaxLines
    BY Lengths
  <1>2. /\ agent' \in {"none", "running", "signalled", "gone"}
        /\ exit' \in ExitCodes \cup {Running}
    BY DEF TypeOK, Next, Agent, BeginsLine, EndsLine, Exits, Tick, Supervisor, Launch, Watch, ExitCodes,
       CountTurns, GraceEnds, Kill, Author, ClassifyRun, Dispose, NextRun, Terminate, process, vars
  <1>3. /\ transcript' \in Seq(Lines) /\ Len(transcript') \in 0 .. MaxLines
        /\ partial' \in Lines \cup {NoLine} /\ RoomForTheLine'
    <2>1. CASE \E line \in Lines : BeginsLine(line)
      BY <1>1, <2>1 DEF BeginsLine, TypeOK, RoomForTheLine
    <2>2. CASE EndsLine
      <3>1. partial \in Lines /\ transcript' = Append(transcript, partial) /\ partial' = NoLine
        BY <2>2 DEF EndsLine, TypeOK
      <3>2. Len(transcript) < MaxLines
        BY <2>2 DEF EndsLine, RoomForTheLine
      <3>3. transcript' \in Seq(Lines) /\ Len(transcript') = Len(transcript) + 1
        BY <1>1, <3>1
      <3>4. QED
        BY <1>0, <1>1, <3>1, <3>2, <3>3 DEF RoomForTheLine
    <2>3. CASE NextRun
      BY <1>0, <2>3 DEF NextRun, RoomForTheLine
    <2>4. CASE UNCHANGED <<transcript, partial>>
      BY <1>1, <2>4 DEF TypeOK, RoomForTheLine
    <2>5. QED
      BY <2>1, <2>2, <2>3, <2>4 DEF Next, Agent, Exits, Tick, Supervisor, Launch, Watch,
         CountTurns, GraceEnds, Kill, Author, ClassifyRun, Dispose, process, vars
  <1>4. reader' \in [at : 0 .. MaxLines, turns : 0 .. MaxLines, limited : BOOLEAN,
                     init : {"none", "clean", "leaky"}, terminal : Lines \cup {NoLine}]
    <2>1. ReaderIsPrefix'
      BY ReaderStep
    <2>2. reader' = Heard(transcript', reader'.at) /\ reader'.at \in 0 .. Len(transcript')
      BY <2>1 DEF ReaderIsPrefix
    <2>3. Len(transcript') <= MaxLines
      BY <1>0, <1>3
    <2>4. Heard(transcript', reader'.at) \in
            [at : 0 .. MaxLines, turns : 0 .. MaxLines, limited : BOOLEAN,
             init : {"none", "clean", "leaky"}, terminal : Lines \cup {NoLine}]
      BY <1>0, <1>3, <2>2, <2>3, HeardType
    <2>5. QED
      BY <2>2, <2>4
  <1>5. clock' \in 0 .. WallClock /\ patience' \in 0 .. Grace
    BY <1>0 DEF TypeOK, Next, Agent, BeginsLine, EndsLine, Exits, Tick, Supervisor, Launch, Watch, time,
       CountTurns, GraceEnds, Kill, Author, ClassifyRun, Dispose, NextRun, Terminate, process, vars
  <1>6. /\ pc' \in {"launch", "watch", "count", "grace", "verdict", "classify", "dispose", "done"}
        /\ stop' \in {Completed, WallClockExceeded, CeilingExceeded}
    BY DEF TypeOK, Next, Agent, BeginsLine, EndsLine, Exits, Tick, Supervisor, Launch, Watch, Goto,
       CountTurns, GraceEnds, Kill, Author, ClassifyRun, Dispose, NextRun, Terminate, vars
  <1>7. QED
    BY <1>2, <1>3, <1>4, <1>5, <1>6 DEF TypeOK

\* Once the process has ended nothing adds to its stream, and nobody reads or
\* judges anew what has been read and judged.
LEMMA VerdictStep ==
    ASSUME IInv, [Next]_vars
    PROVE  NothingIsAddedLate' /\ ResultIsTheVerdict' /\ RecordTellsTheResult'
  <1>0. transcript \in Seq(Lines) /\ Len(transcript) \in Nat
    BY Lengths DEF IInv
  <1>1. NothingIsAddedLate'
    BY DEF IInv, TypeOK, NothingIsAddedLate, Next, Agent, BeginsLine, EndsLine, Exits, Alive, Tick, Supervisor,
       Launch, Watch, CountTurns, GraceEnds, Kill, Author, ClassifyRun, Dispose, NextRun, Terminate, Goto,
       process, vars
  <1>2. ResultIsTheVerdict'
    <2>1. CASE ClassifyRun
      <3>1. reader' = Heard(transcript, Len(transcript))
        BY <1>0, <2>1, PollHears DEF ClassifyRun, IInv
      <3>2. reader'.at = Len(transcript)
        BY <3>1 DEF Heard
      <3>3. result' = Verdict(reader', exit) /\ transcript' = transcript /\ exit' = exit
        BY <2>1 DEF ClassifyRun, process
      <3>5. QED
        BY <3>2, <3>3 DEF ResultIsTheVerdict, Verdict, Classify, NoTerminal
    <2>2. CASE pc' \notin {"dispose", "done"}
      BY <2>2 DEF ResultIsTheVerdict
    <2>3. CASE ~ClassifyRun /\ pc' \in {"dispose", "done"}
      <3>1. pc \in {"dispose", "done"} /\ UNCHANGED <<transcript, reader, exit, result>>
        BY <2>3 DEF IInv, NothingIsAddedLate, TypeOK, Next, Agent, BeginsLine, EndsLine, Exits, Alive, Tick,
           Supervisor, Launch, Watch, CountTurns, GraceEnds, Kill, Author, Dispose, NextRun, Terminate, Goto,
           process, verdicts, vars
      <3>2. QED
        BY <3>1 DEF IInv, ResultIsTheVerdict, Verdict, Classify, NoTerminal
    <2>4. QED
      BY <2>1, <2>2, <2>3
  <1>3. RecordTellsTheResult'
    <2>1. CASE Dispose
      BY <2>1 DEF Dispose, RecordTellsTheResult, ToProtocol, FailureKindOf, NoRecord, Goto
    <2>2. CASE pc' # "done"
      BY <2>2 DEF RecordTellsTheResult
    <2>3. CASE ~Dispose /\ pc' = "done"
      <3>1. pc = "done" /\ UNCHANGED <<result, record>>
        BY <2>3 DEF Next, Agent, BeginsLine, EndsLine, Exits, Tick,
           Supervisor, Launch, Watch, CountTurns, GraceEnds, Kill, Author, ClassifyRun, NextRun, Terminate, Goto,
           verdicts, vars
      <3>2. QED
        BY <3>1 DEF IInv, RecordTellsTheResult, FailureKindOf
    <2>4. QED
      BY <2>1, <2>2, <2>3
  <1>4. QED
    BY <1>1, <1>2, <1>3

LEMMA StopStep ==
    ASSUME IInv, [Next]_vars
    PROVE  OnlyOverrunsAreStopped'
  <1>0. transcript \in Seq(Lines) /\ Len(transcript) \in Nat
    BY Lengths DEF IInv
  <1>1. \A kind : Written(kind) = Of(transcript, Len(transcript), {kind})
    BY DEF Written, Of
  <1>2. CASE CountTurns
    <2>1. reader' = Heard(transcript, Len(transcript))
      BY <1>0, <1>2, PollHears DEF CountTurns, IInv
    <2>2. reader'.turns = Cardinality(Written("turn"))
      BY <1>1, <2>1 DEF Heard
    <2>3. Written("turn")' = Written("turn") /\ clock' = clock
      BY <1>2 DEF CountTurns, Written
    <2>4. stop'.by_harness => stop' = stop \/ reader'.turns > TurnCeiling
      BY <1>2 DEF CountTurns, Exceeds, Terminate
    <2>5. QED
      BY <2>2, <2>3, <2>4 DEF IInv, OnlyOverrunsAreStopped
  <1>3. CASE EndsLine
    <2>1. partial \in Lines /\ transcript' = Append(transcript, partial) /\ UNCHANGED <<clock, stop>>
      BY <1>3 DEF EndsLine, IInv, TypeOK, time
    <2>2. Len(transcript') = Len(transcript) + 1 /\ Len(transcript) \in 0 .. Len(transcript)
      BY <1>0, <2>1
    <2>3. Of(transcript, Len(transcript), {"turn"}) \subseteq
            Of(transcript', Len(transcript) + 1, {"turn"})
      BY <1>0, <2>1, <2>2, HeardStands
    <2>4. Written("turn")' = Of(transcript', Len(transcript) + 1, {"turn"})
      BY <2>2 DEF Written, Of
    <2>5. /\ IsFiniteSet(Of(transcript', Len(transcript) + 1, {"turn"}))
          /\ Cardinality(Of(transcript', Len(transcript) + 1, {"turn"})) \in Nat
          /\ Cardinality(Of(transcript, Len(transcript), {"turn"})) \in Nat
      <3> DEFINE m == Len(transcript)
                 t == transcript'
      <3>1. m \in Nat /\ m + 1 \in Nat
        BY <1>0
      <3> HIDE DEF m, t
      <3>2. /\ IsFiniteSet(Of(t, m + 1, {"turn"}))
            /\ Cardinality(Of(t, m + 1, {"turn"})) \in 0 .. m + 1
            /\ Cardinality(Of(transcript, m, {"turn"})) \in 0 .. m
        BY <3>1, OfIsFinite
      <3>3. /\ IsFiniteSet(Of(t, m + 1, {"turn"}))
            /\ Cardinality(Of(t, m + 1, {"turn"})) \in Nat
            /\ Cardinality(Of(transcript, m, {"turn"})) \in Nat
        BY <3>1, <3>2
      <3>4. QED
        BY <3>3 DEF m, t
    <2>6. Cardinality(Written("turn")) <= Cardinality(Written("turn"))'
      BY <1>1, <2>3, <2>4, <2>5, FS_Subset
    <2>7. TurnCeiling \in Nat
      BY SupervisionAssumption
    <2>8. QED
      BY <1>1, <2>1, <2>4, <2>5, <2>6, <2>7 DEF IInv, OnlyOverrunsAreStopped
  <1>4. CASE Watch
    <2>1. Written("turn")' = Written("turn") /\ clock' = clock
      BY <1>4 DEF Watch, Written
    <2>2. stop' = stop \/ clock >= WallClock
      BY <1>4 DEF Watch, Terminate
    <2>3. WallClock \in Nat /\ clock \in 0 .. WallClock
      BY SupervisionAssumption DEF IInv, TypeOK
    <2>4. QED
      BY <2>1, <2>2, <2>3 DEF IInv, OnlyOverrunsAreStopped
  <1>5. CASE Tick
    BY <1>5 DEF Tick, process, IInv, TypeOK, OnlyOverrunsAreStopped, Written
  <1>6. CASE NextRun
    BY <1>6 DEF NextRun, Completed, OnlyOverrunsAreStopped
  <1>7. CASE UNCHANGED <<transcript, clock, stop>>
    BY <1>7 DEF IInv, OnlyOverrunsAreStopped, Written
  <1>8. QED
    BY <1>2, <1>3, <1>4, <1>5, <1>6, <1>7 DEF Next, Agent, BeginsLine, Exits, Supervisor, Launch,
       GraceEnds, Kill, Author, ClassifyRun, Dispose, process, time, vars

LEMMA Invariant == Spec => []IInv
  <1>1. Init => IInv
    <2> SUFFICES ASSUME Init PROVE IInv
      OBVIOUS
    <2>1. TypeOK /\ RoomForTheLine
      <3>1. /\ WallClock \in Nat /\ Grace \in Nat /\ MaxLines \in Nat
        BY SupervisionAssumption
      <3>2. <<>> \in Seq(Lines) /\ Len(<<>>) = 0
        OBVIOUS
      <3>3. Unread \in [at : 0 .. MaxLines, turns : 0 .. MaxLines, limited : BOOLEAN,
                        init : {"none", "clean", "leaky"}, terminal : Lines \cup {NoLine}]
        BY <3>1 DEF Unread
      <3>4. QED
        BY <3>1, <3>2, <3>3 DEF Init, TypeOK, RoomForTheLine
    <2>2. ReaderIsPrefix
      BY NothingIsHeard DEF Init, ReaderIsPrefix
    <2>3. NothingIsAddedLate /\ ResultIsTheVerdict /\ RecordTellsTheResult
      BY DEF Init, NothingIsAddedLate, ResultIsTheVerdict, RecordTellsTheResult
    <2>4. OnlyOverrunsAreStopped
      BY DEF Init, OnlyOverrunsAreStopped, Completed
    <2>5. QED
      BY <2>1, <2>2, <2>3, <2>4 DEF IInv
  <1>2. IInv /\ [Next]_vars => IInv'
    <2> SUFFICES ASSUME IInv, [Next]_vars PROVE IInv'
      OBVIOUS
    <2>1. TypeOK' /\ RoomForTheLine' /\ ReaderIsPrefix'
      BY TypeStep, ReaderStep DEF IInv
    <2>2. QED
      BY <2>1, VerdictStep, StopStep DEF IInv
  <1>3. QED
    BY <1>1, <1>2, PTL DEF Spec

-----------------------------------------------------------------------------
(***************************************************************************)
(* What it establishes.                                                    *)
(***************************************************************************)
\* However the agent writes and however often it is read, the reader holds no
\* more than the stream does, and the clocks keep to their limits.
THEOREM TypeCorrect == Spec => []TypeOK
  <1>1. IInv => TypeOK
    BY DEF IInv
  <1>2. QED
    BY <1>1, Invariant, PTL

\* A run is stopped for what it did, not for what was read of it.
THEOREM StopsAreEarned == Spec => []OnlyOverrunsAreStopped
  <1>1. IInv => OnlyOverrunsAreStopped
    BY DEF IInv
  <1>2. QED
    BY <1>1, Invariant, PTL

\* What the reader holds where the result is made is what the whole stream says.
LEMMA AllIsHeard ==
    ASSUME IInv, pc \in {"dispose", "done"}
    PROVE  /\ result = Verdict(reader, exit)
           /\ reader = Heard(transcript, Len(transcript))
           /\ \A kind : Written(kind) = Of(transcript, Len(transcript), {kind})
  BY DEF IInv, ResultIsTheVerdict, ReaderIsPrefix, Written, Of

\* The result of a run is the last terminal event of its finished stream, for
\* every way the supervisor's reads can fall between the agent's writes.
THEOREM VerdictIsTheStreams == Spec => []TheLastWordIsTheVerdict
  <1>1. ASSUME IInv PROVE TheLastWordIsTheVerdict
    <2> SUFFICES ASSUME pc \in {"dispose", "done"} PROVE TheLastWordIsTheVerdict
      BY DEF TheLastWordIsTheVerdict
    <2> DEFINE words == Written("result")
               last == transcript[Max(words)]
    <2>0. transcript \in Seq(Lines) /\ Len(transcript) \in Nat
      BY <1>1, Lengths DEF IInv
    <2>1. /\ result = Verdict(reader, exit)
          /\ reader = Heard(transcript, Len(transcript))
          /\ \A kind : Written(kind) = Of(transcript, Len(transcript), {kind})
      BY <1>1, AllIsHeard
    <2>2. reader.terminal = IF words = {} THEN NoLine ELSE last
      BY <2>1 DEF Heard, Latest
    <2>3. words # {} => last \in Lines /\ last # NoLine /\ last \in LineForms
      <3>1. words # {} => Max(words) \in 1 .. Len(transcript)
        BY <2>0, MaxOfPositions DEF Written
      <3>2. QED
        BY <1>1, <2>0, <3>1, Lengths DEF IInv
    <2>4. Written("leaky_init") = {} => reader.init # "leaky"
      <3>1. SUFFICES ASSUME Written("leaky_init") = {}, Of(transcript, Len(transcript), Inits) # {}
                     PROVE  Latest(transcript, Len(transcript), Inits).kind = "init"
        BY <2>1 DEF Heard
      <3>2. Max(Of(transcript, Len(transcript), Inits)) \in Of(transcript, Len(transcript), Inits)
        BY <2>0, <3>1, OfIsFinite, MaxOfPositions
      <3>3. QED
        BY <3>1, <3>2 DEF Of, Latest, Inits, Written
    <2> HIDE DEF words, last
    <2>5. result.outcome = "success" => /\ words # {} /\ last.status = "ok" /\ ~last.denied /\ ~last.refusal
                                        /\ ~last.budget /\ ~last.is_error /\ last.subtype = "success"
      BY <2>1, <2>2, <2>3 DEF Verdict, Classify, NoTerminal, Ending, LineForms
    <2>6. /\ words # {} /\ reader.init # "leaky"
          /\ last.status = "ok" /\ ~last.denied /\ ~last.refusal /\ ~last.budget
          /\ ~last.is_error /\ last.subtype = "success"
          => result.outcome = "success"
      BY <2>1, <2>2, <2>3 DEF Verdict, Classify, Ending
    <2>7. QED
      BY <2>4, <2>5, <2>6 DEF TheLastWordIsTheVerdict, words, last
  <1>2. QED
    BY <1>1, Invariant, PTL

\* A starved run reaches the turn's record as a starved run.
THEOREM StarvationIsRecorded == Spec => []StarvedRunsSaySo
  <1>1. ASSUME IInv PROVE StarvedRunsSaySo
    <2> SUFFICES ASSUME pc = "done", reader.terminal # NoLine, reader.init # "leaky",
                        ~reader.terminal.denied,
                        \/ reader.terminal.status = "quota"
                        \/ /\ reader.terminal.status = "ok" /\ reader.terminal.subtype # "max_turns"
                           /\ reader.terminal.subtype = "budget" \/ reader.terminal.budget
                 PROVE  /\ record.outcome = "failed"
                        /\ record.failure_kind \in {"rate_limit", "budget_exhausted"}
      BY DEF StarvedRunsSaySo
    <2>1. result = Verdict(reader, exit)
      BY <1>1, AllIsHeard
    <2>2. result \in {Ending("failed", "rate_limit"), Ending("budget_exhausted", "none")}
      BY <2>1 DEF Verdict, Classify
    <2>3. /\ ToProtocol(result.outcome) = "failed"
          /\ FailureKindOf(result) \in {"rate_limit", "budget_exhausted"}
      BY <2>2 DEF Ending, ToProtocol, FailureKindOf
    <2>4. QED
      BY <1>1, <2>3 DEF IInv, RecordTellsTheResult
  <1>2. QED
    BY <1>1, Invariant, PTL

=============================================================================
