--------------------------- MODULE RunStreamProofs ---------------------------
(***************************************************************************)
(* The turn-record stream and the detector's verdict, for any number of    *)
(* runs, any window and any deaths.                                        *)
(***************************************************************************)
EXTENDS RunStream, FiniteSetTheorems, TLAPS

LEMMA RecordTypes == /\ NoFile \notin Records /\ TornFile \notin Records /\ NoFile # TornFile
                     /\ \A record \in Records : record.outcome \notin {"absent", "torn"}
  <1>1. \A record \in Records :
           record.outcome \in {"advanced", "blocked", "nothing_ready", "failed"}
    BY DEF Records, Record
  <1>2. NoFile.outcome = "absent" /\ TornFile.outcome = "torn"
    BY DEF Record, NoFile, TornFile
  <1>3. QED
    BY <1>1, <1>2

\* A run has a record, whole or torn, only from the moment it writes one: what the
\* detector takes for a gap is a run that has not begun to (runs.append).
RecordsFollowRuns ==
    \A r \in Runs :
        /\ run[r] \in {"new", "open"} => file[r] = NoFile
        /\ run[r] = "writing" => file[r] = TornFile
        /\ run[r] = "ended" => file[r] \in Records
        /\ run[r] = "dead" => file[r] \in {NoFile, TornFile}

IInv == TypeOK /\ RecordsFollowRuns

LEMMA InitInv == Init => IInv
  BY StreamAssumption DEF Init, IInv, TypeOK, RecordsFollowRuns

LEMMA StepInv == IInv /\ [Next]_vars => IInv'
  <1> SUFFICES ASSUME IInv, [Next]_vars PROVE IInv'
    OBVIOUS
  <1> USE StreamAssumption DEF IInv, TypeOK, RecordsFollowRuns
  <1>1. ASSUME NEW r \in Runs, OpenRun(r) PROVE IInv'
    BY <1>1 DEF OpenRun
  <1>2. ASSUME NEW r \in Runs, BeginRecord(r) PROVE IInv'
    BY <1>2, RecordTypes DEF BeginRecord
  <1>3. ASSUME NEW r \in Runs, Die(r) PROVE IInv'
    BY <1>3 DEF Die
  <1>4. ASSUME NEW r \in Runs, NEW record \in Records, EndRecord(r, record) PROVE IInv'
    BY <1>4, RecordTypes DEF EndRecord
  <1>5. CASE Tick
    BY <1>5 DEF Tick
  <1>6. CASE UNCHANGED vars
    BY <1>6 DEF vars
  <1>7. QED
    BY <1>1, <1>2, <1>3, <1>4, <1>5, <1>6 DEF Next

\* Whatever runs overlap and die, every variable has its type, every run that was
\* started is named on disk, and a record is there exactly as far as its writer got
\* (runs.open_run, runs.append).
THEOREM StreamInvariant == Spec => [](TypeOK /\ RecordsFollowRuns)
  <1>1. Spec => []IInv
    BY InitInv, StepInv, PTL DEF Spec
  <1>2. QED
    BY <1>1 DEF IInv

-----------------------------------------------------------------------------
\* A run that started is a position of the window for good, and with it what it
\* left: no later run, death or tick takes a marker or a whole record away, so an
\* alarm that was silent for a run goes on knowing of it (runs.read_window).
THEOREM PositionsAreKept ==
    Spec => [][/\ Declared \subseteq Declared'
               /\ \A r \in Declared : stamp'[r] = stamp[r]
               /\ \A r \in Runs : file[r] \in Records => file'[r] = file[r]]_vars
  <1> DEFINE Kept == /\ Declared \subseteq Declared'
                     /\ \A r \in Declared : stamp'[r] = stamp[r]
                     /\ \A r \in Runs : file[r] \in Records => file'[r] = file[r]
  <1>1. ASSUME IInv, [Next]_vars PROVE [Kept]_vars
    <2> USE StreamAssumption, RecordTypes DEF IInv, TypeOK, RecordsFollowRuns, Declared
    <2> SUFFICES ASSUME Next PROVE Kept
      BY <1>1
    <2>1. ASSUME NEW r \in Runs, OpenRun(r) PROVE Kept
      BY <1>1, <2>1 DEF OpenRun
    <2>2. ASSUME NEW r \in Runs, BeginRecord(r) PROVE Kept
      BY <1>1, <2>2 DEF BeginRecord
    <2>3. ASSUME NEW r \in Runs, Die(r) PROVE Kept
      BY <1>1, <2>3 DEF Die
    <2>4. ASSUME NEW r \in Runs, NEW record \in Records, EndRecord(r, record) PROVE Kept
      BY <1>1, <2>4 DEF EndRecord
    <2>5. CASE Tick
      BY <1>1, <2>5 DEF Tick
    <2>6. QED
      BY <2>1, <2>2, <2>3, <2>4, <2>5 DEF Next
  <1>2. Spec => []IInv
    BY InitInv, StepInv, PTL DEF Spec
  <1>3. QED
    BY <1>1, <1>2, PTL DEF Spec

-----------------------------------------------------------------------------
(***************************************************************************)
(* What the directory says of the runs.                                    *)
(***************************************************************************)
LEMMA DeclaredAreStarted == ASSUME IInv PROVE Declared = Started
  BY DEF IInv, TypeOK, RecordsFollowRuns, Declared, Started

LEMMA OutcomesAreTheRuns ==
    ASSUME IInv, NEW r \in Runs
    PROVE  /\ OutcomeOf(r) = "advanced" <=> Advanced(r)
           /\ Starved(r) => /\ run[r] = "ended" /\ file[r].outcome = "failed"
                            /\ file[r].kind \in Starvation
  <1>1. NoFile.outcome = "absent" /\ TornFile.outcome = "torn"
    BY DEF NoFile, TornFile, Record
  <1>2. file[r] \notin {NoFile, TornFile} => run[r] = "ended"
    BY DEF IInv, TypeOK, RecordsFollowRuns
  <1>3. run[r] = "ended" => file[r] # NoFile
    BY RecordTypes DEF IInv, RecordsFollowRuns
  <1>4. QED
    BY <1>1, <1>2, <1>3 DEF OutcomeOf, IsGap, Starved, Advanced

(***************************************************************************)
(* The order of the names, and the window.                                 *)
(***************************************************************************)
LEMMA NamesAreOrdered ==
    ASSUME IInv
    PROVE  /\ \A q, r, s \in Runs : Before(q, r) /\ Before(r, s) => Before(q, s)
           /\ \A r \in Runs : ~Before(r, r)
  <1>1. \A r \in Runs : r \in Nat /\ stamp[r] \in Nat
    BY StreamAssumption DEF IInv, TypeOK
  <1>2. QED
    BY <1>1 DEF Before

LEMMA NewerIsFinite ==
    ASSUME IInv, NEW r \in Runs
    PROVE  /\ IsFiniteSet(Newer(r)) /\ Cardinality(Newer(r)) \in Nat
           /\ IsFiniteSet(NotBefore(r)) /\ Cardinality(NotBefore(r)) \in Nat
           /\ IsFiniteSet(After(r)) /\ Cardinality(After(r)) \in Nat
  <1>1. Newer(r) \subseteq Runs /\ NotBefore(r) \subseteq Runs /\ After(r) \subseteq Runs
    BY DEF Newer, Declared, NotBefore, After, Started
  <1>2. QED
    BY <1>1, StreamAssumption, FS_Subset, FS_CardinalityType

\* A run is behind another in the directory if it started in a later second, and
\* only if it did not start in an earlier one.
LEMMA NewerBetween ==
    ASSUME IInv, NEW r \in Runs
    PROVE  After(r) \subseteq Newer(r) /\ Newer(r) \subseteq NotBefore(r)
  <1>1. \A q \in Runs : q \in Nat /\ stamp[q] \in Nat
    BY StreamAssumption DEF IInv, TypeOK
  <1>2. QED
    BY <1>1, DeclaredAreStarted DEF After, Newer, NotBefore, Before, Started

LEMMA NamesBetween ==
    ASSUME IInv, NEW n \in Nat
    PROVE  SurelyLast(n) \subseteq LastNames(n) /\ LastNames(n) \subseteq PossiblyLast(n)
  <1>1. ASSUME NEW r \in Started
        PROVE  /\ Cardinality(Newer(r)) <= Cardinality(NotBefore(r))
               /\ Cardinality(After(r)) <= Cardinality(Newer(r))
    BY <1>1, NewerIsFinite, NewerBetween, FS_Subset DEF Started
  <1>2. ASSUME NEW r \in Started
        PROVE  /\ Cardinality(Newer(r)) \in Nat /\ Cardinality(NotBefore(r)) \in Nat
               /\ Cardinality(After(r)) \in Nat
    BY <1>2, NewerIsFinite DEF Started
  <1>3. QED
    BY <1>1, <1>2, DeclaredAreStarted DEF SurelyLast, LastNames, PossiblyLast

LEMMA WindowBetween ==
    ASSUME IInv
    PROVE  SurelyRecent \subseteq Examined /\ Examined \subseteq PossiblyRecent
  BY NamesBetween, StreamAssumption DEF SurelyRecent, Examined, PossiblyRecent

LEMMA LeastExists ==
    ASSUME NEW S, S \subseteq Nat, S # {}
    PROVE  \E x \in S : \A y \in S : x <= y
  <1> DEFINE R == OpToRel(<, Nat)
  <1>1. PICK x \in S : \A y \in S : ~(<<y, x>> \in R)
    BY NatLessThanWellFounded, WFMin
  <1>2. ASSUME NEW y \in S PROVE ~(y < x)
    <2>1. y < x => <<y, x>> \in R
      BY DEF OpToRel
    <2>2. QED
      BY <1>1, <2>1
  <1> HIDE DEF R
  <1>3. QED
    BY <1>2

\* Of any runs in the directory, the last is the one with the fewest behind it.
LEMMA LastOfSome ==
    ASSUME IInv, NEW S \in SUBSET Declared, S # {}
    PROVE  \E r \in S : S \cap Newer(r) = {}
  <1> DEFINE Sizes == {Cardinality(Newer(r)) : r \in S}
  <1>1. S \subseteq Runs
    BY DEF Declared
  <1>2. Sizes \subseteq Nat /\ Sizes # {}
    BY <1>1, NewerIsFinite
  <1>3. PICK r \in S : \A q \in S : Cardinality(Newer(r)) <= Cardinality(Newer(q))
    <2>1. PICK n \in Sizes : \A m \in Sizes : n <= m
      BY <1>2, LeastExists
    <2>2. QED
      BY <2>1
  <1>4. ASSUME NEW q \in S, q \in Newer(r) PROVE FALSE
    <2>1. Newer(q) \subseteq Newer(r) /\ q \in Newer(r) \ Newer(q)
      BY <1>1, <1>4, NamesAreOrdered DEF Newer, Declared
    <2>2. Cardinality(Newer(q)) <= Cardinality(Newer(r))
          /\ Cardinality(Newer(q)) # Cardinality(Newer(r))
      BY <1>1, <2>1, NewerIsFinite, FS_Subset
    <2>3. Cardinality(Newer(q)) \in Nat /\ Cardinality(Newer(r)) \in Nat
      BY <1>1, NewerIsFinite
    <2>4. QED
      BY <1>3, <2>2, <2>3
  <1>5. QED
    BY <1>4

-----------------------------------------------------------------------------
(***************************************************************************)
(* The verdict.                                                            *)
(***************************************************************************)
LEMMA AlarmNamesIt == ASSUME IInv PROVE AlarmNamesTheLastAdvance
  <1> DEFINE depth == IF Window > Reach THEN Window ELSE Reach
             Adv == {r \in Declared : Advanced(r)}
  <1>1. depth \in Nat /\ Reach \in Nat /\ Reach <= depth /\ Everything = LastNames(depth)
    BY StreamAssumption DEF Everything
  <1>2. /\ Declared \subseteq Runs /\ Everything \subseteq Declared
        /\ \A r \in Runs : Newer(r) \subseteq Declared /\ After(r) \subseteq Newer(r)
                          /\ Cardinality(Newer(r)) \in Nat
    BY NewerBetween, NewerIsFinite DEF Declared, Newer, Everything, LastNames
  <1>3. LastAdvance = {r \in Everything : Advanced(r) /\ Adv \cap Newer(r) = {}}
    <2>1. \A r \in Runs : OutcomeOf(r) = "advanced" <=> Advanced(r)
      BY OutcomesAreTheRuns
    <2>2. QED
      BY <1>2, <2>1 DEF LastAdvance
  <1>4. ASSUME NEW r \in LastAdvance
        PROVE  Advanced(r) /\ \A q \in After(r) : ~Advanced(q)
    BY <1>2, <1>3
  <1>5. ASSUME NEW r \in SurelyLast(Reach), Advanced(r)
        PROVE  LastAdvance # {}
    <2>1. r \in LastNames(Reach)
      BY <1>1, NamesBetween
    <2>2. r \in Adv /\ Cardinality(Newer(r)) < depth
      BY <1>1, <1>2, <1>5, <2>1 DEF LastNames
    <2>3. PICK a \in Adv : Adv \cap Newer(a) = {}
      BY <2>2, LastOfSome
    <2>4. a = r \/ a \in Newer(r)
      <3>1. a = r \/ Before(a, r) \/ Before(r, a)
        <4>1. a \in Nat /\ r \in Nat /\ stamp[a] \in Nat /\ stamp[r] \in Nat
          BY <1>2, <2>2, StreamAssumption DEF IInv, TypeOK
        <4>2. QED
          BY <4>1 DEF Before
      <3>2. QED
        BY <2>2, <2>3, <3>1 DEF Newer
    <2>5. Newer(a) \subseteq Newer(r)
      BY <1>2, <2>2, <2>3, <2>4, NamesAreOrdered DEF Newer
    <2>6. Cardinality(Newer(a)) <= Cardinality(Newer(r))
      BY <1>2, <2>2, <2>5, NewerIsFinite, FS_Subset
    <2>7. a \in Everything
      BY <1>1, <1>2, <2>2, <2>3, <2>6 DEF LastNames
    <2>8. QED
      BY <1>3, <2>3, <2>7
  <1>6. QED
    BY <1>4, <1>5 DEF AlarmNamesTheLastAdvance

\* However many runs overlap, die or share a second, and whatever the window, the
\* alarm is silent exactly if a recent run advanced; the advance it names is the last
\* there was, and it names one if any of the last Reach runs advanced (stall.detect,
\* stall.evaluate).
THEOREM SilenceIsProgress == Spec => []SilenceMeansProgress
  <1>1. ASSUME IInv PROVE SilenceMeansProgress
    <2>1. Status = "ok" <=> \E r \in Examined : OutcomeOf(r) = "advanced"
      <3>1. (\E r \in Examined : OutcomeOf(r) = "advanced")
            => ~(\A r \in Examined : Starved(r))
        BY DEF Starved
      <3>2. CASE \E r \in Examined : OutcomeOf(r) = "advanced"
        BY <3>1, <3>2 DEF Status
      <3>3. CASE ~\E r \in Examined : OutcomeOf(r) = "advanced"
        BY <3>3 DEF Status
      <3>4. QED
        BY <3>2, <3>3
    <2>2. Examined \subseteq Runs
      BY DEF Examined, LastNames, Declared
    <2>3. Status = "ok" <=> \E r \in Examined : Advanced(r)
      BY <1>1, <2>1, <2>2, OutcomesAreTheRuns
    <2>4. QED
      BY <1>1, <2>3, WindowBetween, AlarmNamesIt DEF SilenceMeansProgress
  <1>2. Spec => []IInv
    BY InitInv, StepInv, PTL DEF Spec
  <1>3. QED
    BY <1>1, <1>2, PTL

\* "Wait" is never said of a window in which a run died, is still going, or failed
\* for anything but want of quota or budget (stall.evaluate, protocol/turn.starved).
THEOREM WaitingIsSound == Spec => []WaitingIsWarranted
  <1>1. ASSUME IInv PROVE WaitingIsWarranted
    <2>1. Status = "starved" => \A r \in Examined : Starved(r)
      BY DEF Status
    <2>2. Examined \subseteq Runs
      BY DEF Examined, LastNames, Declared
    <2>3. QED
      BY <1>1, <2>1, <2>2, WindowBetween, OutcomesAreTheRuns DEF WaitingIsWarranted
  <1>2. Spec => []IInv
    BY InitInv, StepInv, PTL DEF Spec
  <1>3. QED
    BY <1>1, <1>2, PTL

=============================================================================
