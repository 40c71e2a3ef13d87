------------------------- MODULE ItemLifecycleProofs -------------------------
(***************************************************************************)
(* The attempt cap, for any number of items and attempts.                  *)
(***************************************************************************)
EXTENDS ItemLifecycle, TLAPS

\* The type of the four variables.
Typed == /\ state \in [Items -> States \cup {Absent}]
         /\ claims \in [Items -> 0 .. ClaimCap]
         /\ lost \in [Items -> Nat]
         /\ reported \in [Items -> Nat]

CapInv == Typed /\ LossesAreCapped /\ LossesFollowClaims

\* One item's share of CapInv, and what makes of it the share of the next state.
ItemCap(s, c, l, r) ==
    /\ l <= MaxAttempts /\ l <= c
    /\ s \in Behind => l < c
    /\ s = "failed" => l <= r \/ l < MaxAttempts
    /\ s \in {Absent} \cup (NonTerminal \ {"failed"}) => l < MaxAttempts
    /\ s = Absent => l = 0

LEMMA CapInvByItem ==
    CapInv <=> Typed /\ \A i \in Items : ItemCap(state[i], claims[i], lost[i], reported[i])
    BY DEF CapInv, LossesAreCapped, LossesFollowClaims, ItemCap

LEMMA OneItemMoves ==
    ASSUME CapInv, NEW i \in Items,
           NEW s \in States \cup {Absent}, NEW c \in 0 .. ClaimCap,
           NEW l \in Nat, NEW r \in Nat,
           state' = [state EXCEPT ![i] = s], claims' = [claims EXCEPT ![i] = c],
           lost' = [lost EXCEPT ![i] = l], reported' = [reported EXCEPT ![i] = r],
           ItemCap(s, c, l, r)
    PROVE  CapInv'
<1>1. Typed'
    BY DEF CapInv, Typed
<1>2. ASSUME NEW j \in Items
      PROVE  ItemCap(state[j], claims[j], lost[j], reported[j])'
  <2>1. ItemCap(state[j], claims[j], lost[j], reported[j])
    BY CapInvByItem
  <2>2. CASE j = i
    BY <2>2 DEF CapInv, Typed
  <2>3. CASE j # i
    BY <2>1, <2>3 DEF CapInv, Typed
  <2> QED
    BY <2>2, <2>3
<1>3. CapInv' <=> Typed' /\ \A j \in Items : ItemCap(state[j], claims[j], lost[j], reported[j])'
    BY DEF CapInv, LossesAreCapped, LossesFollowClaims, ItemCap
<1> QED
    BY <1>1, <1>2, <1>3

LEMMA StepKeepsCap ==
    ASSUME ConstantsOK, CapInv, NEW i \in Items, Step(i)
    PROVE  CapInv'
<1> DEFINE s == state[i]
           c == claims[i]
           l == lost[i]
           r == reported[i]
<1> USE DEF ConstantsOK, Behind, Leased, Terminal, NonTerminal
<1>1. /\ s \in States \cup {Absent} /\ c \in 0 .. ClaimCap /\ l \in Nat /\ r \in Nat
      /\ ItemCap(s, c, l, r)
    BY CapInvByItem DEF CapInv, Typed
<1>2. /\ claims = [claims EXCEPT ![i] = c]
      /\ lost = [lost EXCEPT ![i] = l]
      /\ reported = [reported EXCEPT ![i] = r]
    BY DEF CapInv, Typed
<1>3. CASE Create(i)
  <2>1. ItemCap("ready", c, l, r) /\ "ready" \in States
    BY <1>1, <1>3 DEF Create, ItemCap, Absent, States
  <2>2. /\ state' = [state EXCEPT ![i] = "ready"] /\ claims' = [claims EXCEPT ![i] = c]
        /\ lost' = [lost EXCEPT ![i] = l] /\ reported' = [reported EXCEPT ![i] = r]
    BY <1>2, <1>3 DEF Create, Enter
  <2> HIDE DEF c, l, r
  <2> QED
    BY <1>1, <2>1, <2>2, OneItemMoves
<1>4. CASE Claim(i)
  <2>1. Count(c) \in 0 .. ClaimCap /\ ItemCap("claimed", Count(c), l, r) /\ "claimed" \in States
    BY <1>1, <1>4 DEF Claim, Count, ItemCap, Absent, States
  <2> QED
    BY <1>1, <1>2, <1>4, <2>1, OneItemMoves DEF Claim, Enter
<1>5. CASE Expire(i)
  <2>1. l + 1 \in Nat /\ ItemCap("ready", c, l + 1, r) /\ "ready" \in States
    BY <1>1, <1>5 DEF Expire, ItemCap, Absent, States
  <2> QED
    BY <1>1, <1>2, <1>5, <2>1, OneItemMoves DEF Expire, Enter
<1>6. CASE Retry(i)
  <2>1. ItemCap("ready", c, l, r) /\ "ready" \in States
    BY <1>1, <1>6 DEF Retry, ItemCap, Absent, States
  <2>2. /\ state' = [state EXCEPT ![i] = "ready"] /\ claims' = [claims EXCEPT ![i] = c]
        /\ lost' = [lost EXCEPT ![i] = l] /\ reported' = [reported EXCEPT ![i] = r]
    BY <1>2, <1>6 DEF Retry, Enter
  <2> HIDE DEF c, l, r
  <2> QED
    BY <1>1, <2>1, <2>2, OneItemMoves
<1>7. ASSUME NEW t \in States, Move(i, t)
      PROVE  CapInv'
  <2>1. s \in NonTerminal \ {"failed"} /\ t \notin Terminal
    BY <1>1, <1>7 DEF Move, Onward, Absent, States
  <2>2. t \in Behind => s \in Behind
    BY <1>7 DEF Move, Onward
  <2>3. ItemCap(t, c, l, r)
    BY <1>1, <2>1, <2>2 DEF ItemCap, States, Absent
  <2>4. /\ state' = [state EXCEPT ![i] = t] /\ claims' = [claims EXCEPT ![i] = c]
        /\ lost' = [lost EXCEPT ![i] = l] /\ reported' = [reported EXCEPT ![i] = r]
    BY <1>2, <1>7 DEF Move, Enter
  <2> HIDE DEF c, l, r
  <2> QED
    BY <1>1, <2>3, <2>4, OneItemMoves
<1>8. ASSUME NEW t \in States, Close(i, t)
      PROVE  CapInv'
  <2>1. ItemCap(t, c, l, 0)
    BY <1>1, <1>8 DEF Close, ItemCap, Absent
  <2> QED
    BY <1>1, <1>2, <1>8, <2>1, OneItemMoves DEF Close
<1>9. ASSUME NEW attempt \in {c} \cup Misreports, Fail(i, attempt)
      PROVE  CapInv'
  <2>1. c \in Nat /\ attempt \in Nat /\ l + 1 \in Nat
    <3>1. c \in Nat
      BY <1>1
    <3>2. attempt = c \/ attempt \in Misreports
      OBVIOUS
    <3>3. attempt \in Nat
      <4> HIDE DEF c
      <4> QED
        BY <3>1, <3>2
    <3> QED
      BY <1>1, <3>1, <3>3
  <2>2. s \in Leased
    BY <1>9 DEF Fail
  <2>3. l < c /\ l < MaxAttempts
    BY <1>1, <2>2 DEF ItemCap, States
  <2>4. /\ state' = [state EXCEPT ![i] = "failed"]
        /\ reported' = [reported EXCEPT ![i] = attempt]
        /\ claims' = claims /\ "failed" \in States
    BY <1>9 DEF Fail, States
  <2>5. CASE attempt >= c
    <3>1. l + 1 <= c /\ l + 1 <= MaxAttempts /\ l + 1 <= attempt
      BY <1>1, <2>1, <2>3, <2>5
    <3>2. ItemCap("failed", c, l + 1, attempt)
      BY <3>1 DEF ItemCap, Absent
    <3>3. lost' = [lost EXCEPT ![i] = l + 1]
      BY <1>9, <2>5 DEF Fail
    <3> QED
      BY <1>1, <1>2, <2>1, <2>4, <3>2, <3>3, OneItemMoves
  <2>6. CASE ~(attempt >= c)
    <3>1. ItemCap("failed", c, l, attempt)
      BY <1>1, <2>3 DEF ItemCap, Absent
    <3>2. lost' = lost
      BY <1>9, <2>6 DEF Fail
    <3> QED
      BY <1>1, <1>2, <2>1, <2>4, <3>1, <3>2, OneItemMoves
  <2> QED
    BY <2>5, <2>6
<1> QED
    BY <1>3, <1>4, <1>5, <1>6, <1>7, <1>8, <1>9 DEF Step

LEMMA DiscardKeepsCap ==
    ASSUME ConstantsOK, CapInv, NEW created \in SUBSET Items, Discard(created)
    PROVE  CapInv'
<1>1. Typed'
    BY DEF ConstantsOK, CapInv, Typed, Discard
<1>2. ASSUME NEW i \in Items
      PROVE  ItemCap(state[i], claims[i], lost[i], reported[i])'
  <2>1. ItemCap(state[i], claims[i], lost[i], reported[i])
    BY CapInvByItem
  <2>2. CASE i \in created
    BY <2>2
    DEF ConstantsOK, Discard, ItemCap, Absent, Behind, Leased, CapInv, Typed
  <2>3. CASE i \notin created
    BY <2>1, <2>3 DEF Discard
  <2> QED
    BY <2>2, <2>3
<1>3. CapInv' <=> Typed' /\ \A i \in Items : ItemCap(state[i], claims[i], lost[i], reported[i])'
    BY DEF CapInv, LossesAreCapped, LossesFollowClaims, ItemCap
<1> QED
    BY <1>1, <1>2, <1>3

LEMMA InitCapped ==
    ASSUME ConstantsOK
    PROVE  Init => CapInv
    BY DEF ConstantsOK, Init, CapInv, Typed, LossesAreCapped, LossesFollowClaims, Absent, Behind, Leased

\* However leases are lost, and whatever attempts agents report, an item loses at
\* most max_attempts of them, understated failures aside (turn._poison_if_exhausted,
\* retry_failed and reclaim_expired read the same number).
THEOREM AttemptCap ==
    ASSUME ConstantsOK
    PROVE  Spec => [](LossesAreCapped /\ LossesFollowClaims)
<1>1. CapInv /\ [Next]_vars => CapInv'
  <2> SUFFICES ASSUME CapInv, [Next]_vars PROVE CapInv'
    OBVIOUS
  <2>1. CASE UNCHANGED vars
    BY <2>1 DEF vars, CapInv, Typed, LossesAreCapped, LossesFollowClaims
  <2> QED
    BY <2>1, StepKeepsCap, DiscardKeepsCap DEF Next
<1>2. CapInv => LossesAreCapped /\ LossesFollowClaims
    BY DEF CapInv
<1> QED
    BY <1>1, <1>2, InitCapped, PTL DEF Spec

=============================================================================
