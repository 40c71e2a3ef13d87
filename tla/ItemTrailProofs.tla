---------------------------- MODULE ItemTrailProofs ----------------------------
(***************************************************************************)
(* Theorems about ItemTrail, for logs of any length, any clones, and any   *)
(* order in which merges leave the lines.                                  *)
(***************************************************************************)
EXTENDS ItemTrail, FiniteSetTheorems, SequenceTheorems, TLAPS

-----------------------------------------------------------------------------
(***************************************************************************)
(* Induction over the length of a log.  What is to hold for every number is*)
(* given as the set of the numbers it holds for.                           *)
(***************************************************************************)
LEMMA LeastExists ==
    ASSUME NEW S, S \subseteq Nat, S # {}
    PROVE  \E x \in S : \A y \in S : x <= y
<1> DEFINE R == OpToRel(<, Nat)
<1>1. PICK x \in S : \A y \in S : ~(<<y, x>> \in R)
    BY NatLessThanWellFounded, WFMin
<1>2. ASSUME NEW y \in S PROVE ~(y < x)
  <2>1. y < x => <<y, x>> \in R
      BY DEF OpToRel
  <2> QED
      BY <1>1, <2>1
<1> HIDE DEF R
<1> QED
    BY <1>2

LEMMA Induction ==
    ASSUME NEW S, 0 \in S, \A n \in Nat : n \in S => n + 1 \in S
    PROVE  \A n \in Nat : n \in S
<1> SUFFICES ASSUME Nat \ S # {} PROVE FALSE
    OBVIOUS
<1>1. PICK x \in Nat \ S : \A y \in Nat \ S : x <= y
  <2>1. Nat \ S \subseteq Nat
      OBVIOUS
  <2> QED
      BY <2>1, LeastExists
<1>2. x - 1 \in Nat /\ ~(x <= x - 1) /\ x = (x - 1) + 1
    OBVIOUS
<1> QED
    BY <1>1, <1>2

LEMMA GreatestPosition ==
    ASSUME NEW n \in Nat, NEW S \in SUBSET (1 .. n), S # {}
    PROVE  Max(S) \in S /\ \A x \in S : Max(S) >= x
<1> DEFINE D == {n - x : x \in S}
<1>0. \A x \in S : x \in Nat /\ n - x \in Nat
    OBVIOUS
<1>1. D \subseteq Nat /\ D # {}
    BY <1>0
<1>2. PICK d \in D : \A e \in D : d <= e
    BY <1>1, LeastExists
<1>3. PICK x \in S : d = n - x
    OBVIOUS
<1>4. ASSUME NEW y \in S PROVE x >= y
  <2>1. n - x <= n - y
      BY <1>2, <1>3
  <2> QED
      BY <1>0, <2>1
<1> QED
    BY <1>4 DEF Max

LEMMA PositionsAreFinite ==
    ASSUME NEW n \in Nat, NEW S \in SUBSET (1 .. n)
    PROVE  IsFiniteSet(S) /\ Cardinality(S) \in 0 .. n
<1>1. IsFiniteSet(1 .. n) /\ Cardinality(1 .. n) = n
  <2>1. 1 \in Int /\ n \in Int /\ n - 1 + 1 = n
      OBVIOUS
  <2>2. IsFiniteSet(1 .. n) /\ Cardinality(1 .. n) = IF 1 > n THEN 0 ELSE n - 1 + 1
      BY <2>1, FS_Interval
  <2> QED
      BY <2>1, <2>2
<1>2. IsFiniteSet(S) /\ Cardinality(S) <= n
    BY <1>1, FS_Subset
<1> QED
    BY <1>2, FS_CardinalityType

\* Positions with no gap before them are counted by the last of them.
LEMMA NoGaps ==
    ASSUME NEW n \in Nat, NEW S \in SUBSET (1 .. n),
           \A k \in S : \A j \in 1 .. k : j \in S
    PROVE  /\ Cardinality(S) \in 0 .. n
           /\ S = 1 .. Cardinality(S)
<1>1. CASE S = {}
    BY <1>1, FS_EmptySet
<1>2. CASE S # {}
  <2>1. Max(S) \in S /\ \A x \in S : Max(S) >= x
      BY <1>2, GreatestPosition
  <2> DEFINE m == Max(S)
  <2>4. m \in S /\ \A x \in S : m >= x
      BY <2>1
  <2> HIDE DEF m
  <2>5. m \in 1 .. n /\ \A x \in S : x \in 1 .. m
      BY <2>4
  <2>2. m \in 1 .. n /\ S = 1 .. m
      BY <2>4, <2>5
  <2>3. Cardinality(1 .. m) = m
      BY <2>2, FS_Interval
  <2> QED
      BY <2>2, <2>3
<1> QED
    BY <1>1, <1>2

-----------------------------------------------------------------------------
(***************************************************************************)
(* The folds over a sequence.  FoldLeft is defined by recursion over the   *)
(* sets of positions; what is wanted of it is the value after each prefix. *)
(***************************************************************************)
Step(fold, old, r) ==
    CASE fold = "records" -> Keep(old, r)
      [] fold = "state" -> FoldStep(ITEM, old, r)

Folded(fold, base, seq) ==
    CHOOSE iter : iter = [S \in SUBSET DOMAIN seq |->
                             IF S = {} THEN base
                             ELSE LET x == Max(S) IN Step(fold, iter[S \ {x}], seq[x])]

LEMMA FoldedIsDefined ==
    ASSUME NEW fold, NEW base, NEW T, NEW seq \in Seq(T)
    PROVE  LET f == Folded(fold, base, seq)
           IN /\ f[{}] = base
              /\ \A S \in SUBSET DOMAIN seq :
                    S # {} => f[S] = Step(fold, f[S \ {Max(S)}], seq[Max(S)])
<1> DEFINE N == Len(seq)
           Is(m, g) == g = [S \in SUBSET (1 .. m) |->
                               IF S = {} THEN base
                               ELSE LET x == Max(S) IN Step(fold, g[S \ {x}], seq[x])]
           M == {m \in Nat : \E g : Is(m, g)}
<1>0. N \in Nat /\ DOMAIN seq = 1 .. N
    OBVIOUS
<1> HIDE DEF N
<1>1. 0 \in M
  <2> DEFINE g == [S \in SUBSET (1 .. 0) |-> base]
  <2>1. SUBSET (1 .. 0) = {{}}
      OBVIOUS
  <2>2. g = [S \in SUBSET (1 .. 0) |->
                IF S = {} THEN base
                ELSE LET x == Max(S) IN Step(fold, g[S \ {x}], seq[x])]
      BY <2>1
  <2> QED
      BY <2>2
<1>2. ASSUME NEW m \in Nat, m \in M PROVE m + 1 \in M
  <2>1. PICK g : Is(m, g)
      BY <1>2
  <2> DEFINE h == [S \in SUBSET (1 .. m + 1) |->
                      IF m + 1 \in S THEN Step(fold, g[S \ {m + 1}], seq[m + 1]) ELSE g[S]]
  <2>2. ASSUME NEW S \in SUBSET (1 .. m + 1)
        PROVE  h[S] = IF S = {} THEN base
                      ELSE LET x == Max(S) IN Step(fold, h[S \ {x}], seq[x])
    <3>1. CASE m + 1 \in S
      <4>1. Max(S) \in S /\ \A x \in S : Max(S) >= x
          BY <3>1, m + 1 \in Nat, GreatestPosition
      <4>2. Max(S) = m + 1
        <5> DEFINE a == Max(S)
        <5>1. a \in 1 .. m + 1 /\ a >= m + 1
            BY <3>1, <4>1
        <5> HIDE DEF a
        <5>2. a = m + 1
            BY <5>1
        <5> QED
            BY <5>2 DEF a
      <4>3. S \ {m + 1} \in SUBSET (1 .. m) /\ S \ {m + 1} \in SUBSET (1 .. m + 1)
          OBVIOUS
      <4>4. h[S \ {m + 1}] = g[S \ {m + 1}]
          BY <4>3
      <4>5. h[S] = Step(fold, g[S \ {m + 1}], seq[m + 1])
          BY <3>1
      <4> HIDE DEF h
      <4> QED
          BY <3>1, <4>2, <4>4, <4>5
    <3>2. CASE m + 1 \notin S
      <4>1. S \in SUBSET (1 .. m)
          BY <3>2
      <4>2. h[S] = g[S]
          BY <3>2
      <4>3. g[S] = IF S = {} THEN base
                   ELSE LET x == Max(S) IN Step(fold, g[S \ {x}], seq[x])
          BY <2>1, <4>1
      <4>4. CASE S # {}
        <5>1. Max(S) \in S
            BY <4>1, <4>4, GreatestPosition
        <5>2. S \ {Max(S)} \in SUBSET (1 .. m) /\ S \ {Max(S)} \in SUBSET (1 .. m + 1)
              /\ m + 1 \notin S \ {Max(S)}
            BY <4>1, <3>2
        <5>3. h[S \ {Max(S)}] = g[S \ {Max(S)}]
            BY <5>2
        <5> HIDE DEF h
        <5> QED
            BY <4>2, <4>3, <4>4, <5>3
      <4> QED
          BY <4>2, <4>3, <4>4
    <3> QED
        BY <3>1, <3>2
  <2>3. h = [S \in SUBSET (1 .. m + 1) |->
                IF S = {} THEN base
                ELSE LET x == Max(S) IN Step(fold, h[S \ {x}], seq[x])]
    <3>1. h = [S \in SUBSET (1 .. m + 1) |-> h[S]]
        OBVIOUS
    <3> HIDE DEF h
    <3> QED
        BY <2>2, <3>1
  <2>4. Is(m + 1, h)
      BY <2>3
  <2> HIDE DEF h, Is
  <2> QED
      BY <2>4, m + 1 \in Nat
<1>3. N \in M
  <2> HIDE DEF M
  <2> QED
      BY <1>0, <1>1, <1>2, Induction
<1>4. PICK g : Is(N, g)
    BY <1>3
<1>5. g = [S \in SUBSET DOMAIN seq |->
              IF S = {} THEN base
              ELSE LET x == Max(S) IN Step(fold, g[S \ {x}], seq[x])]
    BY <1>0, <1>4
<1> DEFINE f == Folded(fold, base, seq)
<1>6. f = [S \in SUBSET DOMAIN seq |->
              IF S = {} THEN base
              ELSE LET x == Max(S) IN Step(fold, f[S \ {x}], seq[x])]
    BY <1>5 DEF Folded
<1> HIDE DEF f
<1>7. /\ f[{}] = base
      /\ \A S \in SUBSET DOMAIN seq :
            S # {} => f[S] = Step(fold, f[S \ {Max(S)}], seq[Max(S)])
    BY <1>6, {} \in SUBSET DOMAIN seq
<1> QED
    BY <1>7 DEF f

\* The values of a fold after each prefix.
PrefixFolds(p, fold, base, seq) ==
    /\ p[0] = base
    /\ \A n \in 0 .. Len(seq) - 1 : p[n + 1] = Step(fold, p[n], seq[n + 1])

LEMMA FoldedStepwise ==
    ASSUME NEW fold, NEW base, NEW T, NEW seq \in Seq(T)
    PROVE  \E p : /\ PrefixFolds(p, fold, base, seq)
                  /\ p[Len(seq)] = Folded(fold, base, seq)[DOMAIN seq]
<1> DEFINE N == Len(seq)
           f == Folded(fold, base, seq)
           p == [n \in 0 .. N |-> f[1 .. n]]
<1>1. N \in Nat /\ DOMAIN seq = 1 .. N
    OBVIOUS
<1>3. /\ f[{}] = base
      /\ \A S \in SUBSET DOMAIN seq :
            S # {} => f[S] = Step(fold, f[S \ {Max(S)}], seq[Max(S)])
    BY FoldedIsDefined
<1> HIDE DEF f
<1>4. p[0] = base
  <2>1. 1 .. 0 = {} /\ {} \in SUBSET DOMAIN seq
      OBVIOUS
  <2>2. f[{}] = base
      BY <1>3, <2>1
  <2> QED
      BY <1>1, <2>1, <2>2
<1>5. ASSUME NEW n \in 0 .. N - 1 PROVE p[n + 1] = Step(fold, p[n], seq[n + 1])
  <2>1. n \in Nat /\ n + 1 \in 0 .. N /\ n \in 0 .. N /\ n + 1 \in Nat
      BY <1>1
  <2>2. 1 .. n + 1 \in SUBSET DOMAIN seq /\ n + 1 \in 1 .. n + 1 /\ 1 .. n + 1 # {}
        /\ (1 .. n + 1) \ {n + 1} = 1 .. n /\ 1 .. n + 1 \in SUBSET (1 .. n + 1)
      BY <1>1, <2>1
  <2>3. Max(1 .. n + 1) \in 1 .. n + 1 /\ \A x \in 1 .. n + 1 : Max(1 .. n + 1) >= x
      BY <2>1, <2>2, GreatestPosition
  <2>4. Max(1 .. n + 1) = n + 1
      BY <2>1, <2>2, <2>3
  <2>5. f[1 .. n + 1] = Step(fold, f[(1 .. n + 1) \ {Max(1 .. n + 1)}], seq[Max(1 .. n + 1)])
      BY <1>3, <2>2
  <2> QED
      BY <2>1, <2>2, <2>4, <2>5
<1>6. p[N] = f[DOMAIN seq]
    BY <1>1
<1> HIDE DEF p
<1> QED
    BY <1>4, <1>5, <1>6 DEF PrefixFolds, f

LEMMA RecordsStepwise ==
    ASSUME NEW T, NEW lines \in Seq(T)
    PROVE  \E p : /\ p[0] = <<>> /\ p[Len(lines)] = Records(lines)
                  /\ \A n \in 0 .. Len(lines) - 1 : p[n + 1] = Keep(p[n], lines[n + 1])
<1>1. Records(lines) = Folded("records", <<>>, lines)[DOMAIN lines]
    BY DEF Records, FoldLeft, MapThenFoldSet, Folded, Step
<1>2. PICK p : /\ PrefixFolds(p, "records", <<>>, lines)
               /\ p[Len(lines)] = Folded("records", <<>>, lines)[DOMAIN lines]
    BY FoldedStepwise
<1>3. \A n \in 0 .. Len(lines) - 1 : p[n + 1] = Keep(p[n], lines[n + 1])
    BY <1>2 DEF PrefixFolds, Step
<1> QED
    BY <1>1, <1>2, <1>3 DEF PrefixFolds

Empty == [state |-> Nowhere, stored |-> [s \in States |-> Nowhere]]

LEMMA FoldStepwise ==
    ASSUME NEW T, NEW records \in Seq(T)
    PROVE  \E p : /\ p[0] = Empty /\ p[Len(records)] = Fold(ITEM, records)
                  /\ \A n \in 0 .. Len(records) - 1 :
                        p[n + 1] = FoldStep(ITEM, p[n], records[n + 1])
<1>0. ITEM.states = States
    BY DEF ITEM
<1>1. Fold(ITEM, records) = Folded("state", Empty, records)[DOMAIN records]
    BY <1>0 DEF Fold, FoldLeft, MapThenFoldSet, Folded, Step, Empty
<1>2. PICK p : /\ PrefixFolds(p, "state", Empty, records)
               /\ p[Len(records)] = Folded("state", Empty, records)[DOMAIN records]
    BY FoldedStepwise
<1>3. \A n \in 0 .. Len(records) - 1 : p[n + 1] = FoldStep(ITEM, p[n], records[n + 1])
    BY <1>2 DEF PrefixFolds, Step
<1> QED
    BY <1>1, <1>2, <1>3 DEF PrefixFolds

-----------------------------------------------------------------------------
(***************************************************************************)
(* The records of a log are its lines, each once, in the order Before: a   *)
(* function of the set of lines, not of their order in the file.           *)
(***************************************************************************)
Blocks == {[NoBlock EXCEPT !.kind = "item", !.ret = s] : s \in ReturnTargets}
Payloads == Nat \cup Blocks \cup [recorded : {TRUE}, attempt : Nat, retryable : BOOLEAN]
Entries == {r \in [id : Nat, ts : Nat, event : Events, complete : {TRUE}, body : Payloads,
                   ret : ReturnTargets \cup {Nowhere}] :
               r.event # "blocked" => r.ret = Nowhere}

Sorted(s) == \A j, k \in DOMAIN s : j < k => Before(s[j], s[k])

Said(s) == {s[k] : k \in DOMAIN s}

LEMMA BeforeOrders ==
    /\ \A a \in Entries : ~Before(a, a)
    /\ \A a, b \in Entries : a.id # b.id => Before(a, b) \/ Before(b, a)
    /\ \A a, b, c \in Entries : Before(a, b) /\ Before(b, c) => Before(a, c)
<1>1. \A a \in Entries : a.id \in Nat /\ a.ts \in Nat
    BY DEF Entries
<1> QED
    BY <1>1 DEF Before

LEMMA InsertedAt ==
    ASSUME NEW T, NEW s \in Seq(T), NEW r \in T, NEW a \in 0 .. Len(s)
    PROVE  LET t == InsertAt(s, a + 1, r) IN
           /\ t \in Seq(T) /\ Len(t) = Len(s) + 1
           /\ \A k \in 1 .. Len(t) : t[k] = IF k <= a THEN s[k]
                                            ELSE IF k = a + 1 THEN r ELSE s[k - 1]
<1> DEFINE u == SubSeq(s, 1, a)
           v == SubSeq(s, a + 1, Len(s))
           t == InsertAt(s, a + 1, r)
<1>0. Len(s) \in Nat /\ a \in Nat
    OBVIOUS
<1>1. u \in Seq(T) /\ Len(u) = a /\ \A k \in 1 .. a : u[k] = s[k]
    OBVIOUS
<1>2. v \in Seq(T) /\ Len(v) = Len(s) - a /\ \A k \in 1 .. Len(s) - a : v[k] = s[a + k]
    OBVIOUS
<1> HIDE DEF u, v
<1>3. /\ u \o <<r>> \in Seq(T) /\ Len(u \o <<r>>) = a + 1
      /\ \A k \in 1 .. a + 1 : (u \o <<r>>)[k] = IF k <= a THEN s[k] ELSE r
    BY <1>0, <1>1
<1> DEFINE w == u \o <<r>>
<1> HIDE DEF w
<1>4. /\ w \o v \in Seq(T) /\ Len(w \o v) = Len(s) + 1
      /\ \A k \in 1 .. Len(s) + 1 : (w \o v)[k] = IF k <= a THEN s[k]
                                                 ELSE IF k = a + 1 THEN r ELSE s[k - 1]
  <2>1. w \in Seq(T) /\ Len(w) = a + 1 /\ \A k \in 1 .. a + 1 : w[k] = IF k <= a THEN s[k] ELSE r
      BY <1>3 DEF w
  <2>5. w \in Seq(T) /\ v \in Seq(T)
      BY <1>2, <2>1
  <2>0. w \o v \in Seq(T) /\ Len(w \o v) = Len(w) + Len(v)
      BY <2>5, ConcatProperties
  <2>2. w \o v \in Seq(T) /\ Len(w \o v) = Len(s) + 1
      BY <1>0, <1>2, <2>0, <2>1
  <2>3. ASSUME NEW k \in 1 .. Len(s) + 1
        PROVE  (w \o v)[k] = IF k <= a + 1 THEN w[k] ELSE v[k - (a + 1)]
      BY <1>0, <1>2, <2>1
  <2>4. ASSUME NEW k \in 1 .. Len(s) + 1, ~(k <= a + 1)
        PROVE  v[k - (a + 1)] = s[k - 1]
    <3>1. k - (a + 1) \in 1 .. Len(s) - a /\ a + (k - (a + 1)) = k - 1
        BY <1>0, <2>4
    <3> QED
        BY <1>2, <3>1
  <2>6. ASSUME NEW k \in 1 .. Len(s) + 1
        PROVE  (w \o v)[k] = IF k <= a THEN s[k] ELSE IF k = a + 1 THEN r ELSE s[k - 1]
    <3>1. CASE k <= a + 1
      <4>1. k \in 1 .. a + 1 /\ (k <= a \/ k = a + 1)
          BY <1>0, <3>1
      <4> QED
          BY <1>0, <2>1, <2>3, <3>1, <4>1
    <3>2. CASE ~(k <= a + 1)
      <4>1. ~(k <= a) /\ k # a + 1
          BY <1>0, <3>2
      <4>2. (w \o v)[k] = v[k - (a + 1)]
          BY <2>3, <3>2
      <4> QED
          BY <2>4, <3>2, <4>1, <4>2
    <3> QED
        BY <3>1, <3>2
  <2> QED
      BY <2>2, <2>6
<1>5. t = w \o v
  <2>1. (a + 1) - 1 = a
      BY <1>0
  <2> QED
      BY <2>1 DEF InsertAt, w, u, v
<1> HIDE DEF w, t
<1>6. /\ t \in Seq(T) /\ Len(t) = Len(s) + 1
      /\ \A k \in 1 .. Len(t) : t[k] = IF k <= a THEN s[k]
                                       ELSE IF k = a + 1 THEN r ELSE s[k - 1]
    BY <1>4, <1>5
<1> QED
    BY <1>6 DEF t

\* A line takes its place among those before it, if its id is not there yet.
LEMMA KeptInOrder ==
    ASSUME NEW s \in Seq(Entries), Sorted(s), NEW r \in Entries
    PROVE  LET t == Keep(s, r) IN
           /\ t \in Seq(Entries) /\ Sorted(t)
           /\ IF \E k \in DOMAIN s : s[k].id = r.id THEN t = s ELSE Said(t) = Said(s) \cup {r}
<1>1. CASE \E k \in DOMAIN s : s[k].id = r.id
    BY <1>1 DEF Keep
<1>2. CASE ~\E k \in DOMAIN s : s[k].id = r.id
  <2> DEFINE N == Len(s)
             S == {k \in DOMAIN s : Before(s[k], r)}
             a == Cardinality(S)
             t == InsertAt(s, a + 1, r)
  <2>0. N \in Nat /\ DOMAIN s = 1 .. N /\ \A k \in 1 .. N : s[k] \in Entries
      OBVIOUS
  <2>1. \A k \in S : \A j \in 1 .. k : j \in S
    <3>1. ASSUME NEW k \in S, NEW j \in 1 .. k PROVE Before(s[j], r)
      <4>1. j \in 1 .. N /\ k \in 1 .. N /\ (j < k \/ j = k)
          BY <2>0
      <4> QED
          BY <2>0, <4>1, BeforeOrders DEF Sorted
    <3> QED
        BY <2>0, <3>1
  <2>2. a \in 0 .. N /\ S = 1 .. a
    <3>1. S \in SUBSET (1 .. N)
        BY <2>0
    <3> HIDE DEF S, N
    <3> QED
        BY <2>0, <2>1, <3>1, NoGaps
  <2>3. \A k \in 1 .. a : Before(s[k], r)
      BY <2>2
  <2>4. \A k \in a + 1 .. N : Before(r, s[k])
    <3>1. ASSUME NEW k \in a + 1 .. N PROVE ~Before(s[k], r)
      <4>1. k \notin 1 .. a /\ k \in 1 .. N
          BY <2>0, <2>2
      <4> QED
          BY <2>0, <2>2, <4>1
    <3>2. ASSUME NEW k \in a + 1 .. N PROVE k \in 1 .. N
        BY <2>0, <2>2
    <3> QED
        BY <1>2, <2>0, <3>1, <3>2, BeforeOrders
  <2>5. /\ t \in Seq(Entries) /\ Len(t) = N + 1
        /\ \A k \in 1 .. N + 1 : t[k] = IF k <= a THEN s[k] ELSE IF k = a + 1 THEN r ELSE s[k - 1]
    <3>1. a \in 0 .. Len(s)
        BY <2>2
    <3> HIDE DEF a
    <3>2. /\ t \in Seq(Entries) /\ Len(t) = Len(s) + 1
          /\ \A k \in 1 .. Len(t) : t[k] = IF k <= a THEN s[k]
                                           ELSE IF k = a + 1 THEN r ELSE s[k - 1]
        BY <3>1, InsertedAt
    <3> HIDE DEF t
    <3> QED
        BY <3>2
  <2> HIDE DEF t, S, a
  <2>6. a \in Nat /\ a <= N /\ DOMAIN t = 1 .. N + 1
      BY <2>0, <2>2, <2>5
  <2>7. Sorted(t)
    <3> SUFFICES ASSUME NEW j \in 1 .. N + 1, NEW k \in 1 .. N + 1, j < k PROVE Before(t[j], t[k])
        BY <2>6 DEF Sorted
    <3>1. CASE k <= a
      <4>1. j \in 1 .. N /\ k \in 1 .. N /\ t[j] = s[j] /\ t[k] = s[k]
          BY <2>5, <2>6, <3>1
      <4> QED
          BY <2>0, <4>1 DEF Sorted
    <3>2. CASE k = a + 1
        BY <2>0, <2>3, <2>5, <2>6, <3>2
    <3>3. CASE a + 1 < k
      <4>1. k - 1 \in a + 1 .. N /\ t[k] = s[k - 1] /\ k - 1 \in 1 .. N
          BY <2>0, <2>5, <2>6, <3>3
      <4>2. CASE j <= a
        <5>1. j \in 1 .. N /\ t[j] = s[j] /\ j < k - 1
            BY <2>5, <2>6, <3>3, <4>2
        <5> QED
            BY <2>0, <4>1, <5>1 DEF Sorted
      <4>3. CASE j = a + 1
          BY <2>4, <2>5, <2>6, <4>1, <4>3
      <4>4. CASE a + 1 < j
        <5>1. j - 1 \in 1 .. N /\ t[j] = s[j - 1] /\ j - 1 < k - 1
            BY <2>0, <2>5, <2>6, <4>4
        <5> QED
            BY <2>0, <4>1, <5>1 DEF Sorted
      <4> QED
          BY <2>0, <2>6, <4>2, <4>3, <4>4
    <3> QED
        BY <2>0, <2>6, <3>1, <3>2, <3>3
  <2>8. Said(t) = Said(s) \cup {r}
    <3>1. ASSUME NEW k \in 1 .. N + 1 PROVE t[k] \in Said(s) \cup {r}
      <4>1. CASE k <= a
        <5>1. k \in DOMAIN s /\ t[k] = s[k]
            BY <2>0, <2>5, <2>6, <4>1
        <5> QED
            BY <5>1 DEF Said
      <4>2. CASE k = a + 1
        <5>1. t[k] = r
            BY <2>0, <2>5, <2>6, <4>2
        <5> QED
            BY <5>1
      <4>3. CASE a + 1 < k
        <5>1. k - 1 \in DOMAIN s /\ t[k] = s[k - 1]
            BY <2>0, <2>5, <2>6, <4>3
        <5> QED
            BY <5>1 DEF Said
      <4> QED
          BY <2>6, <4>1, <4>2, <4>3
    <3>2. ASSUME NEW k \in 1 .. N PROVE s[k] \in Said(t)
      <4>1. CASE k <= a
        <5>1. k \in 1 .. N + 1 /\ t[k] = s[k]
            BY <2>0, <2>5, <2>6, <4>1
        <5> QED
            BY <2>6, <5>1 DEF Said
      <4>2. CASE ~(k <= a)
        <5>1. k + 1 \in 1 .. N + 1 /\ t[k + 1] = s[k]
            BY <2>0, <2>5, <2>6, <4>2
        <5> QED
            BY <2>6, <5>1 DEF Said
      <4> QED
          BY <4>1, <4>2
    <3>3. r \in Said(t)
      <4>1. a + 1 \in 1 .. N + 1 /\ t[a + 1] = r
          BY <2>0, <2>5, <2>6
      <4> QED
          BY <2>6, <4>1 DEF Said
    <3> QED
        BY <2>0, <2>6, <3>1, <3>2, <3>3 DEF Said
  <2>9. Keep(s, r) = t
      BY <1>2 DEF Keep, t, a, S
  <2> QED
      BY <1>2, <2>5, <2>7, <2>8, <2>9
<1> QED
    BY <1>1, <1>2

LEMMA RecordsAreTheLines ==
    ASSUME NEW lines \in Seq(Entries), ~Conflicting(lines)
    PROVE  LET records == Records(lines) IN
           records \in Seq(Entries) /\ Sorted(records) /\ Said(records) = Said(lines)
<1> DEFINE N == Len(lines)
<1>0. N \in Nat /\ DOMAIN lines = 1 .. N /\ \A k \in 1 .. N : lines[k] \in Entries
    OBVIOUS
<1>1. PICK p : /\ p[0] = <<>> /\ p[N] = Records(lines)
               /\ \A n \in 0 .. N - 1 : p[n + 1] = Keep(p[n], lines[n + 1])
    BY RecordsStepwise
<1> HIDE DEF N
<1> DEFINE First(n) == {lines[k] : k \in 1 .. n}
           Good(n) == p[n] \in Seq(Entries) /\ Sorted(p[n]) /\ Said(p[n]) = First(n)
           S == {n \in Nat : n <= N => Good(n)}
<1>2. 0 \in S
  <2>1. <<>> \in Seq(Entries) /\ Sorted(<<>>) /\ Said(<<>>) = {} /\ First(0) = {}
      BY DEF Sorted, Said
  <2> QED
      BY <1>1, <2>1
<1>3. ASSUME NEW n \in Nat, n \in S PROVE n + 1 \in S
  <2> SUFFICES ASSUME n + 1 <= N PROVE Good(n + 1)
      OBVIOUS
  <2>1. Good(n) /\ n \in 0 .. N - 1 /\ n + 1 \in 1 .. N
      BY <1>0, <1>3
  <2> DEFINE s == p[n]
             r == lines[n + 1]
             t == p[n + 1]
  <2>2. t = Keep(s, r) /\ r \in Entries
      BY <1>0, <1>1, <2>1
  <2>7. s \in Seq(Entries) /\ Sorted(s)
      BY <2>1
  <2> HIDE DEF s, r, t
  <2>3. /\ t \in Seq(Entries) /\ Sorted(t)
        /\ IF \E k \in DOMAIN s : s[k].id = r.id THEN t = s ELSE Said(t) = Said(s) \cup {r}
      BY <2>2, <2>7, KeptInOrder
  <2> USE DEF s, r, t
  <2>4. First(n + 1) = First(n) \cup {r}
    <3>1. 1 .. n + 1 = (1 .. n) \cup {n + 1}
        OBVIOUS
    <3> QED
        BY <3>1
  <2>5. ASSUME NEW k \in DOMAIN s, s[k].id = r.id PROVE r \in First(n)
    <3>1. s[k] \in First(n)
        BY <2>1 DEF Said
    <3>2. PICK j \in 1 .. n : s[k] = lines[j]
        BY <3>1
    <3>3. j \in DOMAIN lines /\ n + 1 \in DOMAIN lines
        BY <1>0, <2>1
    <3>4. lines[j] = r
        BY <2>5, <3>2, <3>3 DEF Conflicting
    <3> QED
        BY <3>2, <3>4
  <2> HIDE DEF First, s, r
  <2>6. Said(t) = First(n + 1)
      BY <2>1, <2>3, <2>4, <2>5 DEF s
  <2> QED
      BY <2>3, <2>6
<1>4. N \in S
  <2> HIDE DEF S
  <2> QED
      BY <1>0, <1>2, <1>3, Induction
<1>5. First(N) = Said(lines)
    BY <1>0 DEF Said
<1>6. Good(N)
    BY <1>0, <1>4
<1> HIDE DEF First
<1> QED
    BY <1>1, <1>5, <1>6

\* There is one way to put a set of lines in order.
LEMMA OneOrder ==
    ASSUME NEW s \in Seq(Entries), NEW t \in Seq(Entries),
           Sorted(s), Sorted(t), Said(s) = Said(t)
    PROVE  s = t
<1> DEFINE Agree(k) == k \in DOMAIN s /\ k \in DOMAIN t /\ s[k] = t[k]
           Differ == {k \in DOMAIN s \cup DOMAIN t : ~Agree(k)}
<1>0. /\ Len(s) \in Nat /\ DOMAIN s = 1 .. Len(s) /\ \A k \in DOMAIN s : s[k] \in Entries
      /\ Len(t) \in Nat /\ DOMAIN t = 1 .. Len(t) /\ \A k \in DOMAIN t : t[k] \in Entries
    OBVIOUS
<1>1. ASSUME Differ # {} PROVE FALSE
  <2>1. Differ \subseteq Nat
      BY <1>0
  <2>2. PICK k \in Differ : \A j \in Differ : k <= j
    <3> HIDE DEF Differ
    <3> QED
        BY <1>1, <2>1, LeastExists
  <2>3. k \in Nat /\ k > 0 /\ \A j \in 1 .. k - 1 : Agree(j)
    <3>1. ASSUME NEW j \in 1 .. k - 1 PROVE j \in DOMAIN s \cup DOMAIN t /\ ~(k <= j)
        BY <1>0, <2>2
    <3> QED
        BY <1>0, <2>2, <3>1
  \* What stands at k in one stands later in the other.
  <2>4. ASSUME k \in DOMAIN s
        PROVE  \E m \in DOMAIN t : t[m] = s[k] /\ m > k
    <3>1. PICK m \in DOMAIN t : t[m] = s[k]
        BY <2>4 DEF Said
    <3>2. ~(m < k)
      <4>1. ASSUME m < k PROVE FALSE
        <5>1. Agree(m)
            BY <1>0, <2>3, <4>1
        <5>2. Before(s[m], s[k]) /\ s[m] = s[k]
            BY <2>4, <3>1, <4>1, <5>1 DEF Sorted
        <5> QED
            BY <1>0, <2>4, <5>2, BeforeOrders
      <4> QED
          BY <4>1
    <3>3. m # k
        BY <2>2, <2>4, <3>1
    <3> QED
        BY <1>0, <2>3, <3>1, <3>2, <3>3
  <2>5. ASSUME k \in DOMAIN t
        PROVE  \E m \in DOMAIN s : s[m] = t[k] /\ m > k
    <3>1. PICK m \in DOMAIN s : s[m] = t[k]
        BY <2>5 DEF Said
    <3>2. ~(m < k)
      <4>1. ASSUME m < k PROVE FALSE
        <5>1. Agree(m)
            BY <1>0, <2>3, <4>1
        <5>2. Before(t[m], t[k]) /\ t[m] = t[k]
            BY <2>5, <3>1, <4>1, <5>1 DEF Sorted
        <5> QED
            BY <1>0, <2>5, <5>2, BeforeOrders
      <4> QED
          BY <4>1
    <3>3. m # k
        BY <2>2, <2>5, <3>1
    <3> QED
        BY <1>0, <2>3, <3>1, <3>2, <3>3
  <2>6. k \in DOMAIN s /\ k \in DOMAIN t
      BY <1>0, <2>2, <2>3, <2>4, <2>5
  <2>7. PICK m \in DOMAIN t : t[m] = s[k] /\ m > k
      BY <2>4, <2>6
  <2>8. PICK l \in DOMAIN s : s[l] = t[k] /\ l > k
      BY <2>5, <2>6
  <2>9. Before(t[k], t[m]) /\ Before(s[k], s[l])
      BY <1>0, <2>3, <2>6, <2>7, <2>8 DEF Sorted
  <2>10. s[k] \in Entries /\ t[k] \in Entries /\ Before(t[k], s[k]) /\ Before(s[k], t[k])
      BY <1>0, <2>6, <2>7, <2>8, <2>9
  <2> QED
      BY <2>10, BeforeOrders
<1>2. \A k \in DOMAIN s \cup DOMAIN t : Agree(k)
    BY <1>1
<1>3. DOMAIN s = DOMAIN t /\ \A k \in DOMAIN s : s[k] = t[k]
    BY <1>2
<1> QED
    BY <1>0, <1>3

\* The state is a function of the set of lines (eventlog: order-insensitive).
LEMMA SameLinesSameFold ==
    ASSUME NEW s \in Seq(Entries), NEW t \in Seq(Entries), Said(s) = Said(t),
           ~Conflicting(s), ~Conflicting(t)
    PROVE  StateOf(ITEM, s) = StateOf(ITEM, t)
<1>1. Records(s) = Records(t)
  <2>1. Records(s) \in Seq(Entries) /\ Sorted(Records(s)) /\ Said(Records(s)) = Said(s)
      BY RecordsAreTheLines
  <2>2. Records(t) \in Seq(Entries) /\ Sorted(Records(t)) /\ Said(Records(t)) = Said(t)
      BY RecordsAreTheLines
  <2> QED
      BY <2>1, <2>2, OneOrder
<1>2. s = <<>> <=> t = <<>>
    BY DEF Said
<1>3. CASE s = <<>>
    BY <1>2, <1>3 DEF StateOf
<1>4. CASE s # <<>>
  <2>1. StateOf(ITEM, s) = Fold(ITEM, Records(s)).state
      BY <1>4 DEF StateOf
  <2>2. StateOf(ITEM, t) = Fold(ITEM, Records(t)).state
      BY <1>2, <1>4 DEF StateOf
  <2> QED
      BY <1>1, <2>1, <2>2
<1> QED
    BY <1>3, <1>4

-----------------------------------------------------------------------------
(***************************************************************************)
(* The logs.  A line has one id, in whichever clone and however often.     *)
(***************************************************************************)
TypeOK == /\ log \in [Clones -> Seq(Entries)]
          /\ cloned \in BOOLEAN /\ ends \in Nat

\* Until the cloning there is one file, whose lines are numbered and dated in order.
OneFile == ~cloned => /\ \A c, d \in Clones : log[c] = log[d]
                      /\ \A c \in Clones : \A k \in DOMAIN log[c] :
                            log[c][k].id = k /\ log[c][k].ts = k

Numbered == cloned => \A c \in Clones :
                /\ Len(Base) <= Len(log[c])
                /\ \A k \in DOMAIN log[c] : log[c][k].id <= Len(Base) + ends

OneLinePerId ==
    \A c, d \in Clones : \A j \in DOMAIN log[c], k \in DOMAIN log[d] :
        log[c][j].id = log[d][k].id => log[c][j] = log[d][k]

LogInv == TypeOK /\ OneFile /\ Numbered /\ OneLinePerId

LEMMA TrailIsAFile ==
    ASSUME TypeOK
    PROVE  /\ \E c \in Clones : Trail = log[c]
           /\ Trail \in Seq(Entries)
<1>1. (CHOOSE c \in Clones : TRUE) \in Clones
    BY TrailAssumption
<1> QED
    BY <1>1 DEF Trail, TypeOK

LEMMA LineIsAnEntry ==
    ASSUME NEW id \in Nat, NEW ts \in Nat, NEW e \in Events, NEW body \in Payloads,
           e = "blocked" => body \in Blocks
    PROVE  Line(id, ts, e, body) \in Entries
<1>1. e = "blocked" => body.ret \in ReturnTargets
    BY DEF Blocks, NoBlock
<1> HIDE DEF Payloads
<1> QED
    BY <1>1 DEF Line, Entries

LEMMA ClaimsAreCounted ==
    ASSUME NEW T, NEW s \in Seq(T), NEW e
    PROVE  /\ OfEvent(s, e) \in SUBSET (1 .. Len(s))
           /\ IsFiniteSet(OfEvent(s, e)) /\ Cardinality(OfEvent(s, e)) \in Nat
<1>1. Len(s) \in Nat /\ OfEvent(s, e) \in SUBSET (1 .. Len(s))
    BY DEF OfEvent
<1> QED
    BY <1>1, PositionsAreFinite

LEMMA BodiesArePayloads ==
    ASSUME TypeOK, NEW e, NEW body \in Bodies(e)
    PROVE  body \in Payloads /\ (e = "blocked" => body \in Blocks)
<1>1. claims(Trail) \in Nat
    BY TrailIsAFile, ClaimsAreCounted DEF claims
<1>2. CASE e = "claimed"
  <2>1. Bodies(e) = {claims(Trail) + 1}
      BY <1>2 DEF Bodies
  <2>2. body = claims(Trail) + 1
      BY <2>1
  <2>3. body \in Nat
      BY <1>1, <2>2
  <2> QED
      BY <1>2, <2>3 DEF Payloads
<1>3. CASE e = "blocked"
  <2>1. Bodies(e) = Blocks
      BY <1>3 DEF Bodies, Blocks
  <2> QED
      BY <1>3, <2>1 DEF Payloads
<1>4. CASE e = "failed"
    BY <1>1, <1>4 DEF Bodies, Payloads
<1>5. CASE e \notin {"claimed", "blocked", "failed"}
  <2>1. Bodies(e) \in {{0}, {1}, {1, 2}}
      BY <1>5 DEF Bodies
  <2>2. body \in Nat
      BY <2>1
  <2> QED
      BY <1>5, <2>2 DEF Payloads
<1> QED
    BY <1>2, <1>3, <1>4, <1>5

\* The element a given number of others come before.
LEMMA Ranked ==
    ASSUME NEW n \in Nat, NEW at \in SUBSET (1 .. n), NEW m \in 1 .. Cardinality(at)
    PROVE  \E k \in at : Cardinality({j \in at : j < k}) = m - 1
<1> DEFINE low(k) == {j \in at : j < k}
           N == Cardinality(at)
           f == [k \in at |-> Cardinality(low(k))]
<1>1. IsFiniteSet(at) /\ N \in Nat
    BY PositionsAreFinite
<1>2. \A k \in at : IsFiniteSet(low(k)) /\ Cardinality(low(k)) \in Nat /\ Cardinality(low(k)) < N
  <2> SUFFICES ASSUME NEW k \in at
               PROVE  IsFiniteSet(low(k)) /\ Cardinality(low(k)) \in Nat /\ Cardinality(low(k)) < N
      OBVIOUS
  <2>1. low(k) \in SUBSET at /\ low(k) # at
      OBVIOUS
  <2> HIDE DEF low
  <2>2. IsFiniteSet(low(k)) /\ Cardinality(low(k)) <= N /\ Cardinality(low(k)) # N
      BY <1>1, <2>1, FS_Subset
  <2>3. Cardinality(low(k)) \in Nat
      BY <2>2, FS_CardinalityType
  <2> QED
      BY <1>1, <2>2, <2>3
<1>3. ASSUME NEW k \in at, NEW l \in at, k < l PROVE Cardinality(low(k)) # Cardinality(low(l))
  <2>1. low(k) \in SUBSET low(l) /\ low(k) # low(l)
    <3>1. k \in low(l) /\ k \notin low(k) /\ k \in Nat /\ l \in Nat
        BY <1>3
    <3>2. ASSUME NEW j \in low(k) PROVE j \in low(l)
        BY <1>3, <3>1
    <3> QED
        BY <3>1, <3>2
  <2> HIDE DEF low
  <2> QED
      BY <1>2, <2>1, FS_Subset
<1> HIDE DEF low
<1>4. f \in Injection(at, 0 .. N - 1)
  <2>1. f \in [at -> 0 .. N - 1]
      BY <1>1, <1>2
  <2>2. ASSUME NEW k \in at, NEW l \in at, f[k] = f[l] PROVE k = l
    <3>1. k \in Nat /\ l \in Nat
        OBVIOUS
    <3> QED
        BY <1>3, <2>2, <3>1
  <2> HIDE DEF f
  <2> QED
      BY <2>1, <2>2 DEF Injection, IsInjective
<1>5. IsFiniteSet(0 .. N - 1) /\ Cardinality(0 .. N - 1) = N
  <2>1. 0 \in Int /\ N - 1 \in Int /\ (0 > N - 1 <=> N = 0) /\ (N - 1) - 0 + 1 = N
      BY <1>1
  <2> HIDE DEF N
  <2> QED
      BY <2>1, FS_Interval
<1>6. f \in Surjection(at, 0 .. N - 1)
  <2> HIDE DEF f, N
  <2>1. Cardinality(at) = Cardinality(0 .. N - 1)
      BY <1>5 DEF N
  <2> QED
      BY <1>4, <1>5, <2>1, FS_Injection
<1>7. m - 1 \in 0 .. N - 1
    BY <1>1
<1>8. \E k \in at : f[k] = m - 1
    BY <1>6, <1>7 DEF Surjection
<1> QED
    BY <1>8 DEF low

LEMMA MissingIsTheOthers ==
    ASSUME TypeOK, NEW c \in Clones, NEW d \in Clones
    PROVE  Missing(c, d) \in Seq(Entries) /\ Said(Missing(c, d)) \subseteq Said(log[d])
<1> DEFINE at == {k \in DOMAIN log[d] : \A j \in DOMAIN log[c] : log[c][j] # log[d][k]}
           pick(n) == CHOOSE k \in at : Cardinality({j \in at : j < k}) = n - 1
           N == Cardinality(at)
<1>1. log[d] \in Seq(Entries) /\ Len(log[d]) \in Nat /\ at \in SUBSET (1 .. Len(log[d]))
    BY DEF TypeOK
<1>2. Missing(c, d) = [n \in 1 .. N |-> log[d][pick(n)]]
    BY DEF Missing
<1> HIDE DEF at
<1>3. N \in Nat
    BY <1>1, PositionsAreFinite
<1>4. \A n \in 1 .. N : pick(n) \in at
    BY <1>1, Ranked
<1> HIDE DEF N, pick
<1>5. \A n \in 1 .. N : pick(n) \in DOMAIN log[d] /\ log[d][pick(n)] \in Entries
  <2>1. \A k \in at : k \in DOMAIN log[d] /\ log[d][k] \in Entries
      BY <1>1
  <2> QED
      BY <1>4, <2>1
<1> QED
    BY <1>2, <1>3, <1>5 DEF Said

\* What a merge leaves is made of the two files, and loses nothing of its own.
LEMMA MergesKeepLines ==
    ASSUME TypeOK, Numbered, NEW c \in Clones, NEW d \in Clones, Merge(c, d)
    PROVE  /\ log' \in [Clones -> Seq(Entries)]
           /\ \A x \in Clones : x # c => log'[x] = log[x]
           /\ Len(log[c]) <= Len(log'[c])
           /\ Said(log[c]) \subseteq Said(log'[c])
           /\ Said(log'[c]) \subseteq Said(log[c]) \cup Said(log[d])
<1> DEFINE s == log[c]
<1>1. s \in Seq(Entries) /\ Len(s) \in Nat /\ DOMAIN s = 1 .. Len(s)
    BY DEF TypeOK
<1>2. PICK again \in {<<>>} \cup {<<s[k]>> : k \in Since(c)}, at \in {Len(Base)} \cup Since(c) :
          log' = [log EXCEPT ![c] = (SubSeq(s, 1, at) \o (again \o Missing(c, d)))
                                    \o SubSeq(s, at + 1, Len(s))]
    BY DEF Merge
<1>3. again \in Seq(Entries) /\ Said(again) \subseteq Said(s)
  <2>1. CASE again = <<>>
      BY <2>1 DEF Said
  <2>2. CASE again # <<>>
    <3>1. PICK k \in Since(c) : again = <<s[k]>>
        BY <1>2, <2>2
    <3>2. k \in DOMAIN s /\ s[k] \in Entries
        BY <1>1, <3>1 DEF Since
    <3> HIDE DEF s
    <3> QED
        BY <3>1, <3>2 DEF Said
  <2> QED
      BY <2>1, <2>2
<1>4. Missing(c, d) \in Seq(Entries) /\ Said(Missing(c, d)) \subseteq Said(log[d])
    BY MissingIsTheOthers
<1>5. ASSUME NEW a \in Seq(Entries), NEW b \in Seq(Entries)
      PROVE  /\ a \o b \in Seq(Entries) /\ Said(a \o b) = Said(a) \cup Said(b)
             /\ Len(a \o b) = Len(a) + Len(b) /\ Len(a) \in Nat
  <2>1. /\ a \o b \in Seq(Entries) /\ Len(a \o b) = Len(a) + Len(b)
        /\ \A i \in 1 .. Len(a) + Len(b) : (a \o b)[i] = IF i <= Len(a) THEN a[i] ELSE b[i - Len(a)]
      BY ConcatProperties
  <2>2. Len(a) \in Nat /\ DOMAIN a = 1 .. Len(a) /\ Len(b) \in Nat /\ DOMAIN b = 1 .. Len(b)
        /\ DOMAIN (a \o b) = 1 .. Len(a) + Len(b)
      BY <2>1
  <2>3. ASSUME NEW i \in 1 .. Len(a) + Len(b) PROVE (a \o b)[i] \in Said(a) \cup Said(b)
    <3>1. CASE i <= Len(a)
        BY <2>1, <2>2, <3>1 DEF Said
    <3>2. CASE ~(i <= Len(a))
      <4>1. i - Len(a) \in 1 .. Len(b)
          BY <2>2, <3>2
      <4> QED
          BY <2>1, <2>2, <3>2, <4>1 DEF Said
    <3> QED
        BY <3>1, <3>2
  <2>4. ASSUME NEW i \in 1 .. Len(a) PROVE a[i] \in Said(a \o b)
    <3>1. i \in 1 .. Len(a) + Len(b) /\ i <= Len(a)
        BY <2>2
    <3> QED
        BY <2>1, <2>2, <3>1 DEF Said
  <2>5. ASSUME NEW i \in 1 .. Len(b) PROVE b[i] \in Said(a \o b)
    <3>1. i + Len(a) \in 1 .. Len(a) + Len(b) /\ ~(i + Len(a) <= Len(a)) /\ (i + Len(a)) - Len(a) = i
        BY <2>2
    <3>2. (a \o b)[i + Len(a)] = b[i]
        BY <2>1, <3>1
    <3> QED
        BY <2>2, <3>1, <3>2 DEF Said
  <2> QED
      BY <2>1, <2>2, <2>3, <2>4, <2>5 DEF Said
<1> DEFINE u == SubSeq(s, 1, at)
           v == SubSeq(s, at + 1, Len(s))
           w == again \o Missing(c, d)
           t == (u \o w) \o v
<1>6. /\ u \in Seq(Entries) /\ v \in Seq(Entries) /\ Len(u) + Len(v) = Len(s)
      /\ Said(s) \subseteq Said(u) \cup Said(v) /\ Said(u) \subseteq Said(s) /\ Said(v) \subseteq Said(s)
  <2>1. at \in Nat
      BY <1>1, <1>2, TrailAssumption DEF Since
  <2> HIDE DEF s
  <2>3. at <= Len(s)
      BY <1>1, <1>2 DEF Merge, Numbered, Since, s
  <2>7. /\ v \in Seq(Entries) /\ DOMAIN v = 1 .. Len(s) - at
        /\ \A k \in 1 .. Len(s) - at : v[k] = s[at + k]
      BY <1>1, <2>1, <2>3
  <2>2. /\ v \in Seq(Entries)
        /\ \A k \in DOMAIN v : k \in Nat /\ at + k \in DOMAIN s /\ v[k] = s[at + k]
        /\ \A k \in DOMAIN s : k > at => k - at \in DOMAIN v /\ v[k - at] = s[k]
    <3> HIDE DEF v
    <3>1. \A k \in 1 .. Len(s) - at : k \in Nat /\ at + k \in 1 .. Len(s)
        BY <1>1, <2>1, <2>3
    <3>2. \A k \in 1 .. Len(s) : k > at => k - at \in 1 .. Len(s) - at /\ at + (k - at) = k
        BY <1>1, <2>1, <2>3
    <3> QED
        BY <1>1, <2>7, <3>1, <3>2
  <2>4. /\ u \in Seq(Entries) /\ DOMAIN u = 1 .. at
        /\ \A k \in 1 .. at : k \in DOMAIN s /\ u[k] = s[k]
      BY <1>1, <2>1, <2>3
  <2>6. Len(u) + Len(v) = Len(s)
    <3>1. Len(u) = at
        BY <1>1, <2>1, <2>3
    <3>2. Len(v) = Len(s) - at
      <4> DEFINE N == Len(s)
      <4>1. N \in Nat /\ at \in Nat /\ at <= N
          BY <1>1, <2>1, <2>3
      <4>2. CASE at + 1 <= N
          BY <1>1, <2>1, <4>1, <4>2
      <4>3. CASE ~(at + 1 <= N)
        <5>1. v = <<>>
          <6> HIDE DEF N
          <6>1. at + 1 \in Int /\ N \in Int /\ N < at + 1
              BY <4>1, <4>3
          <6>2. SubSeq(s, at + 1, N) = <<>>
              BY <6>1, SubSeqEmpty
          <6> QED
              BY <6>2 DEF N
        <5> HIDE DEF N, v
        <5>2. Len(v) = 0 /\ N - at = 0
            BY <4>1, <4>3, <5>1
        <5> QED
            BY <5>2 DEF N
      <4> QED
          BY <4>2, <4>3
    <3> HIDE DEF u, v
    <3> QED
        BY <1>1, <2>1, <3>1, <3>2
  <2> HIDE DEF u, v
  <2>5. ASSUME NEW k \in DOMAIN s PROVE s[k] \in Said(u) \cup Said(v)
    <3>1. k \in 1 .. at \/ k > at
        BY <1>1, <2>1
    <3> QED
        BY <2>2, <2>4, <3>1 DEF Said
  <2> QED
      BY <2>2, <2>4, <2>5, <2>6 DEF Said
<1> HIDE DEF u, v
<1>7. w \in Seq(Entries) /\ Len(w) \in Nat /\ Said(w) = Said(again) \cup Said(Missing(c, d))
    BY <1>3, <1>4, <1>5
<1> HIDE DEF w
<1>8. t \in Seq(Entries) /\ Said(t) = (Said(u) \cup Said(w)) \cup Said(v) /\ Len(s) <= Len(t)
  <2>1. /\ u \o w \in Seq(Entries) /\ Said(u \o w) = Said(u) \cup Said(w)
        /\ Len(u \o w) = Len(u) + Len(w) /\ Len(u) \in Nat
      BY <1>5, <1>6, <1>7
  <2> DEFINE x == u \o w
  <2> HIDE DEF x
  <2>2. /\ x \o v \in Seq(Entries) /\ Said(x \o v) = Said(x) \cup Said(v)
        /\ Len(x \o v) = Len(x) + Len(v)
      BY <1>5, <1>6, <2>1 DEF x
  <2>3. Len(v) \in Nat /\ Len(x) = Len(u) + Len(w)
      BY <1>5, <1>6, <2>1 DEF x
  <2>4. Len(s) <= Len(x \o v)
      BY <1>6, <1>7, <2>1, <2>2, <2>3
  <2> QED
      BY <2>1, <2>2, <2>4 DEF x
<1>9. log' = [log EXCEPT ![c] = t]
    BY <1>2 DEF u, v, w
<1> HIDE DEF t, s
<1>10. log' \in [Clones -> Seq(Entries)] /\ log'[c] = t /\ \A x \in Clones : x # c => log'[x] = log[x]
    BY <1>8, <1>9 DEF TypeOK
<1>11. Len(s) <= Len(t) /\ Said(s) \subseteq Said(t) /\ Said(t) \subseteq Said(s) \cup Said(log[d])
    BY <1>3, <1>4, <1>6, <1>7, <1>8
<1> QED
    BY <1>10, <1>11 DEF s

\* A line more at the end of a file.
LEMMA AppendedLine ==
    ASSUME NEW s \in Seq(Entries), NEW r \in Entries
    PROVE  /\ Append(s, r) \in Seq(Entries) /\ Len(Append(s, r)) = Len(s) + 1
           /\ DOMAIN Append(s, r) = 1 .. Len(s) + 1
           /\ \A k \in 1 .. Len(s) : Append(s, r)[k] = s[k]
           /\ Append(s, r)[Len(s) + 1] = r
           /\ Said(Append(s, r)) = Said(s) \cup {r}
<1> DEFINE t == Append(s, r)
<1>1. /\ Len(s) \in Nat /\ DOMAIN s = 1 .. Len(s)
      /\ t \in Seq(Entries) /\ Len(t) = Len(s) + 1 /\ DOMAIN t = 1 .. Len(s) + 1
      /\ \A k \in 1 .. Len(s) : t[k] = s[k]
      /\ t[Len(s) + 1] = r
    OBVIOUS
<1> HIDE DEF t
<1>2. ASSUME NEW k \in 1 .. Len(s) + 1 PROVE t[k] \in Said(s) \cup {r}
  <2>1. k \in 1 .. Len(s) \/ k = Len(s) + 1
      BY <1>1
  <2> QED
      BY <1>1, <2>1 DEF Said
<1>3. Said(t) = Said(s) \cup {r}
  <2>1. \A k \in 1 .. Len(s) : k \in 1 .. Len(s) + 1
      BY <1>1
  <2>2. Len(s) + 1 \in 1 .. Len(s) + 1
      BY <1>1
  <2> QED
      BY <1>1, <1>2, <2>1, <2>2 DEF Said
<1> QED
    BY <1>1, <1>3 DEF t

LEMMA GrowAppends ==
    ASSUME LogInv, NEW e \in Vocabulary, NEW body \in Bodies(e), Grow(e, body)
    PROVE  LET r == Line(Len(Trail) + 1, Len(Trail) + 1, e, body) IN
           /\ r \in Entries /\ Trail \in Seq(Entries)
           /\ \A c \in Clones : log[c] = Trail /\ log'[c] = Append(Trail, r)
           /\ log' = [c \in Clones |-> Append(Trail, r)]
<1>1. Trail \in Seq(Entries) /\ \E c \in Clones : Trail = log[c]
    BY TrailIsAFile DEF LogInv
<1>2. Len(Trail) + 1 \in Nat /\ e \in Events /\ body \in Payloads
      /\ (e = "blocked" => body \in Blocks)
    BY <1>1, BodiesArePayloads, TrailAssumption DEF LogInv
<1>3. Line(Len(Trail) + 1, Len(Trail) + 1, e, body) \in Entries
    BY <1>2, LineIsAnEntry
<1>4. \A c \in Clones : log[c] = Trail
    BY <1>1 DEF Grow, LogInv, OneFile
<1> QED
    BY <1>1, <1>3, <1>4 DEF Grow, Candidate

LEMMA WriteAppends ==
    ASSUME LogInv, NEW c \in Clones, NEW e \in Ends, NEW ts \in Clock, Write(c, e, ts)
    PROVE  LET r == Line(Len(Base) + ends + 1, ts, e, 0) IN
           /\ r \in Entries /\ r.id = Len(Base) + ends + 1
           /\ log[c] \in Seq(Entries) /\ log' = [log EXCEPT ![c] = Append(log[c], r)]
           /\ ends' = ends + 1 /\ cloned /\ cloned'
<1>1. Len(Base) \in Nat /\ ends \in Nat /\ MaxEnds \in Nat /\ log[c] \in Seq(Entries)
    BY TrailAssumption DEF LogInv, TypeOK
<1>2. Len(Base) + ends + 1 \in Nat /\ ts \in Nat /\ e \in Events /\ e # "blocked" /\ 0 \in Payloads
    BY <1>1, TrailAssumption DEF Clock, Payloads
<1>3. Line(Len(Base) + ends + 1, ts, e, 0) \in Entries
    BY <1>2, LineIsAnEntry
<1> QED
    BY <1>1, <1>3 DEF Write, Line

LEMMA LogStep == LogInv /\ [Next]_vars => LogInv'
<1> SUFFICES ASSUME LogInv, [Next]_vars PROVE LogInv'
    OBVIOUS
<1>0. /\ TypeOK /\ OneFile /\ Numbered /\ OneLinePerId
      /\ \A c \in Clones : log[c] \in Seq(Entries) /\ Len(log[c]) \in Nat
                           /\ DOMAIN log[c] = 1 .. Len(log[c])
      /\ \A c \in Clones : \A k \in DOMAIN log[c] : log[c][k] \in Entries /\ log[c][k].id \in Nat
      /\ ends \in Nat /\ Len(Base) \in Nat
  <2>1. \A c \in Clones : log[c] \in Seq(Entries)
      BY DEF LogInv, TypeOK
  <2>2. \A c \in Clones : \A k \in DOMAIN log[c] : log[c][k] \in Entries
      BY <2>1
  <2>3. \A r \in Entries : r.id \in Nat
      BY DEF Entries
  <2>4. \A c \in Clones : Len(log[c]) \in Nat /\ DOMAIN log[c] = 1 .. Len(log[c])
      BY <2>1
  <2>5. ends \in Nat /\ Len(Base) \in Nat
      BY TrailAssumption DEF LogInv, TypeOK
  <2> QED
      BY <2>1, <2>2, <2>3, <2>4, <2>5 DEF LogInv
<1>1. ASSUME NEW e \in Vocabulary, NEW body \in Bodies(e), Grow(e, body) PROVE LogInv'
  <2> DEFINE r == Line(Len(Trail) + 1, Len(Trail) + 1, e, body)
             t == Append(Trail, r)
  <2>1. /\ r \in Entries /\ Trail \in Seq(Entries)
        /\ \A c \in Clones : log[c] = Trail /\ log'[c] = t
        /\ log' = [c \in Clones |-> t]
      BY <1>1, GrowAppends
  <2>2. r.id = Len(Trail) + 1 /\ r.ts = Len(Trail) + 1 /\ ~cloned /\ cloned' = cloned /\ ends' = ends
      BY <1>1 DEF Line, Grow
  <2>3. \A k \in DOMAIN Trail : Trail[k].id = k /\ Trail[k].ts = k
      BY <1>0, <2>1, <2>2, TrailAssumption DEF OneFile
  <2> HIDE DEF r
  <2>4. t \in Seq(Entries) /\ DOMAIN t = 1 .. Len(Trail) + 1 /\ Len(Trail) \in Nat
      BY <2>1, AppendedLine
  <2>5. \A k \in DOMAIN t : t[k].id = k /\ t[k].ts = k
    <3> SUFFICES ASSUME NEW k \in 1 .. Len(Trail) + 1 PROVE t[k].id = k /\ t[k].ts = k
        BY <2>4
    <3>1. CASE k = Len(Trail) + 1
      <4>1. t[k] = r
          BY <2>1, <3>1, AppendedLine
      <4> QED
          BY <2>2, <3>1, <4>1
    <3>2. CASE k # Len(Trail) + 1
      <4>1. k \in 1 .. Len(Trail) /\ k \in DOMAIN Trail
          BY <2>1, <2>4, <3>2
      <4>2. t[k] = Trail[k]
          BY <2>1, <4>1, AppendedLine
      <4> QED
          BY <2>3, <4>1, <4>2
    <3> QED
        BY <3>1, <3>2
  <2> HIDE DEF t
  <2>6. TypeOK'
      BY <1>0, <2>1, <2>2, <2>4 DEF TypeOK
  <2>7. OneFile' /\ Numbered'
      BY <2>1, <2>2, <2>5 DEF OneFile, Numbered
  <2>8. OneLinePerId'
      BY <2>1, <2>5 DEF OneLinePerId
  <2> QED
      BY <2>6, <2>7, <2>8 DEF LogInv
<1>2. ASSUME Clone PROVE LogInv'
  <2>1. ~cloned /\ cloned' /\ log' = log /\ ends' = ends
        /\ [k \in DOMAIN Trail |-> Trail[k].event] = Base
      BY <1>2 DEF Clone
  <2>2. PICK b \in Clones : Trail = log[b]
      BY <1>0, TrailIsAFile
  <2>3. DOMAIN Trail = DOMAIN Base
      BY <2>1
  <2>4. Len(Trail) = Len(Base)
    <3>1. DOMAIN Trail = 1 .. Len(Trail) /\ DOMAIN Base = 1 .. Len(Base) /\ Len(Trail) \in Nat
        BY <1>0, <2>2, TrailAssumption
    <3> DEFINE m == Len(Trail)
               n == Len(Base)
    <3>2. m \in Nat /\ n \in Nat /\ 1 .. m = 1 .. n
        BY <1>0, <2>3, <3>1
    <3> HIDE DEF m, n
    <3>3. (m # 0 => m \in 1 .. m) /\ (n # 0 => n \in 1 .. n)
        BY <3>2
    <3>4. (m # 0 => m \in 1 .. n) /\ (n # 0 => n \in 1 .. m)
        BY <3>2, <3>3
    <3>5. m = n
        BY <3>2, <3>4
    <3> QED
        BY <3>5 DEF m, n
  <2>5. \A c \in Clones : Len(log[c]) = Len(Base) /\ \A k \in DOMAIN log[c] : log[c][k].id = k
      BY <1>0, <2>1, <2>2, <2>4 DEF OneFile
  <2>6. Numbered'
      BY <1>0, <2>1, <2>5 DEF Numbered
  <2> QED
      BY <1>0, <2>1, <2>6 DEF LogInv, TypeOK, OneFile, OneLinePerId
<1>3. ASSUME NEW c \in Clones, NEW e \in Ends, NEW ts \in Clock, Write(c, e, ts) PROVE LogInv'
  <2> DEFINE r == Line(Len(Base) + ends + 1, ts, e, 0)
             t == Append(log[c], r)
  <2>1. /\ r \in Entries /\ r.id = Len(Base) + ends + 1
        /\ log[c] \in Seq(Entries) /\ log' = [log EXCEPT ![c] = t]
        /\ ends' = ends + 1 /\ cloned /\ cloned'
      BY <1>3, WriteAppends
  <2> HIDE DEF r
  <2>2. t \in Seq(Entries) /\ DOMAIN t = 1 .. Len(log[c]) + 1 /\ Len(t) = Len(log[c]) + 1
      BY <2>1, AppendedLine
  <2>3. \A k \in 1 .. Len(log[c]) : t[k] = log[c][k]
      BY <2>1, AppendedLine
  <2>4. t[Len(log[c]) + 1] = r
      BY <2>1, AppendedLine
  <2> HIDE DEF t
  <2>5. log' \in [Clones -> Seq(Entries)] /\ log'[c] = t /\ \A x \in Clones : x # c => log'[x] = log[x]
      BY <1>0, <2>1, <2>2 DEF TypeOK
  \* Every line is an old one or the new one, whose id is larger.
  <2>6. ASSUME NEW x \in Clones, NEW k \in DOMAIN log'[x]
        PROVE  \/ log'[x][k] = r
               \/ k \in DOMAIN log[x] /\ log'[x][k] = log[x][k]
    <3>1. CASE x # c
        BY <2>5, <3>1
    <3>2. CASE x = c
      <4>1. k \in 1 .. Len(log[c]) \/ k = Len(log[c]) + 1
          BY <1>0, <2>2, <2>5, <3>2
      <4> QED
          BY <1>0, <2>3, <2>4, <2>5, <3>2, <4>1
    <3> QED
        BY <3>1, <3>2
  <2>7. \A x \in Clones : \A k \in DOMAIN log[x] : log[x][k].id < r.id
      BY <1>0, <2>1 DEF Numbered
  <2>8. TypeOK' /\ OneFile'
      BY <1>0, <2>1, <2>5 DEF TypeOK, OneFile
  <2>9. Numbered'
    <3>1. ASSUME NEW x \in Clones PROVE Len(Base) <= Len(log'[x])
        BY <1>0, <2>1, <2>2, <2>5 DEF Numbered
    <3>2. ASSUME NEW x \in Clones, NEW k \in DOMAIN log'[x]
          PROVE  log'[x][k].id <= Len(Base) + ends'
        BY <1>0, <2>1, <2>6, <2>7
    <3> QED
        BY <3>1, <3>2 DEF Numbered
  <2>10. OneLinePerId'
    <3> SUFFICES ASSUME NEW x \in Clones, NEW y \in Clones, NEW j \in DOMAIN log'[x],
                        NEW k \in DOMAIN log'[y], log'[x][j].id = log'[y][k].id
                 PROVE  log'[x][j] = log'[y][k]
        BY DEF OneLinePerId
    <3>1. CASE log'[x][j] = r
      <4>1. ASSUME k \in DOMAIN log[y], log'[y][k] = log[y][k] PROVE FALSE
          BY <1>0, <2>1, <2>7, <3>1, <4>1
      <4> QED
          BY <2>6, <3>1, <4>1
    <3>2. CASE log'[y][k] = r
      <4>1. ASSUME j \in DOMAIN log[x], log'[x][j] = log[x][j] PROVE FALSE
          BY <1>0, <2>1, <2>7, <3>2, <4>1
      <4> QED
          BY <2>6, <3>2, <4>1
    <3>3. CASE log'[x][j] # r /\ log'[y][k] # r
        BY <1>0, <2>6, <3>3 DEF OneLinePerId
    <3> QED
        BY <3>1, <3>2, <3>3
  <2> QED
      BY <2>8, <2>9, <2>10 DEF LogInv
<1>4. ASSUME NEW c \in Clones, NEW d \in Clones, Merge(c, d) PROVE LogInv'
  <2>1. /\ log' \in [Clones -> Seq(Entries)]
        /\ \A x \in Clones : x # c => log'[x] = log[x]
        /\ Len(log[c]) <= Len(log'[c])
        /\ Said(log[c]) \subseteq Said(log'[c])
        /\ Said(log'[c]) \subseteq Said(log[c]) \cup Said(log[d])
      BY <1>0, <1>4, MergesKeepLines
  <2>2. cloned /\ cloned' = cloned /\ ends' = ends
      BY <1>4 DEF Merge
  <2>3. ASSUME NEW x \in Clones, NEW k \in DOMAIN log'[x]
        PROVE  \E y \in Clones : \E j \in DOMAIN log[y] : log'[x][k] = log[y][j]
    <3>1. CASE x # c
        BY <2>1, <3>1
    <3>2. CASE x = c
      <4>1. log'[c][k] \in Said(log'[c])
          BY <3>2 DEF Said
      <4> QED
          BY <2>1, <3>2, <4>1 DEF Said
    <3> QED
        BY <3>1, <3>2
  <2>4. TypeOK' /\ OneFile'
      BY <1>0, <2>1, <2>2 DEF TypeOK, OneFile
  <2>5. ASSUME NEW x \in Clones PROVE Len(Base) <= Len(log'[x])
    <3>1. CASE x # c
        BY <1>0, <2>1, <2>2, <3>1 DEF Numbered
    <3>2. CASE x = c
      <4>1. Len(log[c]) \in Nat /\ Len(log'[c]) \in Nat /\ Len(Base) <= Len(log[c])
          BY <1>0, <2>1, <2>2 DEF Numbered
      <4> QED
          BY <1>0, <2>1, <3>2, <4>1
    <3> QED
        BY <3>1, <3>2
  <2>6. Numbered'
    <3>1. ASSUME NEW x \in Clones, NEW k \in DOMAIN log'[x]
          PROVE  log'[x][k].id <= Len(Base) + ends'
        BY <1>0, <2>2, <2>3 DEF Numbered
    <3> QED
        BY <2>5, <3>1 DEF Numbered
  <2>7. OneLinePerId'
    <3> SUFFICES ASSUME NEW x \in Clones, NEW y \in Clones, NEW j \in DOMAIN log'[x],
                        NEW k \in DOMAIN log'[y], log'[x][j].id = log'[y][k].id
                 PROVE  log'[x][j] = log'[y][k]
        BY DEF OneLinePerId
    <3>1. PICK x0 \in Clones : \E i \in DOMAIN log[x0] : log'[x][j] = log[x0][i]
        BY <2>3
    <3>2. PICK y0 \in Clones : \E i \in DOMAIN log[y0] : log'[y][k] = log[y0][i]
        BY <2>3
    <3> QED
        BY <1>0, <3>1, <3>2 DEF OneLinePerId
  <2> QED
      BY <2>4, <2>6, <2>7 DEF LogInv
<1>5. ASSUME UNCHANGED vars PROVE LogInv'
    BY <1>5 DEF vars, LogInv, TypeOK, OneFile, Numbered, OneLinePerId
<1> QED
    BY <1>1, <1>2, <1>3, <1>4, <1>5 DEF Next

LEMMA LogInvariant == Spec => []LogInv
<1>1. Init => LogInv
  <2> SUFFICES ASSUME Init PROVE LogInv
      OBVIOUS
  <2>1. log = [c \in Clones |-> <<>>] /\ cloned = FALSE /\ ends = 0
      BY DEF Init
  <2>2. \A c \in Clones : log[c] = <<>> /\ DOMAIN log[c] = {}
      BY <2>1
  <2>3. <<>> \in Seq(Entries) /\ 0 \in Nat
      OBVIOUS
  <2>4. TypeOK
      BY <2>1, <2>3 DEF TypeOK
  <2> QED
      BY <2>1, <2>2, <2>4 DEF LogInv, OneFile, Numbered, OneLinePerId
<1> QED
    BY <1>1, LogStep, PTL DEF Spec

LEMMA NoConflicts ==
    ASSUME LogInv, NEW c \in Clones
    PROVE  log[c] \in Seq(Entries) /\ ~Conflicting(log[c])
BY DEF LogInv, TypeOK, OneLinePerId, Conflicting

\* Clones that hold the same lines read the same state, however the merges
\* ordered and repeated them.
THEOREM MergeOrderIsIrrelevant == Spec => []SameLinesSameState
<1>1. LogInv => SameLinesSameState
  <2> SUFFICES ASSUME LogInv, NEW c \in Clones, NEW d \in Clones, LinesOf(c) = LinesOf(d)
               PROVE  State(c) = State(d)
      BY DEF SameLinesSameState
  <2>1. /\ \A j \in DOMAIN log[c] : \E k \in DOMAIN log[d] : log[c][j].id = log[d][k].id
        /\ \A k \in DOMAIN log[d] : \E j \in DOMAIN log[c] : log[c][j].id = log[d][k].id
      BY DEF LinesOf
  <2>2. /\ \A j \in DOMAIN log[c] : \E k \in DOMAIN log[d] : log[c][j] = log[d][k]
        /\ \A k \in DOMAIN log[d] : \E j \in DOMAIN log[c] : log[c][j] = log[d][k]
      BY <2>1 DEF LogInv, OneLinePerId
  <2>3. Said(log[c]) = Said(log[d])
      BY <2>2 DEF Said
  <2> QED
      BY <2>3, NoConflicts, SameLinesSameFold DEF State
<1> QED
    BY LogInvariant, <1>1, PTL

-----------------------------------------------------------------------------
(***************************************************************************)
(* One step of the fold, with the table of the item's events.              *)
(***************************************************************************)
LEMMA Table ==
    /\ \A e \in Events : To[e] \in States \cup {Stay, Stored}
    /\ \A e \in Events : From[e] \subseteq States \cup {Absent}
    /\ \A e \in Events : Absent \in From[e] <=> e = "created"
    /\ \A e \in Events : To[e] = Stored <=> e = "unblocked"
    /\ \A e \in Events : From[e] \cap Terminal # {} => e = "note"
    /\ To["note"] = Stay /\ To["created"] = "ready" /\ From["unblocked"] = {"blocked"}
    /\ "created" \in Events /\ "unblocked" \in Events /\ "blocked" \in Events
<1>1. /\ \A e \in Events : To[e] \in States \cup {Stay, Stored}
      /\ \A e \in Events : To[e] = Stored <=> e = "unblocked"
      /\ To["note"] = Stay /\ To["created"] = "ready"
    BY DEF To, Events, States, Stay, Stored
<1>2. /\ \A e \in Events : From[e] \subseteq States \cup {Absent}
      /\ \A e \in Events : Absent \in From[e] <=> e = "created"
      /\ \A e \in Events : From[e] \cap Terminal # {} => e = "note"
      /\ From["unblocked"] = {"blocked"}
    BY DEF From, Events, States, Terminal, NonTerminal, Leased, Absent
<1> QED
    BY <1>1, <1>2 DEF Events

\* Where the record leads to, and whether the fold goes on.
LedTo(L, e) == IF To[e] = Stay THEN L.state
               ELSE IF To[e] = Stored THEN L.stored[L.state] ELSE To[e]

Takes(L, e) ==
    /\ L.state # Unreadable
    /\ L.state = Nowhere \/ L.state \in From[e]
    /\ L.state = Nowhere <=> e = "created"
    /\ LedTo(L, e) \in States

Taken(L, r) ==
    [state |-> LedTo(L, r.event),
     stored |-> IF To[r.event] = Stay THEN L.stored
                ELSE [L.stored EXCEPT ![LedTo(L, r.event)] = r.ret]]

LEMMA OneStep ==
    ASSUME NEW L, NEW r \in Entries
    PROVE  FoldStep(ITEM, L, r) = IF Takes(L, r.event) THEN Taken(L, r)
                                  ELSE [L EXCEPT !.state = Unreadable]
<1> DEFINE e == r.event
           rules == ITEM.rules[e]
<1>1. e \in Events /\ r.complete = TRUE
    BY DEF Entries
<1>2. /\ DOMAIN ITEM.rules = Events /\ rules = <<RuleFor(e)>> /\ ITEM.states = States
      /\ ITEM.initial = "created"
    BY <1>1 DEF ITEM
<1>3. DOMAIN rules = {1} /\ rules[1] = RuleFor(e)
  <2>1. DOMAIN <<RuleFor(e)>> = 1 .. 1 /\ <<RuleFor(e)>>[1] = RuleFor(e)
      OBVIOUS
  <2> QED
      BY <1>2, <2>1
<1> HIDE DEF rules
<1>4. /\ RuleFor(e).from = From[e]
      /\ (RuleFor(e).to = Unchanged <=> To[e] = Stay)
      /\ (RuleFor(e).to = ReturnTo <=> To[e] = Stored)
      /\ To[e] \notin {Stay, Stored} => RuleFor(e).to = To[e]
  <2>1. To[e] \in States \cup {Stay, Stored}
      BY <1>1, Table
  <2>2. Unchanged \notin States /\ ReturnTo \notin States /\ Unchanged # ReturnTo
        /\ Stay \notin States /\ Stored \notin States /\ Stay # Stored
      BY DEF Unchanged, ReturnTo, States, Stay, Stored
  <2> QED
      BY <2>1, <2>2 DEF RuleFor
<1> DEFINE m == Matching(ITEM, L.state, e)
<1>5. m = IF L.state = Nowhere \/ L.state \in From[e] THEN {1} ELSE {}
  <2>1. m = {i \in {1} : L.state = Nowhere \/ L.state \in rules[i].from}
      BY <1>1, <1>2, <1>3 DEF Matching, rules
  <2> QED
      BY <1>3, <1>4, <2>1
<1>6. Min({1}) = 1
    BY DEF Min
<1> HIDE DEF m
<1>7. ASSUME m # {} PROVE FoldStep(ITEM, L, r) = IF Takes(L, e) THEN Taken(L, r)
                                                 ELSE [L EXCEPT !.state = Unreadable]
  <2>1. m = {1} /\ (L.state = Nowhere \/ L.state \in From[e]) /\ Min(m) = 1
      BY <1>5, <1>6, <1>7
  <2> DEFINE rule == rules[Min(m)]
             target == CASE rule.to = Unchanged -> L.state
                         [] rule.to = ReturnTo -> L.stored[L.state]
                         [] OTHER -> rule.to
  <2>2. rule = RuleFor(e)
      BY <1>3, <2>1
  <2>3. target = LedTo(L, e)
    <3>1. Unchanged # ReturnTo /\ Stay # Stored
        BY DEF Unchanged, ReturnTo, Stay, Stored
    <3> HIDE DEF rule
    <3> QED
        BY <1>4, <2>2, <3>1 DEF LedTo
  <2>4. rule.to = Unchanged <=> To[e] = Stay
      BY <1>4, <2>2
  <2>5. FoldStep(ITEM, L, r) =
           IF /\ L.state # Unreadable /\ m # {}
              /\ (L.state = Nowhere) <=> (e = "created")
              /\ rule.required => r.complete
              /\ target \in States
           THEN [state |-> target,
                 stored |-> IF rule.to = Unchanged THEN L.stored
                            ELSE [L.stored EXCEPT ![target] = r.ret]]
           ELSE [L EXCEPT !.state = Unreadable]
      BY <1>2 DEF FoldStep, m, rules
  <2> HIDE DEF rule, target
  <2>6. (rule.required => r.complete) = TRUE
      BY <1>1
  <2> QED
      BY <1>7, <2>1, <2>3, <2>4, <2>5, <2>6 DEF Takes, Taken
<1>8. ASSUME m = {} PROVE FoldStep(ITEM, L, r) = IF Takes(L, e) THEN Taken(L, r)
                                                 ELSE [L EXCEPT !.state = Unreadable]
  <2>1. ~Takes(L, e)
      BY <1>5, <1>8 DEF Takes
  <2>2. FoldStep(ITEM, L, r) = [L EXCEPT !.state = Unreadable]
      BY <1>8 DEF FoldStep, m
  <2> QED
      BY <2>1, <2>2
<1> QED
    BY <1>7, <1>8

Logs == [state : States \cup {Nowhere, Unreadable},
         stored : [States -> ReturnTargets \cup {Nowhere}]]

LEMMA NoStates ==
    /\ Nowhere \notin States /\ Unreadable \notin States /\ Nowhere # Unreadable
    /\ Stay \notin States /\ Stored \notin States /\ Stay # Stored
    /\ Terminal \subseteq States /\ Behind \subseteq States /\ "blocked" \in States
    /\ "blocked" \notin Terminal /\ Nowhere \notin {"blocked", "snoozed", "failed"}
BY DEF Nowhere, Unreadable, States, Stay, Stored, Terminal, Behind, Leased

\* A state is left as it was, returned to out of a block, or entered by its own event.
LEMMA StepLeads ==
    ASSUME NEW L \in Logs, NEW r \in Entries, Takes(L, r.event)
    PROVE  LET M == FoldStep(ITEM, L, r)
               e == r.event IN
           /\ M \in Logs /\ M.state = LedTo(L, e) /\ M.state \in States
           /\ \/ To[e] = Stay /\ M.state = L.state /\ M.stored = L.stored
              \/ /\ To[e] = Stored /\ e = "unblocked" /\ L.state = "blocked"
                 /\ M.state = L.stored["blocked"] /\ M.state \in ReturnTargets \cup {Nowhere}
                 /\ M.stored = [L.stored EXCEPT ![M.state] = r.ret]
              \/ /\ To[e] = M.state /\ To[e] \notin {Stay, Stored}
                 /\ M.stored = [L.stored EXCEPT ![M.state] = r.ret]
<1> DEFINE M == FoldStep(ITEM, L, r)
           e == r.event
<1>0. /\ e \in Events /\ r.ret \in ReturnTargets \cup {Nowhere}
      /\ L.stored \in [States -> ReturnTargets \cup {Nowhere}]
    BY DEF Entries, Logs
<1>1. M = Taken(L, r)
    BY OneStep
<1>2. /\ M.state = LedTo(L, e) /\ M.state \in States
      /\ M.stored = IF To[e] = Stay THEN L.stored ELSE [L.stored EXCEPT ![M.state] = r.ret]
    BY <1>1 DEF Taken, Takes
<1>3. M \in Logs
  <2>1. [L.stored EXCEPT ![LedTo(L, e)] = r.ret] \in [States -> ReturnTargets \cup {Nowhere}]
      BY <1>0
  <2> HIDE DEF M
  <2> QED
      BY <1>0, <1>1, <1>2, <2>1 DEF Taken, Logs
<1> HIDE DEF M
<1>4. CASE To[e] = Stay
    BY <1>2, <1>3, <1>4 DEF LedTo, M
<1>5. CASE To[e] = Stored
  <2>1. e = "unblocked" /\ From[e] = {"blocked"} /\ e # "created"
      BY <1>0, <1>5, Table
  <2>2. L.state = "blocked"
      BY <2>1 DEF Takes
  <2>3. M.state = L.stored["blocked"]
      BY <1>2, <1>5, <2>2, NoStates DEF LedTo
  <2>4. L.stored["blocked"] \in ReturnTargets \cup {Nowhere}
      BY <1>0, NoStates
  <2> QED
      BY <1>2, <1>3, <1>5, <2>1, <2>2, <2>3, <2>4, NoStates DEF M
<1>6. CASE To[e] \notin {Stay, Stored}
    BY <1>2, <1>3, <1>6 DEF LedTo, M
<1> QED
    BY <1>4, <1>5, <1>6

LEMMA StepStops ==
    ASSUME NEW L \in Logs, NEW r \in Entries, ~Takes(L, r.event)
    PROVE  LET M == FoldStep(ITEM, L, r) IN M \in Logs /\ M.state = Unreadable
<1> DEFINE M == FoldStep(ITEM, L, r)
<1>1. M = [L EXCEPT !.state = Unreadable]
    BY OneStep
<1> QED
    BY <1>1 DEF Logs

LEMMA StepOfALog ==
    ASSUME NEW L \in Logs, NEW r \in Entries
    PROVE  LET M == FoldStep(ITEM, L, r) IN
           /\ M \in Logs
           /\ M.state # Unreadable <=> Takes(L, r.event)
           /\ L.state \in Terminal => M.state \in {L.state, Unreadable}
<1> DEFINE M == FoldStep(ITEM, L, r)
<1>0. r.event \in Events
    BY DEF Entries
<1>1. CASE ~Takes(L, r.event)
    BY <1>1, StepStops
<1>2. CASE Takes(L, r.event)
  <2>1. M \in Logs /\ M.state \in States /\ M.state = LedTo(L, r.event)
      BY <1>2, StepLeads
  <2> HIDE DEF M
  <2>2. ASSUME L.state \in Terminal PROVE M.state = L.state
    <3>1. r.event = "note"
        BY <1>0, <1>2, <2>2, NoStates, Table DEF Takes
    <3> QED
        BY <2>1, <3>1, Table DEF LedTo
  <2> QED
      BY <1>2, <2>1, <2>2, NoStates DEF M
<1> QED
    BY <1>1, <1>2

-----------------------------------------------------------------------------
(***************************************************************************)
(* The one file and its view.  The file's lines are its records; a record  *)
(* appended is one more step of the fold, and the last of its event.       *)
(***************************************************************************)
LEMMA NumberedLinesAreRecords ==
    ASSUME NEW s \in Seq(Entries), \A k \in DOMAIN s : s[k].id = k /\ s[k].ts = k
    PROVE  ~Conflicting(s) /\ Records(s) = s
<1>0. DOMAIN s = 1 .. Len(s) /\ Len(s) \in Nat
    OBVIOUS
<1>1. ~Conflicting(s)
    BY DEF Conflicting
<1>2. Sorted(s)
  <2> SUFFICES ASSUME NEW j \in DOMAIN s, NEW k \in DOMAIN s, j < k PROVE Before(s[j], s[k])
      BY DEF Sorted
  <2>1. s[j].ts = j /\ s[k].ts = k
      OBVIOUS
  <2> QED
      BY <2>1 DEF Before
<1>3. Records(s) \in Seq(Entries) /\ Sorted(Records(s)) /\ Said(Records(s)) = Said(s)
    BY <1>1, RecordsAreTheLines
<1> QED
    BY <1>1, <1>2, <1>3, OneOrder

LEMMA FoldOfNothing == Fold(ITEM, <<>>) = Empty
<1>1. <<>> \in Seq(Entries) /\ Len(<<>>) = 0
    OBVIOUS
<1>2. PICK p : p[0] = Empty /\ p[Len(<<>>)] = Fold(ITEM, <<>>)
    BY <1>1, FoldStepwise
<1> QED
    BY <1>1, <1>2

LEMMA FoldAppends ==
    ASSUME NEW s \in Seq(Entries), NEW r \in Entries
    PROVE  Fold(ITEM, Append(s, r)) = FoldStep(ITEM, Fold(ITEM, s), r)
<1> DEFINE t == Append(s, r)
           N == Len(s)
<1>1. /\ t \in Seq(Entries) /\ Len(t) = N + 1 /\ N \in Nat
      /\ \A k \in 1 .. N : t[k] = s[k]
      /\ t[N + 1] = r
    BY AppendedLine
<1>2. PICK p : /\ p[0] = Empty /\ p[N] = Fold(ITEM, s)
               /\ \A n \in 0 .. N - 1 : p[n + 1] = FoldStep(ITEM, p[n], s[n + 1])
    BY FoldStepwise
<1> HIDE DEF t
<1>3. PICK q : /\ q[0] = Empty /\ q[Len(t)] = Fold(ITEM, t)
               /\ \A n \in 0 .. Len(t) - 1 : q[n + 1] = FoldStep(ITEM, q[n], t[n + 1])
    BY <1>1, FoldStepwise
<1> HIDE DEF N
<1> DEFINE S == {n \in Nat : n <= N => p[n] = q[n]}
<1>4. 0 \in S
    BY <1>2, <1>3
<1>5. ASSUME NEW n \in Nat, n \in S PROVE n + 1 \in S
  <2> SUFFICES ASSUME n + 1 <= N PROVE p[n + 1] = q[n + 1]
      OBVIOUS
  <2>1. n \in 0 .. N - 1 /\ n \in 0 .. Len(t) - 1 /\ n + 1 \in 1 .. N /\ n <= N
      BY <1>1
  <2>2. p[n] = q[n] /\ t[n + 1] = s[n + 1]
      BY <1>1, <1>5, <2>1
  <2>3. p[n + 1] = FoldStep(ITEM, p[n], s[n + 1]) /\ q[n + 1] = FoldStep(ITEM, q[n], t[n + 1])
      BY <1>2, <1>3, <2>1
  <2> QED
      BY <2>2, <2>3
<1>6. p[N] = q[N]
  <2>1. N \in S
    <3> HIDE DEF S
    <3> QED
        BY <1>1, <1>4, <1>5, Induction
  <2> QED
      BY <1>1, <2>1
<1>7. q[N + 1] = FoldStep(ITEM, q[N], t[N + 1])
    BY <1>1, <1>3
<1> QED
    BY <1>1, <1>2, <1>3, <1>6, <1>7 DEF t

LEMMA LastIsAppended ==
    ASSUME NEW s \in Seq(Entries), NEW r \in Entries, NEW e, NEW none
    PROVE  LET t == Append(s, r) IN
           /\ LastBody(t, e, none) = IF r.event = e THEN r.body ELSE LastBody(s, e, none)
           /\ Cardinality(OfEvent(t, e)) =
                 IF r.event = e THEN Cardinality(OfEvent(s, e)) + 1
                                ELSE Cardinality(OfEvent(s, e))
<1> DEFINE t == Append(s, r)
           N == Len(s)
           S == OfEvent(s, e)
           T == OfEvent(t, e)
<1>1. /\ t \in Seq(Entries) /\ Len(t) = N + 1 /\ N \in Nat /\ DOMAIN t = 1 .. N + 1
      /\ \A k \in 1 .. N : t[k] = s[k]
      /\ t[N + 1] = r /\ DOMAIN s = 1 .. N
    BY AppendedLine
<1> HIDE DEF t
<1>2. S \in SUBSET (1 .. N) /\ IsFiniteSet(S) /\ T \in SUBSET (1 .. N + 1)
    BY <1>1, ClaimsAreCounted
<1>3. S = {k \in 1 .. N : s[k].event = e} /\ T = {k \in 1 .. N + 1 : t[k].event = e}
    BY <1>1 DEF OfEvent
<1>3a. \A k : k \in 1 .. N + 1 <=> k \in 1 .. N \/ k = N + 1
    BY <1>1
<1>4. T = IF r.event = e THEN S \cup {N + 1} ELSE S
    BY <1>1, <1>3, <1>3a
<1>4a. N + 1 \notin S
    BY <1>1, <1>2
<1> HIDE DEF S, T, N
<1>5. CASE r.event = e
  <2>1. T = S \cup {N + 1} /\ T # {}
      BY <1>4, <1>5
  <2>2. Max(T) \in T /\ \A x \in T : Max(T) >= x
      BY <1>1, <1>2, <2>1, N + 1 \in Nat, GreatestPosition
  <2> DEFINE m == Max(T)
  <2>3. m \in 1 .. N + 1 /\ m >= N + 1
      BY <1>2, <2>1, <2>2
  <2> HIDE DEF m
  <2>4. m = N + 1
      BY <1>1, <2>3
  <2>5. LastBody(t, e, none) = r.body
      BY <1>1, <2>1, <2>4 DEF LastBody, T, m
  <2>6. Cardinality(T) = Cardinality(S) + 1
      BY <1>2, <1>4a, <2>1, FS_AddElement
  <2> QED
      BY <1>5, <2>5, <2>6 DEF t, S, T
<1>6. CASE r.event # e
  <2>1. T = S
      BY <1>4, <1>6
  <2>2. ASSUME S # {} PROVE t[Max(S)] = s[Max(S)]
    <3>1. Max(S) \in S
        BY <1>1, <1>2, <2>2, GreatestPosition
    <3> QED
        BY <1>1, <1>2, <3>1
  <2>3. LastBody(t, e, none) = LastBody(s, e, none)
      BY <2>1, <2>2 DEF LastBody, S, T
  <2> QED
      BY <1>6, <2>1, <2>3 DEF t, S, T
<1> QED
    BY <1>5, <1>6

\* The blocks of a log, with a return_to or, once they were returned to, without.
Returns == [kind : {"item"}, ref : {NoRef}, ret : ReturnTargets \cup {"none"}, ttl : {0},
            policy : {"none"}]

\* The view and the fold store the same state to return to, or neither stores one.
SameReturn(ret, stored) == ret = stored \/ (ret \notin States /\ stored \notin States)

\* What the view v shows of the fold L of the records s: every field that a reader
\* of ShowsWhatFolds can ask for, and those a return brings back.
Shows(v, L, s) ==
    /\ L \in Logs /\ L.state # Unreadable /\ (L.state = Nowhere <=> s = <<>>)
    /\ v.state = IF L.state = Nowhere THEN Absent ELSE L.state
    /\ v.claims = claims(s)
    /\ s # <<>> => v.resumable = (L.state = "doing" /\ resumes(s))
    /\ L.state \in Behind => v.attempt = lease(s)
    /\ L.state = "blocked" => /\ v.block \in Returns /\ awaiting(s) \in Returns
                              /\ SameReturn(v.block.ret, L.stored["blocked"])
    /\ L.state \notin Terminal => /\ v.failure = failure(s) /\ v.wake = scheduled_for(s)
                                  /\ v.prio = priority(s)

ViewInv == ~cloned => Shows(view, Fold(ITEM, Trail), Trail)

LEMMA Entrances ==
    /\ \A e \in Events : To[e] \in Behind /\ e # "claimed" => From[e] \subseteq Behind
    /\ \A e \in Events : e = "blocked" <=> To[e] = "blocked"
    /\ \A e \in Events : e = "failed" <=> To[e] = "failed"
    /\ \A e \in Events : e = "snoozed" <=> To[e] = "snoozed"
    /\ \A e \in Events : e = "claimed" <=> To[e] = "claimed"
    /\ "gate_rejected" \in Events /\ To["gate_rejected"] = Stay
<1>1. /\ \A e \in Events : e = "blocked" <=> To[e] = "blocked"
      /\ \A e \in Events : e = "failed" <=> To[e] = "failed"
      /\ \A e \in Events : e = "snoozed" <=> To[e] = "snoozed"
      /\ \A e \in Events : e = "claimed" <=> To[e] = "claimed"
    BY DEF To, Events, Stay, Stored
<1>2. \A e \in Events : To[e] \in Behind => e \in {"claimed", "started", "blocked"}
    BY DEF To, Events, Stay, Stored, Behind, Leased
<1>3. From["started"] = {"claimed"} /\ From["blocked"] = Leased
    BY DEF From, Events
<1> QED
    BY <1>1, <1>2, <1>3 DEF Behind, Leased, Events, To

\* A record is accepted by the view's guard exactly if the fold takes it, and leads
\* both to the same state.
LEMMA GuardsAgree ==
    ASSUME NEW v, NEW L, NEW s, NEW e \in Events, Shows(v, L, s)
    PROVE  /\ Accepts(v, e) <=> Takes(L, e)
           /\ Takes(L, e) => Target(v, e) = LedTo(L, e)
<1>0. /\ To[e] \in States \cup {Stay, Stored} /\ From[e] \subseteq States \cup {Absent}
      /\ (Absent \in From[e] <=> e = "created") /\ (To[e] = Stored <=> e = "unblocked")
      /\ To["created"] = "ready" /\ From["unblocked"] = {"blocked"} /\ "created" \in Events
    BY Table
<1>1. /\ Absent \notin States /\ Nowhere \notin States /\ Unreadable \notin States
      /\ Stay \notin States /\ Stored \notin States /\ Stay # Stored /\ Nowhere # Absent
      /\ Unreadable # Nowhere /\ "ready" \in States /\ "blocked" \in States
    BY DEF Absent, Nowhere, Unreadable, States, Stay, Stored
<1>2. /\ L.state \in States \cup {Nowhere}
      /\ v.state = IF L.state = Nowhere THEN Absent ELSE L.state
      /\ L.state = "blocked" => SameReturn(v.block.ret, L.stored["blocked"])
    BY DEF Shows, Logs
<1>3. CASE L.state = Nowhere
  <2>1. v.state = Absent
      BY <1>2, <1>3
  <2>2. (Absent \in From[e]) => Target(v, e) = "ready" /\ LedTo(L, e) = "ready"
      BY <1>0, <1>1 DEF Target, LedTo
  <2> QED
      BY <1>0, <1>1, <1>3, <2>1, <2>2 DEF Accepts, Takes
<1>4. CASE L.state # Nowhere
  <2>1. v.state = L.state /\ L.state \in States
      BY <1>2, <1>4
  <2>2. L.state \in From[e] => SameReturn(Target(v, e), LedTo(L, e))
    <3>1. CASE To[e] = Stored
        BY <1>0, <1>1, <1>2, <2>1, <3>1 DEF Target, LedTo
    <3>2. CASE To[e] # Stored
        BY <1>0, <1>1, <2>1, <3>2 DEF Target, LedTo, SameReturn
    <3> QED
        BY <3>1, <3>2
  <2>3. e = "created" => L.state \notin From[e]
    <3>1. From["created"] = {Absent}
        BY DEF From, Events
    <3> QED
        BY <1>1, <2>1, <3>1
  <2> QED
      BY <1>1, <1>4, <2>1, <2>2, <2>3 DEF Accepts, Takes, SameReturn
<1> QED
    BY <1>3, <1>4

\* The append reads exactly if the fold takes its record.
LEMMA FoldsIsTaken ==
    ASSUME LogInv, ~cloned, NEW e \in Vocabulary, NEW body \in Bodies(e)
    PROVE  LET r == Line(Len(Trail) + 1, Len(Trail) + 1, e, body)
               L == Fold(ITEM, Trail) IN
           /\ r \in Entries /\ r.event = e /\ r.body = body
           /\ IF e = "blocked" THEN r.ret = body.ret /\ body \in Blocks ELSE r.ret = Nowhere
           /\ Trail \in Seq(Entries) /\ Candidate(e, body) = Append(Trail, r)
           /\ Records(Trail) = Trail
           /\ StateOf(ITEM, Candidate(e, body)) = FoldStep(ITEM, L, r).state
           /\ Folds(e, body) <=> FoldStep(ITEM, L, r).state # Unreadable
<1> DEFINE r == Line(Len(Trail) + 1, Len(Trail) + 1, e, body)
           L == Fold(ITEM, Trail)
           t == Append(Trail, r)
<1>1. Trail \in Seq(Entries) /\ \E c \in Clones : Trail = log[c]
    BY TrailIsAFile DEF LogInv
<1>2. Len(Trail) \in Nat /\ Len(Trail) + 1 \in Nat /\ e \in Events /\ body \in Payloads
      /\ (e = "blocked" => body \in Blocks)
    BY <1>1, BodiesArePayloads, TrailAssumption DEF LogInv
<1>3. r \in Entries
    BY <1>2, LineIsAnEntry
<1>4. \A k \in DOMAIN Trail : Trail[k].id = k /\ Trail[k].ts = k
    BY <1>1 DEF LogInv, OneFile
<1>5. r.event = e /\ r.body = body /\ r.id = Len(Trail) + 1 /\ r.ts = Len(Trail) + 1
      /\ IF e = "blocked" THEN r.ret = body.ret /\ body \in Blocks ELSE r.ret = Nowhere
    BY <1>2 DEF Line
<1>6. Records(Trail) = Trail
    BY <1>1, <1>4, NumberedLinesAreRecords
<1> HIDE DEF r
<1>7. /\ t \in Seq(Entries) /\ DOMAIN t = 1 .. Len(Trail) + 1
      /\ \A k \in 1 .. Len(Trail) : t[k] = Trail[k]
      /\ t[Len(Trail) + 1] = r
    BY <1>1, <1>3, AppendedLine
<1> HIDE DEF t
<1>8. ASSUME NEW k \in 1 .. Len(Trail) + 1 PROVE t[k].id = k /\ t[k].ts = k
  <2>1. CASE k = Len(Trail) + 1
      BY <1>5, <1>7, <2>1
  <2>2. CASE k # Len(Trail) + 1
    <3>1. k \in 1 .. Len(Trail) /\ k \in DOMAIN Trail
        BY <1>1, <1>2, <2>2
    <3> QED
        BY <1>4, <1>7, <3>1
  <2> QED
      BY <2>1, <2>2
<1>9. ~Conflicting(t) /\ Records(t) = t
    BY <1>7, <1>8, NumberedLinesAreRecords
<1>10. t # <<>>
  <2>1. 1 \in DOMAIN t
      BY <1>2, <1>7
  <2> QED
      BY <2>1
<1>11. Fold(ITEM, t) = FoldStep(ITEM, L, r)
    BY <1>1, <1>3, FoldAppends DEF t
<1>12. StateOf(ITEM, t) = FoldStep(ITEM, L, r).state
    BY <1>9, <1>10, <1>11 DEF StateOf
<1>13. Candidate(e, body) = t
    BY DEF Candidate, t, r
<1> HIDE DEF L
<1>14. Folds(e, body) <=> FoldStep(ITEM, L, r).state # Unreadable
    BY <1>12, <1>13 DEF Folds
<1> QED
    BY <1>1, <1>3, <1>5, <1>6, <1>12, <1>13, <1>14 DEF r, t, L

LEMMA ViewFields ==
    ASSUME NEW e, NEW body
    PROVE  LET w == ViewAfter(e, body)
               state == Target(view, e) IN
           /\ w.state = state
           /\ w.claims = IF e = "claimed" THEN view.claims + 1 ELSE view.claims
           /\ w.resumable = (state = "doing" /\ e = "gate_rejected")
           /\ w.attempt = IF e = "claimed" THEN body
                          ELSE IF state \in Behind THEN view.attempt ELSE 0
           /\ w.block = IF e = "blocked" THEN body
                        ELSE IF state = "blocked" THEN Awaited(view, e) ELSE NoBlock
           /\ w.failure = IF e = "failed"
                          THEN [recorded |-> TRUE, attempt |-> body.attempt,
                                retryable |-> body.retryable]
                          ELSE IF state \in Terminal THEN NoFailure ELSE view.failure
           /\ w.wake = IF e = "snoozed" THEN body
                       ELSE IF state \in Terminal THEN 0 ELSE view.wake
           /\ w.prio = IF e = "priority_set" THEN body
                       ELSE IF state \in Terminal THEN 0 ELSE view.prio
<1>1. CASE e = "claimed"
    BY <1>1 DEF ViewAfter, AfterClaimed, After
<1>2. CASE e = "blocked"
    BY <1>2 DEF ViewAfter, AfterBlocked, After
<1>3. CASE e = "failed"
    BY <1>3 DEF ViewAfter, AfterFailed, After
<1>4. CASE e = "snoozed"
    BY <1>4 DEF ViewAfter, AfterSnoozed, After
<1>5. CASE e = "priority_set"
    BY <1>5 DEF ViewAfter, AfterPrioritySet, After
<1>6. CASE e \notin {"claimed", "blocked", "failed", "snoozed", "priority_set"}
    BY <1>6 DEF ViewAfter, After
<1> QED
    BY <1>1, <1>2, <1>3, <1>4, <1>5, <1>6

\* The view after a record shows the fold after it: a field some reader can ask for
\* then is the record's own, or was shown before.
LEMMA ShownAfter ==
    ASSUME NEW e \in Events, NEW body, NEW L, NEW s \in Seq(Entries), NEW r \in Entries,
           Shows(view, L, s), Takes(L, e), r.event = e, r.body = body,
           IF e = "blocked" THEN r.ret = body.ret /\ body \in Blocks ELSE r.ret = Nowhere,
           e = "failed" => body = [recorded |-> TRUE, attempt |-> body.attempt,
                                   retryable |-> body.retryable]
    PROVE  Shows(ViewAfter(e, body), FoldStep(ITEM, L, r), Append(s, r))
<1> DEFINE M == FoldStep(ITEM, L, r)
           t == Append(s, r)
           w == ViewAfter(e, body)
<1>0. /\ L \in Logs /\ L.state # Unreadable /\ L.state \in States \cup {Nowhere}
      /\ L.stored \in [States -> ReturnTargets \cup {Nowhere}]
    BY DEF Shows, Logs
<1>1. /\ M \in Logs /\ M.state = LedTo(L, e) /\ M.state \in States
      /\ \/ To[e] = Stay /\ M.state = L.state /\ M.stored = L.stored
         \/ /\ To[e] = Stored /\ e = "unblocked" /\ L.state = "blocked"
            /\ M.stored = [L.stored EXCEPT ![M.state] = r.ret]
         \/ /\ To[e] = M.state /\ To[e] \notin {Stay, Stored}
            /\ M.stored = [L.stored EXCEPT ![M.state] = r.ret]
      /\ L.state \in Terminal => M.state \in {L.state, Unreadable}
    BY <1>0, StepLeads, StepOfALog
<1>2. Target(view, e) = M.state
    BY <1>1, GuardsAgree
<1>3. /\ w.state = M.state
      /\ w.claims = IF e = "claimed" THEN view.claims + 1 ELSE view.claims
      /\ w.resumable = (M.state = "doing" /\ e = "gate_rejected")
      /\ w.attempt = IF e = "claimed" THEN body
                     ELSE IF M.state \in Behind THEN view.attempt ELSE 0
      /\ w.block = IF e = "blocked" THEN body
                   ELSE IF M.state = "blocked" THEN Awaited(view, e) ELSE NoBlock
      /\ w.failure = IF e = "failed" THEN body
                     ELSE IF M.state \in Terminal THEN NoFailure ELSE view.failure
      /\ w.wake = IF e = "snoozed" THEN body
                  ELSE IF M.state \in Terminal THEN 0 ELSE view.wake
      /\ w.prio = IF e = "priority_set" THEN body
                  ELSE IF M.state \in Terminal THEN 0 ELSE view.prio
  <2>1. LET state == Target(view, e) IN
        /\ w.state = state
        /\ w.claims = IF e = "claimed" THEN view.claims + 1 ELSE view.claims
        /\ w.resumable = (state = "doing" /\ e = "gate_rejected")
        /\ w.attempt = IF e = "claimed" THEN body
                       ELSE IF state \in Behind THEN view.attempt ELSE 0
        /\ w.block = IF e = "blocked" THEN body
                     ELSE IF state = "blocked" THEN Awaited(view, e) ELSE NoBlock
        /\ w.failure = IF e = "failed"
                       THEN [recorded |-> TRUE, attempt |-> body.attempt,
                             retryable |-> body.retryable]
                       ELSE IF state \in Terminal THEN NoFailure ELSE view.failure
        /\ w.wake = IF e = "snoozed" THEN body
                    ELSE IF state \in Terminal THEN 0 ELSE view.wake
        /\ w.prio = IF e = "priority_set" THEN body
                    ELSE IF state \in Terminal THEN 0 ELSE view.prio
      BY ViewFields
  <2>2. Target(view, e) = M.state
      BY <1>2
  <2> HIDE DEF M, w
  <2>3. w.failure = IF e = "failed" THEN body
                    ELSE IF M.state \in Terminal THEN NoFailure ELSE view.failure
    <3>1. CASE e = "failed"
        BY <2>1, <3>1
    <3>2. CASE e # "failed"
        BY <2>1, <2>2, <3>2
    <3> QED
        BY <3>1, <3>2
  <2> QED
      BY <2>1, <2>2, <2>3
<1>4. /\ \A x, none : LastBody(t, x, none) = IF e = x THEN body ELSE LastBody(s, x, none)
      /\ claims(t) = IF e = "claimed" THEN claims(s) + 1 ELSE claims(s)
      /\ t # <<>> /\ resumes(t) = (e = "gate_rejected")
  <2>1. /\ t \in Seq(Entries) /\ Len(t) = Len(s) + 1 /\ t[Len(s) + 1] = r /\ Len(s) \in Nat
      BY AppendedLine
  <2>2. t # <<>> /\ resumes(t) = (e = "gate_rejected")
      BY <2>1 DEF resumes
  <2>3. \A x, none : LastBody(t, x, none) = IF e = x THEN body ELSE LastBody(s, x, none)
      BY LastIsAppended
  <2>4. claims(t) = IF e = "claimed" THEN claims(s) + 1 ELSE claims(s)
      BY LastIsAppended DEF claims
  <2> QED
      BY <2>2, <2>3, <2>4
<1> HIDE DEF M, t, w
<1>7. ASSUME M.state = "blocked", e # "blocked"
      PROVE  /\ L.state = "blocked"
             /\ IF e = "unblocked" THEN M.stored["blocked"] = Nowhere ELSE M.stored = L.stored
  <2>1. CASE To[e] = Stay
    <3>1. e # "unblocked"
        BY <2>1, Table, NoStates
    <3> QED
        BY <1>1, <1>7, <2>1, <3>1, NoStates
  <2>2. CASE To[e] = Stored
      BY <1>0, <1>1, <1>7, <2>2, NoStates
  <2>3. CASE To[e] = M.state
      BY <1>7, <2>3, Entrances
  <2> QED
      BY <1>1, <2>1, <2>2, <2>3
<1>8. M.state \in Behind => e = "claimed" \/ L.state \in Behind
  <2>1. ASSUME M.state \in Behind, e # "claimed", To[e] = M.state, To[e] \notin {Stay, Stored}
        PROVE  L.state \in Behind
    <3>1. From[e] \subseteq Behind /\ e # "created"
      <4>1. "ready" \notin Behind
          BY DEF Behind, Leased
      <4> QED
          BY <2>1, <4>1, Entrances, Table
    <3> QED
        BY <3>1 DEF Takes
  <2>2. "blocked" \in Behind
      BY DEF Behind
  <2> QED
      BY <1>1, <2>1, <2>2, NoStates
<1>9. M.state \notin Terminal => L.state \notin Terminal
    BY <1>1, NoStates
<1>10. M \in Logs /\ M.state # Unreadable /\ M.state # Nowhere
    BY <1>1, NoStates
<1>11. w.state = M.state
    BY <1>3
<1>12. w.claims = claims(t)
    BY <1>3, <1>4 DEF Shows
<1>13. w.resumable = (M.state = "doing" /\ resumes(t))
    BY <1>3, <1>4
<1>14. M.state \in Behind => w.attempt = lease(t)
    BY <1>3, <1>4, <1>8 DEF Shows, lease
<1>15. ASSUME M.state = "blocked"
       PROVE  /\ w.block \in Returns /\ awaiting(t) \in Returns
              /\ SameReturn(w.block.ret, M.stored["blocked"])
  <2>1. CASE e = "blocked"
    <3>1. To[e] # Stay
        BY <2>1, Entrances, NoStates
    <3>2. M.stored["blocked"] = r.ret
        BY <1>0, <1>1, <1>15, <2>1, <3>1, Entrances, NoStates
    <3>3. body \in Returns
        BY <2>1 DEF Blocks, Returns, NoBlock
    <3> QED
        BY <1>3, <1>4, <2>1, <3>2, <3>3 DEF awaiting, SameReturn
  <2>2. CASE e # "blocked"
    <3>1. /\ view.block \in Returns /\ awaiting(s) \in Returns
          /\ SameReturn(view.block.ret, L.stored["blocked"])
        BY <1>7, <1>15, <2>2 DEF Shows
    <3>2. awaiting(t) \in Returns
        BY <1>4, <2>2, <3>1 DEF awaiting
    <3>3. w.block = Awaited(view, e)
        BY <1>3, <1>15, <2>2
    <3>4. CASE e = "unblocked"
      <4>1. w.block = [view.block EXCEPT !.ret = "none"]
          BY <3>3, <3>4 DEF Awaited
      <4>2. w.block \in Returns /\ w.block.ret = "none"
          BY <3>1, <4>1 DEF Returns
      <4>3. "none" \notin States
          BY DEF States
      <4> QED
          BY <1>7, <1>15, <2>2, <3>2, <3>4, <4>2, <4>3, NoStates DEF SameReturn
    <3>5. CASE e # "unblocked"
        BY <1>7, <1>15, <2>2, <3>1, <3>2, <3>3, <3>5 DEF Awaited
    <3> QED
        BY <3>4, <3>5
  <2> QED
      BY <2>1, <2>2
<1>16. M.state \notin Terminal => w.failure = failure(t)
    BY <1>3, <1>4, <1>9 DEF Shows, failure
<1>17. M.state \notin Terminal => w.wake = scheduled_for(t)
    BY <1>3, <1>4, <1>9 DEF Shows, scheduled_for
<1>18. M.state \notin Terminal => w.prio = priority(t)
    BY <1>3, <1>4, <1>9 DEF Shows, priority
<1>19. Shows(w, M, t)
    BY <1>4, <1>10, <1>11, <1>12, <1>13, <1>14, <1>15, <1>16, <1>17, <1>18 DEF Shows
<1> QED
    BY <1>19 DEF w, M, t

LEMMA ViewStep == LogInv /\ ViewInv /\ [Next]_vars => ViewInv'
<1> SUFFICES ASSUME LogInv, ViewInv, [Next]_vars, ~cloned' PROVE ViewInv'
    BY DEF ViewInv
<1>1. ASSUME NEW e \in Vocabulary, NEW body \in Bodies(e), Grow(e, body) PROVE ViewInv'
  <2> DEFINE r == Line(Len(Trail) + 1, Len(Trail) + 1, e, body)
             L == Fold(ITEM, Trail)
             t == Append(Trail, r)
  <2>1. ~cloned /\ Folds(e, body) /\ view' = ViewAfter(e, body) /\ e \in Events
      BY <1>1, TrailAssumption DEF Grow
  <2>2. /\ r \in Entries /\ r.event = e /\ r.body = body
        /\ IF e = "blocked" THEN r.ret = body.ret /\ body \in Blocks ELSE r.ret = Nowhere
        /\ Trail \in Seq(Entries) /\ FoldStep(ITEM, L, r).state # Unreadable
      BY <2>1, FoldsIsTaken
  <2>3. Shows(view, L, Trail) /\ L \in Logs
      BY <2>1 DEF ViewInv, Shows
  <2>4. e = "failed" => body = [recorded |-> TRUE, attempt |-> body.attempt,
                                retryable |-> body.retryable]
      BY DEF Bodies
  <2>5. Trail' = t
    <3>1. log' = [c \in Clones |-> t]
        BY <1>1, GrowAppends
    <3>2. (CHOOSE c \in Clones : TRUE) \in Clones
        BY TrailAssumption
    <3> QED
        BY <3>1, <3>2 DEF Trail
  <2> HIDE DEF r, L
  <2>6. Takes(L, e)
      BY <2>2, <2>3, StepOfALog
  <2>7. Shows(ViewAfter(e, body), FoldStep(ITEM, L, r), t)
      BY <2>1, <2>2, <2>3, <2>4, <2>6, ShownAfter
  <2>8. Fold(ITEM, t) = FoldStep(ITEM, L, r)
      BY <2>2, FoldAppends DEF L
  <2>9. Shows(view', Fold(ITEM, Trail'), Trail')
      BY <2>1, <2>5, <2>7, <2>8
  <2> QED
      BY <2>9 DEF ViewInv
<1>2. CASE UNCHANGED vars
    BY <1>2 DEF vars, ViewInv, Trail
<1>3. CASE Clone
    BY <1>3 DEF Clone
<1>4. ASSUME NEW c \in Clones, NEW e \in Ends, NEW ts \in Clock, Write(c, e, ts) PROVE FALSE
    BY <1>4 DEF Write
<1>5. ASSUME NEW c \in Clones, NEW d \in Clones, Merge(c, d) PROVE FALSE
    BY <1>5 DEF Merge
<1> QED
    BY <1>1, <1>2, <1>3, <1>4, <1>5 DEF Next

LEMMA ViewInvariant == Spec => [](LogInv /\ ViewInv)
<1>1. Init => ViewInv
  <2> SUFFICES ASSUME Init PROVE ViewInv
      OBVIOUS
  <2>0. Trail = <<>> /\ view = NoItem
    <3>1. (CHOOSE c \in Clones : TRUE) \in Clones
        BY TrailAssumption
    <3> QED
        BY <3>1 DEF Init, Trail
  <2>1. Fold(ITEM, <<>>) = Empty /\ Empty \in Logs /\ Empty.state = Nowhere
      BY FoldOfNothing DEF Empty, Logs
  <2>2. \A x, none : LastBody(<<>>, x, none) = none /\ OfEvent(<<>>, x) = {}
      BY DEF LastBody, OfEvent
  <2>3. /\ claims(<<>>) = 0 /\ priority(<<>>) = 0
        /\ failure(<<>>) = NoFailure /\ scheduled_for(<<>>) = 0
      BY <2>2, FS_EmptySet DEF claims, priority, failure, scheduled_for
  <2>4. Nowhere \notin Behind /\ Nowhere # "blocked" /\ Nowhere # Unreadable
      BY DEF Nowhere, Behind, Leased, Unreadable
  <2>5. Shows(NoItem, Fold(ITEM, <<>>), <<>>)
      BY <2>1, <2>3, <2>4 DEF Shows, NoItem
  <2> QED
      BY <2>0, <2>5 DEF ViewInv
<1> QED
    BY LogInvariant, ViewStep, <1>1, PTL DEF Spec

\* While there is one file, the view takes what the fold of the file takes, and
\* shows what a reader of the file would find.
THEOREM TheViewIsTheFold == Spec => []ViewIsTheFold
<1>1. LogInv /\ ViewInv => ViewIsTheFold
  <2> SUFFICES ASSUME LogInv, ViewInv, ~cloned PROVE AcceptsWhatFolds /\ ShowsWhatFolds
      BY DEF ViewIsTheFold
  <2> DEFINE L == Fold(ITEM, Trail)
  <2>1. Shows(view, L, Trail) /\ L \in Logs
      BY DEF ViewInv, Shows
  <2>2. AcceptsWhatFolds
    <3> SUFFICES ASSUME NEW e \in Vocabulary, NEW body \in Bodies(e)
                 PROVE  Accepts(view, e) <=> Folds(e, body)
        BY DEF AcceptsWhatFolds
    <3> DEFINE r == Line(Len(Trail) + 1, Len(Trail) + 1, e, body)
    <3>1. /\ r \in Entries /\ r.event = e /\ e \in Events
          /\ Folds(e, body) <=> FoldStep(ITEM, L, r).state # Unreadable
        BY FoldsIsTaken, TrailAssumption
    <3> HIDE DEF L, r
    <3>2. Folds(e, body) <=> Takes(L, e)
        BY <2>1, <3>1, StepOfALog
    <3>3. Accepts(view, e) <=> Takes(L, e)
        BY <2>1, <3>1, GuardsAgree
    <3> QED
        BY <3>2, <3>3
  <2>3. ShowsWhatFolds
    <3> SUFFICES ASSUME Trail # <<>>
                 PROVE  LET records == Records(Trail)
                            state == StateOf(ITEM, Trail)
                        IN /\ view.state = state
                           /\ view.claims = claims(records)
                           /\ view.resumable = (state = "doing" /\ resumes(records))
                           /\ state \in Leased => view.attempt = lease(records)
                           /\ state = "blocked" => [view.block EXCEPT !.ret = awaiting(records).ret]
                                                       = awaiting(records)
                           /\ state \notin Terminal => /\ view.failure = failure(records)
                                                      /\ view.wake = scheduled_for(records)
                                                      /\ view.prio = priority(records)
        BY DEF ShowsWhatFolds
    <3>1. Trail \in Seq(Entries) /\ \E c \in Clones : Trail = log[c]
        BY TrailIsAFile DEF LogInv
    <3>2. \A k \in DOMAIN Trail : Trail[k].id = k /\ Trail[k].ts = k
        BY <3>1 DEF LogInv, OneFile
    <3>3. ~Conflicting(Trail) /\ Records(Trail) = Trail
        BY <3>1, <3>2, NumberedLinesAreRecords
    <3>4. StateOf(ITEM, Trail) = L.state
        BY <3>3 DEF StateOf
    <3> HIDE DEF L
    <3>5. \A a, b \in Returns : [a EXCEPT !.ret = b.ret] = b
        BY DEF Returns
    <3>6. L.state = "blocked" => [view.block EXCEPT !.ret = awaiting(Trail).ret] = awaiting(Trail)
        BY <2>1, <3>5 DEF Shows
    <3> QED
        BY <2>1, <3>3, <3>4, <3>6 DEF Shows, Behind
  <2> QED
      BY <2>2, <2>3
<1> QED
    BY ViewInvariant, <1>1, PTL

-----------------------------------------------------------------------------
(***************************************************************************)
(* What closes an item.  A closing event does, and so does the end of a    *)
(* block that stored a terminal state to return to: either can be told     *)
(* from the set of lines, and from nothing else.                           *)
(***************************************************************************)
LastBlock(records, b, n) ==
    records[b].event = "blocked" /\ \A c \in b + 1 .. n : records[c].event # "blocked"

ClosesAt(records, k, state) ==
    \/ To[records[k].event] = state
    \/ /\ records[k].event = "unblocked"
       /\ \E b \in 1 .. k : LastBlock(records, b, k) /\ records[b].ret = state

\* The last block before r, among the lines S.
Opens(S, b, r) ==
    /\ b.event = "blocked" /\ Before(b, r)
    /\ \A c \in S : c.event = "blocked" /\ Before(c, r) => ~Before(b, c)

Closes(S, r, state) ==
    \/ To[r.event] = state
    \/ r.event = "unblocked" /\ \E b \in S : Opens(S, b, r) /\ b.ret = state

\* What a log has stored for the end of a block is the last block's return, until
\* that return was taken.
Brought(ret, stored) == stored \in States => ret = stored

\* A log that reads is closed exactly if one of its records closes it, and then in
\* the state that record closes it in.
LEMMA ClosedByARecord ==
    ASSUME NEW records \in Seq(Entries)
    PROVE  LET state == Fold(ITEM, records).state IN
           /\ \A k \in DOMAIN records : \A X \in Terminal :
                 ClosesAt(records, k, X) => state \in {X, Unreadable}
           /\ state \in Terminal => \E k \in DOMAIN records : ClosesAt(records, k, state)
<1> DEFINE N == Len(records)
<1>0. N \in Nat /\ DOMAIN records = 1 .. N /\ \A k \in 1 .. N : records[k] \in Entries
    OBVIOUS
<1>1. PICK p : /\ p[0] = Empty /\ p[N] = Fold(ITEM, records)
               /\ \A n \in 0 .. N - 1 : p[n + 1] = FoldStep(ITEM, p[n], records[n + 1])
    BY FoldStepwise
<1> HIDE DEF N
<1> DEFINE Blocked(n) == p[n].state = "blocked" =>
                             \E b \in 1 .. n :
                                /\ LastBlock(records, b, n)
                                /\ Brought(records[b].ret, p[n].stored["blocked"])
           Closing(n) == \A k \in 1 .. n : \A X \in Terminal :
                             ClosesAt(records, k, X) => p[n].state \in {X, Unreadable}
           Closed(n) == p[n].state \in Terminal =>
                            \E k \in 1 .. n : ClosesAt(records, k, p[n].state)
           Good(n) == p[n] \in Logs /\ Blocked(n) /\ Closing(n) /\ Closed(n)
           S == {n \in Nat : n <= N => Good(n)}
<1>3. 0 \in S
  <2>1. Empty \in Logs /\ Empty.state = Nowhere
      BY DEF Empty, Logs
  <2>2. 1 .. 0 = {}
      OBVIOUS
  <2>3. Good(0)
      BY <1>1, <2>1, <2>2, NoStates
  <2> HIDE DEF Good
  <2> QED
      BY <2>3
<1>4. ASSUME NEW n \in Nat, n \in S PROVE n + 1 \in S
  <2> SUFFICES ASSUME n + 1 <= N PROVE Good(n + 1)
      OBVIOUS
  <2>1. Good(n) /\ n \in 0 .. N - 1 /\ n + 1 \in 1 .. N
      BY <1>0, <1>4
  <2> DEFINE r == records[n + 1]
             L == p[n]
             M == p[n + 1]
  <2>2. M = FoldStep(ITEM, L, r) /\ r \in Entries /\ L \in Logs /\ r.event \in Events
    <3>1. M = FoldStep(ITEM, L, r) /\ r \in Entries /\ L \in Logs
        BY <1>0, <1>1, <2>1
    <3> HIDE DEF r
    <3> QED
        BY <3>1 DEF Entries
  <2>3. /\ \A k : k \in 1 .. n + 1 <=> k \in 1 .. n \/ k = n + 1
        /\ \A b \in 1 .. n : \A k : k \in b + 1 .. n + 1 <=> k \in b + 1 .. n \/ k = n + 1
        /\ n + 1 + 1 .. n + 1 = {}
      OBVIOUS
  <2>4. ASSUME NEW b \in 1 .. n, r.event # "blocked"
        PROVE  LastBlock(records, b, n + 1) <=> LastBlock(records, b, n)
      BY <2>3, <2>4 DEF LastBlock
  <2>5. Blocked(n) /\ Closing(n) /\ Closed(n)
      BY <2>1
  <2> HIDE DEF r, L, M, Blocked, Closing, Closed, Good
  <2>6. CASE ~Takes(L, r.event)
    <3>1. M \in Logs /\ M.state = Unreadable
        BY <2>2, <2>6, StepStops
    <3> QED
        BY <3>1, NoStates DEF M, Good, Blocked, Closing, Closed
  <2>7. CASE Takes(L, r.event)
    <3> DEFINE e == r.event
    <3>1. /\ M \in Logs /\ M.state \in States /\ L.state # Unreadable
          /\ \/ To[e] = Stay /\ M.state = L.state /\ M.stored = L.stored
             \/ /\ To[e] = Stored /\ e = "unblocked" /\ L.state = "blocked"
                /\ M.state = L.stored["blocked"] /\ M.state \in ReturnTargets \cup {Nowhere}
                /\ M.stored = [L.stored EXCEPT ![M.state] = r.ret]
             \/ /\ To[e] = M.state /\ To[e] \notin {Stay, Stored}
                /\ M.stored = [L.stored EXCEPT ![M.state] = r.ret]
          /\ L.state \in Terminal => M.state \in {L.state, Unreadable}
      <4> DEFINE Q == FoldStep(ITEM, L, r)
      <4>1. /\ Q \in Logs /\ Q.state \in States
            /\ \/ To[e] = Stay /\ Q.state = L.state /\ Q.stored = L.stored
               \/ /\ To[e] = Stored /\ e = "unblocked" /\ L.state = "blocked"
                  /\ Q.state = L.stored["blocked"] /\ Q.state \in ReturnTargets \cup {Nowhere}
                  /\ Q.stored = [L.stored EXCEPT ![Q.state] = r.ret]
               \/ /\ To[e] = Q.state /\ To[e] \notin {Stay, Stored}
                  /\ Q.stored = [L.stored EXCEPT ![Q.state] = r.ret]
          BY <2>2, <2>7, StepLeads
      <4>2. L.state \in Terminal => Q.state \in {L.state, Unreadable}
          BY <2>2, StepOfALog
      <4>3. L.state # Unreadable /\ M = Q
          BY <2>2, <2>7 DEF Takes
      <4> HIDE DEF Q
      <4> QED
          BY <4>1, <4>2, <4>3
    <3>2. e = "blocked" <=> To[e] = "blocked"
        BY <2>2, Entrances
    <3>3. Blocked(n + 1)
      <4> SUFFICES ASSUME M.state = "blocked"
                   PROVE  \E b \in 1 .. n + 1 :
                             /\ LastBlock(records, b, n + 1)
                             /\ Brought(records[b].ret, M.stored["blocked"])
          BY DEF Blocked, M
      <4>1. CASE e = "blocked"
        <5>1. M.stored = [L.stored EXCEPT !["blocked"] = r.ret]
            BY <3>1, <3>2, <4>1, NoStates
        <5>2. M.stored["blocked"] = r.ret
            BY <2>2, <5>1, NoStates DEF Logs
        <5>3. LastBlock(records, n + 1, n + 1) /\ n + 1 \in 1 .. n + 1
            BY <2>3, <4>1 DEF LastBlock, r
        <5> QED
            BY <5>2, <5>3 DEF r, Brought
      <4>2. CASE e # "blocked"
        <5>1. L.state = "blocked"
            BY <3>1, <3>2, <4>2, NoStates
        <5>2. M.stored["blocked"] \in {L.stored["blocked"], Nowhere}
          <6>1. r.ret = Nowhere
              BY <2>2, <4>2 DEF Entries
          <6>2. M.stored \in {L.stored, [L.stored EXCEPT !["blocked"] = r.ret]}
              BY <3>1, <3>2, <4>2, NoStates
          <6> QED
              BY <2>2, <6>1, <6>2, NoStates DEF Logs
        <5>3. PICK b \in 1 .. n : /\ LastBlock(records, b, n)
                                  /\ Brought(records[b].ret, L.stored["blocked"])
            BY <2>5, <5>1 DEF Blocked, L
        <5>4. LastBlock(records, b, n + 1) /\ b \in 1 .. n + 1
            BY <2>4, <4>2, <5>3
        <5>5. Brought(records[b].ret, M.stored["blocked"])
            BY <5>2, <5>3, NoStates DEF Brought
        <5> QED
            BY <5>4, <5>5
      <4> QED
          BY <4>1, <4>2
    <3>4. ASSUME e = "unblocked", NEW X \in States
          PROVE  ClosesAt(records, n + 1, X) <=> M.state = X
      <4>1. L.state = "blocked" /\ M.state = L.stored["blocked"] /\ To[e] = Stored /\ e # "blocked"
          BY <2>2, <3>1, <3>4, Table, NoStates
      <4>2. PICK b \in 1 .. n : LastBlock(records, b, n) /\ records[b].ret = M.state
          BY <2>5, <3>1, <4>1 DEF Blocked, L, Brought
      <4>3. LastBlock(records, b, n + 1) /\ b \in 1 .. n + 1
          BY <2>4, <4>1, <4>2
      <4>4. ASSUME NEW a \in 1 .. n + 1, LastBlock(records, a, n + 1) PROVE a = b
        <5>1. a \in 1 .. n
            BY <2>3, <4>1, <4>4 DEF LastBlock, r
        <5>2. a < b => b \in a + 1 .. n + 1
            BY <5>1
        <5>3. b < a => a \in b + 1 .. n + 1
            BY <5>1
        <5>4. a = b \/ a < b \/ b < a
            BY <5>1
        <5> QED
            BY <4>3, <4>4, <5>2, <5>3, <5>4 DEF LastBlock
      <4>5. ClosesAt(records, n + 1, X)
                <=> X = Stored \/ \E a \in 1 .. n + 1 : /\ LastBlock(records, a, n + 1)
                                                        /\ records[a].ret = X
          BY <3>4, <4>1 DEF ClosesAt, r
      <4>6. X # Stored
          BY NoStates
      <4> QED
          BY <4>2, <4>3, <4>4, <4>5, <4>6
    <3>5. ASSUME e # "unblocked", NEW X
          PROVE  ClosesAt(records, n + 1, X) <=> To[e] = X
        BY <3>5 DEF ClosesAt, r
    <3>6. Closing(n + 1)
      <4> SUFFICES ASSUME NEW k \in 1 .. n + 1, NEW X \in Terminal, ClosesAt(records, k, X)
                   PROVE  M.state \in {X, Unreadable}
          BY DEF Closing, M
      <4>1. CASE k \in 1 .. n
        <5>1. L.state = X
            BY <2>5, <3>1, <4>1 DEF Closing, L
        <5> QED
            BY <3>1, <5>1
      <4>2. CASE k = n + 1 /\ e = "unblocked"
          BY <3>4, <4>2, NoStates
      <4>3. CASE k = n + 1 /\ e # "unblocked"
        <5>1. To[e] = X
            BY <3>5, <4>3
        <5> QED
            BY <3>1, <5>1, NoStates
      <4> QED
          BY <2>3, <4>1, <4>2, <4>3
    <3>7. Closed(n + 1)
      <4> SUFFICES ASSUME M.state \in Terminal
                   PROVE  \E k \in 1 .. n + 1 : ClosesAt(records, k, M.state)
          BY DEF Closed, M
      <4>1. CASE M.state = L.state
        <5>1. PICK k \in 1 .. n : ClosesAt(records, k, M.state)
            BY <2>5, <4>1 DEF Closed, L
        <5> QED
            BY <2>3, <5>1
      <4>2. CASE M.state # L.state
        <5>1. ClosesAt(records, n + 1, M.state)
          <6>1. CASE e = "unblocked"
              BY <3>1, <3>4, <6>1
          <6>2. CASE e # "unblocked"
              BY <3>1, <3>5, <4>2, <6>2
          <6> QED
              BY <6>1, <6>2
        <5> QED
            BY <2>3, <5>1
      <4> QED
          BY <4>1, <4>2
    <3> QED
        BY <3>1, <3>3, <3>6, <3>7 DEF Good, M
  <2> QED
      BY <2>6, <2>7
<1>5. Good(N)
  <2> HIDE DEF Good
  <2>1. N \in S
    <3> HIDE DEF S
    <3> QED
        BY <1>0, <1>3, <1>4, Induction
  <2> QED
      BY <1>0, <2>1
<1> QED
    BY <1>0, <1>1, <1>5

\* In sorted records, a position closes exactly if its line does among the lines.
LEMMA PlacesAreLines ==
    ASSUME NEW records \in Seq(Entries), Sorted(records), NEW k \in DOMAIN records, NEW X
    PROVE  ClosesAt(records, k, X) <=> Closes(Said(records), records[k], X)
<1>0. /\ Len(records) \in Nat /\ DOMAIN records = 1 .. Len(records)
      /\ \A j \in DOMAIN records : records[j] \in Entries
    OBVIOUS
<1>1. ASSUME NEW i \in DOMAIN records, NEW j \in DOMAIN records
      PROVE  Before(records[i], records[j]) <=> i < j
  <2>1. i < j => Before(records[i], records[j])
      BY DEF Sorted
  <2>2. j < i => Before(records[j], records[i])
      BY DEF Sorted
  <2>3. i < j \/ i = j \/ j < i
      BY <1>0
  <2>4. ~(Before(records[i], records[j]) /\ Before(records[j], records[i]))
        /\ ~Before(records[i], records[i])
      BY <1>0, BeforeOrders
  <2> QED
      BY <2>1, <2>2, <2>3, <2>4
<1>2. ASSUME NEW b \in DOMAIN records, records[k].event = "unblocked"
      PROVE  b \in 1 .. k /\ LastBlock(records, b, k) <=> Opens(Said(records), records[b], records[k])
  <2>1. /\ Opens(Said(records), records[b], records[k])
           <=> /\ records[b].event = "blocked" /\ b < k
               /\ \A c \in DOMAIN records : records[c].event = "blocked" /\ c < k => ~(b < c)
      BY <1>1 DEF Opens, Said
  <2>2. \A c : c \in b + 1 .. k <=> c \in DOMAIN records /\ b < c /\ c <= k
      BY <1>0
  <2>3. records[b].event = "blocked" => b # k
      BY <1>2
  <2>4. b \in 1 .. k <=> b <= k
      BY <1>0
  <2>5. ASSUME NEW c \in DOMAIN records PROVE c <= k <=> c < k \/ c = k
      BY <1>0
  <2> QED
      BY <1>2, <2>1, <2>2, <2>3, <2>4, <2>5 DEF LastBlock
<1>3. \A b \in 1 .. k : b \in DOMAIN records
    BY <1>0
<1> QED
    BY <1>2, <1>3 DEF ClosesAt, Closes, Said

\* The same of the lines of a file, in whatever order they are.
LEMMA ClosedByALine ==
    ASSUME NEW lines \in Seq(Entries), ~Conflicting(lines)
    PROVE  /\ \A r \in Said(lines) : \A X \in Terminal :
                  Closes(Said(lines), r, X) => StateOf(ITEM, lines) \in {X, Unreadable}
           /\ StateOf(ITEM, lines) \in Terminal =>
                  \E r \in Said(lines) : Closes(Said(lines), r, StateOf(ITEM, lines))
<1> DEFINE records == Records(lines)
<1>1. records \in Seq(Entries) /\ Sorted(records) /\ Said(records) = Said(lines)
    BY RecordsAreTheLines
<1>2. CASE lines = <<>>
    BY <1>2, NoStates DEF StateOf, Said
<1>3. CASE lines # <<>>
  <2>1. StateOf(ITEM, lines) = Fold(ITEM, records).state
      BY <1>3 DEF StateOf
  <2> HIDE DEF records
  <2>2. /\ \A k \in DOMAIN records : \A X \in Terminal :
              ClosesAt(records, k, X) => StateOf(ITEM, lines) \in {X, Unreadable}
        /\ StateOf(ITEM, lines) \in Terminal =>
              \E k \in DOMAIN records : ClosesAt(records, k, StateOf(ITEM, lines))
      BY <1>1, <2>1, ClosedByARecord
  <2>3. /\ \A r \in Said(lines) : \E k \in DOMAIN records : r = records[k]
        /\ \A k \in DOMAIN records : records[k] \in Said(lines)
      BY <1>1 DEF Said
  <2>4. \A k \in DOMAIN records : \A X :
            ClosesAt(records, k, X) <=> Closes(Said(lines), records[k], X)
      BY <1>1, PlacesAreLines
  <2> QED
      BY <2>2, <2>3, <2>4
<1> QED
    BY <1>2, <1>3

LEMMA FilesOnlyGrow ==
    ASSUME LogInv, [Next]_vars, NEW c \in Clones
    PROVE  Said(log[c]) \subseteq Said(log'[c])
<1>1. ASSUME NEW e \in Vocabulary, NEW body \in Bodies(e), Grow(e, body)
      PROVE  Said(log[c]) \subseteq Said(log'[c])
  <2> DEFINE r == Line(Len(Trail) + 1, Len(Trail) + 1, e, body)
  <2>1. r \in Entries /\ Trail \in Seq(Entries) /\ log[c] = Trail /\ log'[c] = Append(Trail, r)
      BY <1>1, GrowAppends
  <2> HIDE DEF r
  <2> QED
      BY <2>1, AppendedLine
<1>2. ASSUME NEW x \in Clones, NEW e \in Ends, NEW ts \in Clock, Write(x, e, ts)
      PROVE  Said(log[c]) \subseteq Said(log'[c])
  <2> DEFINE r == Line(Len(Base) + ends + 1, ts, e, 0)
  <2>1. r \in Entries /\ log[x] \in Seq(Entries) /\ log' = [log EXCEPT ![x] = Append(log[x], r)]
      BY <1>2, WriteAppends
  <2> HIDE DEF r
  <2>2. Said(log[x]) \subseteq Said(Append(log[x], r))
      BY <2>1, AppendedLine
  <2>3. log'[c] = IF c = x THEN Append(log[x], r) ELSE log[c]
      BY <2>1 DEF LogInv, TypeOK
  <2> QED
      BY <2>2, <2>3
<1>3. ASSUME NEW x \in Clones, NEW d \in Clones, Merge(x, d)
      PROVE  Said(log[c]) \subseteq Said(log'[c])
  <2>1. /\ \A y \in Clones : y # x => log'[y] = log[y]
        /\ Said(log[x]) \subseteq Said(log'[x])
      BY <1>3, MergesKeepLines DEF LogInv
  <2> QED
      BY <2>1
<1>4. ASSUME Clone \/ UNCHANGED vars PROVE Said(log[c]) \subseteq Said(log'[c])
    BY <1>4 DEF Clone, vars
<1> QED
    BY <1>1, <1>2, <1>3, <1>4 DEF Next

\* What was blocked, and until where, is known to every clone.
SharedBlocks ==
    cloned => \A c, d \in Clones : \A r \in Said(log[c]) : r.event = "blocked" => r \in Said(log[d])

LEMMA NoNewBlocks ==
    ASSUME LogInv, SharedBlocks, [Next]_vars, cloned,
           NEW c \in Clones, NEW r \in Said(log'[c]), r.event = "blocked"
    PROVE  r \in Said(log[c])
<1>1. ASSUME NEW e \in Vocabulary, NEW body \in Bodies(e), Grow(e, body) PROVE FALSE
    BY <1>1 DEF Grow
<1>2. ASSUME Clone PROVE FALSE
    BY <1>2 DEF Clone
<1>3. ASSUME NEW x \in Clones, NEW e \in Ends, NEW ts \in Clock, Write(x, e, ts)
      PROVE  r \in Said(log[c])
  <2> DEFINE new == Line(Len(Base) + ends + 1, ts, e, 0)
  <2>1. /\ new \in Entries /\ log[x] \in Seq(Entries)
        /\ log' = [log EXCEPT ![x] = Append(log[x], new)]
      BY <1>3, WriteAppends
  <2>2. new.event # "blocked"
      BY TrailAssumption DEF Line
  <2> HIDE DEF new
  <2>3. Said(Append(log[x], new)) = Said(log[x]) \cup {new}
      BY <2>1, AppendedLine
  <2>4. log'[c] = IF c = x THEN Append(log[x], new) ELSE log[c]
      BY <2>1 DEF LogInv, TypeOK
  <2> QED
      BY <2>2, <2>3, <2>4
<1>4. ASSUME NEW x \in Clones, NEW y \in Clones, Merge(x, y) PROVE r \in Said(log[c])
  <2>1. /\ \A z \in Clones : z # x => log'[z] = log[z]
        /\ Said(log'[x]) \subseteq Said(log[x]) \cup Said(log[y])
      BY <1>4, MergesKeepLines DEF LogInv
  <2>2. r \in Said(log[c]) \/ (c = x /\ r \in Said(log[y]))
      BY <2>1
  <2> QED
      BY <2>2 DEF SharedBlocks
<1>5. CASE UNCHANGED vars
    BY <1>5 DEF vars
<1> QED
    BY <1>1, <1>2, <1>3, <1>4, <1>5 DEF Next

LEMMA SharedStep == LogInv /\ SharedBlocks /\ [Next]_vars => SharedBlocks'
<1> SUFFICES ASSUME LogInv, SharedBlocks, [Next]_vars, cloned',
                    NEW c \in Clones, NEW d \in Clones, NEW r \in Said(log'[c]), r.event = "blocked"
             PROVE  r \in Said(log'[d])
    BY DEF SharedBlocks
<1>1. CASE cloned
  <2>1. r \in Said(log[d])
      BY <1>1, NoNewBlocks DEF SharedBlocks
  <2> QED
      BY <2>1, FilesOnlyGrow
<1>2. CASE ~cloned
  <2>1. log' = log
      BY <1>2 DEF Next, Clone, Grow, Write, Merge, vars
  <2> QED
      BY <1>2, <2>1 DEF LogInv, OneFile
<1> QED
    BY <1>1, <1>2

\* No append and no merge reopens a closed item, or closes it otherwise: its log
\* says the same or fails the read.
THEOREM NoMergeReopens == Spec => ClosedStaysClosed
<1>1. ASSUME LogInv, LogInv', ViewInv, SharedBlocks, SharedBlocks', [Next]_vars
      PROVE  [\A c \in Clones : State(c) \in Terminal =>
                 StateOf(ITEM, log'[c]) \in {State(c), Unreadable}]_vars
  <2> SUFFICES ASSUME NEW c \in Clones, State(c) \in Terminal, vars' # vars
               PROVE  StateOf(ITEM, log'[c]) \in {State(c), Unreadable}
      OBVIOUS
  <2>1. ASSUME NEW e \in Vocabulary, NEW body \in Bodies(e), Grow(e, body)
        PROVE  StateOf(ITEM, log'[c]) \in {State(c), Unreadable}
    <3> DEFINE r == Line(Len(Trail) + 1, Len(Trail) + 1, e, body)
               L == Fold(ITEM, Trail)
    <3>1. /\ r \in Entries /\ Trail \in Seq(Entries)
          /\ Records(Trail) = Trail /\ Candidate(e, body) = Append(Trail, r)
          /\ StateOf(ITEM, Candidate(e, body)) = FoldStep(ITEM, L, r).state
        BY <1>1, <2>1, FoldsIsTaken DEF Grow
    <3>2. log[c] = Trail /\ log'[c] = Append(Trail, r)
        BY <1>1, <2>1, GrowAppends
    <3>3. L \in Logs
        BY <1>1, <2>1 DEF ViewInv, Shows, Grow
    <3> HIDE DEF r
    <3>4. State(c) = L.state
        BY <2>1, <3>1, <3>2, NoStates DEF State, StateOf
    <3> HIDE DEF L
    <3>6. FoldStep(ITEM, L, r).state \in {State(c), Unreadable}
        BY <3>1, <3>3, <3>4, StepOfALog
    <3> QED
        BY <3>1, <3>2, <3>6
  <2>2. CASE cloned /\ cloned'
    <3>1. log[c] \in Seq(Entries) /\ ~Conflicting(log[c])
        BY <1>1, NoConflicts
    <3>2. log'[c] \in Seq(Entries) /\ ~Conflicting(log'[c])
        BY <1>1 DEF LogInv, TypeOK, OneLinePerId, Conflicting
    <3>3. PICK r \in Said(log[c]) : Closes(Said(log[c]), r, State(c))
        BY <3>1, ClosedByALine DEF State
    <3>4. Said(log[c]) \subseteq Said(log'[c])
        BY <1>1, FilesOnlyGrow
    <3>5. \A b \in Said(log'[c]) : b.event = "blocked" => b \in Said(log[c])
        BY <1>1, <2>2, NoNewBlocks
    <3>6. Closes(Said(log'[c]), r, State(c))
        BY <3>3, <3>4, <3>5 DEF Closes, Opens
    <3> QED
        BY <3>2, <3>3, <3>4, <3>6, ClosedByALine
  <2>3. CASE Clone
      BY <2>3 DEF Clone, State
  <2>4. ASSUME NEW x \in Clones, NEW e \in Ends, NEW ts \in Clock, Write(x, e, ts)
        PROVE  cloned /\ cloned'
      BY <2>4 DEF Write
  <2>5. ASSUME NEW x \in Clones, NEW y \in Clones, Merge(x, y) PROVE cloned /\ cloned'
      BY <2>5 DEF Merge
  <2> QED
      BY <1>1, <2>1, <2>2, <2>3, <2>4, <2>5 DEF Next
<1>2. Init => SharedBlocks
    BY DEF Init, SharedBlocks
<1> QED
    BY ViewInvariant, SharedStep, <1>1, <1>2, PTL DEF Spec, ClosedStaysClosed

=============================================================================
