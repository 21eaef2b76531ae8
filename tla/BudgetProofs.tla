---------------------------- MODULE BudgetProofs ----------------------------
(***************************************************************************)
(* Theorems about Budget, for any ceilings, Rates and usage, and however   *)
(* many rows and Runs there are: the guardrail holds.                      *)
(***************************************************************************)
EXTENDS Budget, WellFoundedInduction, TLAPS

-----------------------------------------------------------------------------
(***************************************************************************)
(* Sums.  Sum is a recursive function: that one exists, and what it gives, *)
(* rests on induction, from the library's theorem on well-founded orders.  *)
(***************************************************************************)
\* What holds of zero, and of a number's successor, holds of every number.
LEMMA Induction ==
    ASSUME NEW S, 0 \in S, \A n \in Nat : n \in S => n + 1 \in S
    PROVE  Nat \subseteq S
<1> DEFINE R == OpToRel(<, Nat)
           T == Nat \ S
<1>1. IsWellFoundedOn(R, Nat)
    BY NatLessThanWellFounded
<1>2. SUFFICES ASSUME T # {} PROVE FALSE
    OBVIOUS
<1>3. T \subseteq Nat
    OBVIOUS
<1> HIDE DEF R, T
<1>4. PICK x \in T : \A y \in T : ~ (<<y, x>> \in R)
    BY <1>1, <1>2, <1>3, WFMin
<1>5. x \in Nat /\ x # 0
    BY DEF T
<1>6. x - 1 \notin T
    <2>1. x - 1 \in Nat
        BY <1>5
    <2>2. <<x - 1, x>> \in R
        BY <1>5, <2>1 DEF R, OpToRel
    <2> QED BY <1>4, <2>2
<1>7. x - 1 \in Nat /\ x - 1 \in S
    BY <1>5, <1>6 DEF T
<1>8. (x - 1) + 1 \in S
    BY <1>7
<1> QED BY <1>5, <1>8 DEF T

\* The sum of the first n numbers of v, for the n of a domain.
Adds(v, bound, g, N) ==
    g = [n \in N |-> IF n = 0 THEN 0 ELSE Capped(g[n - 1] + v[n], bound)]

\* Two sums of the same numbers agree where both are defined.
LEMMA AddsAgree ==
    ASSUME NEW v, NEW bound, NEW m \in Nat, NEW k \in Nat, m <= k,
           NEW g, Adds(v, bound, g, 0 .. m), NEW h, Adds(v, bound, h, 0 .. k)
    PROVE  g[m] = h[m]
<1> DEFINE S == {n \in Nat : n <= m => g[n] = h[n]}
<1>1. g = [n \in 0 .. m |-> IF n = 0 THEN 0 ELSE Capped(g[n - 1] + v[n], bound)]
    BY DEF Adds
<1>2. h = [n \in 0 .. k |-> IF n = 0 THEN 0 ELSE Capped(h[n - 1] + v[n], bound)]
    BY DEF Adds
<1>3. 0 \in S
    BY <1>1, <1>2
<1>4. ASSUME NEW n \in Nat, n \in S, n + 1 <= m PROVE g[n + 1] = h[n + 1]
    <2>1. n + 1 \in 0 .. m /\ n + 1 \in 0 .. k /\ n + 1 # 0 /\ (n + 1) - 1 = n
        BY <1>4
    <2>2. g[n + 1] = Capped(g[n] + v[n + 1], bound)
        BY <1>1, <2>1
    <2>3. h[n + 1] = Capped(h[n] + v[n + 1], bound)
        BY <1>2, <2>1
    <2> QED BY <1>4, <2>2, <2>3
<1>5. \A n \in Nat : n \in S => n + 1 \in S
    BY <1>4
<1> HIDE DEF S
<1>6. Nat \subseteq S
    BY <1>3, <1>5, Induction
<1> QED BY <1>6 DEF S

LEMMA AddsUpto ==
    ASSUME NEW v, NEW bound
    PROVE  \A m \in Nat : \E g : Adds(v, bound, g, 0 .. m)
<1> DEFINE S == {m \in Nat : \E g : Adds(v, bound, g, 0 .. m)}
<1>1. 0 \in S
    <2>1. Adds(v, bound, [n \in 0 .. 0 |-> 0], 0 .. 0)
        BY DEF Adds
    <2> QED BY <2>1
<1>2. ASSUME NEW m \in Nat, m \in S PROVE m + 1 \in S
    <2>1. PICK g : Adds(v, bound, g, 0 .. m)
        BY <1>2
    <2> DEFINE h == [n \in 0 .. (m + 1) |->
                        IF n <= m THEN g[n] ELSE Capped(g[m] + v[m + 1], bound)]
    <2>2. ASSUME NEW n \in 0 .. (m + 1)
          PROVE  h[n] = IF n = 0 THEN 0 ELSE Capped(h[n - 1] + v[n], bound)
        <3>1. g = [i \in 0 .. m |-> IF i = 0 THEN 0 ELSE Capped(g[i - 1] + v[i], bound)]
            BY <2>1 DEF Adds
        <3>2. CASE n = 0
            BY <3>1, <3>2
        <3>3. CASE n # 0 /\ n <= m
            <4>1. n \in 0 .. m /\ n - 1 \in 0 .. m /\ n - 1 <= m /\ n - 1 \in 0 .. (m + 1)
                BY <3>3
            <4>2. g[n] = Capped(g[n - 1] + v[n], bound)
                BY <3>1, <3>3, <4>1
            <4>3. h[n] = g[n] /\ h[n - 1] = g[n - 1]
                BY <3>3, <4>1
            <4> QED BY <3>3, <4>2, <4>3
        <3>4. CASE n = m + 1
            <4>1. m \in 0 .. (m + 1) /\ n # 0 /\ n - 1 = m /\ ~(n <= m)
                BY <3>4
            <4>2. h[n] = Capped(g[m] + v[m + 1], bound) /\ h[n - 1] = g[m]
                BY <3>4, <4>1
            <4> QED BY <3>4, <4>1, <4>2
        <3> QED BY <3>2, <3>3, <3>4
    <2>3. h = [n \in 0 .. (m + 1) |-> h[n]]
        OBVIOUS
    <2> HIDE DEF h
    <2>4. Adds(v, bound, h, 0 .. (m + 1))
        BY <2>2, <2>3 DEF Adds
    <2> QED BY <2>4
<1> HIDE DEF S
<1>3. Nat \subseteq S
    BY <1>1, <1>2, Induction
<1> QED BY <1>3 DEF S

LEMMA AddsExist ==
    ASSUME NEW v, NEW bound
    PROVE  \E g : Adds(v, bound, g, Nat)
<1> DEFINE G == [m \in Nat |-> CHOOSE g : Adds(v, bound, g, 0 .. m)]
           h == [n \in Nat |-> G[n][n]]
<1>1. ASSUME NEW m \in Nat PROVE Adds(v, bound, G[m], 0 .. m)
    BY AddsUpto
<1>2. ASSUME NEW n \in Nat
      PROVE  h[n] = IF n = 0 THEN 0 ELSE Capped(h[n - 1] + v[n], bound)
    <2>1. G[n] = [i \in 0 .. n |->
                    IF i = 0 THEN 0 ELSE Capped(G[n][i - 1] + v[i], bound)]
        BY <1>1 DEF Adds
    <2> HIDE DEF G, h
    <2>2. G[n][n] = IF n = 0 THEN 0 ELSE Capped(G[n][n - 1] + v[n], bound)
        <3>1. n \in 0 .. n
            OBVIOUS
        <3> QED BY <2>1, <3>1
    <2>3. ASSUME n # 0 PROVE G[n][n - 1] = G[n - 1][n - 1]
        <3>1. n - 1 \in Nat /\ n - 1 <= n
            BY <2>3
        <3>2. Adds(v, bound, G[n - 1], 0 .. (n - 1)) /\ Adds(v, bound, G[n], 0 .. n)
            BY <1>1, <3>1
        <3> QED BY <3>1, <3>2, AddsAgree
    <2>4. n # 0 => n - 1 \in Nat
        OBVIOUS
    <2> QED BY <2>2, <2>3, <2>4 DEF h
<1>3. h = [n \in Nat |-> h[n]]
    OBVIOUS
<1> HIDE DEF h
<1>4. Adds(v, bound, h, Nat)
    BY <1>2, <1>3 DEF Adds
<1> QED BY <1>4

\* Sum adds.
LEMMA SumAdds ==
    ASSUME NEW v, NEW bound
    PROVE  \E g : Adds(v, bound, g, Nat) /\ Sum(v, bound) = g[Len(v)]
<1> DEFINE g == CHOOSE f : f = [n \in Nat |-> IF n = 0 THEN 0
                                   ELSE Capped(f[n - 1] + v[n], bound)]
<1>1. \E f : f = [n \in Nat |-> IF n = 0 THEN 0 ELSE Capped(f[n - 1] + v[n], bound)]
    BY AddsExist DEF Adds
<1>2. g = [n \in Nat |-> IF n = 0 THEN 0 ELSE Capped(g[n - 1] + v[n], bound)]
    BY <1>1
<1>3. Sum(v, bound) = g[Len(v)]
    BY DEF Sum
<1> HIDE DEF g
<1>4. Adds(v, bound, g, Nat)
    BY <1>2 DEF Adds
<1> QED BY <1>3, <1>4

LEMMA SumOfNone ==
    ASSUME NEW v, NEW bound, Len(v) = 0
    PROVE  Sum(v, bound) = 0
<1>1. PICK g : Adds(v, bound, g, Nat) /\ Sum(v, bound) = g[Len(v)]
    BY SumAdds
<1>2. g[0] = 0
    BY <1>1 DEF Adds
<1> QED BY <1>1, <1>2

\* A sum of one number more.
LEMMA SumGrows ==
    ASSUME NEW v, NEW w, NEW bound, Len(v) \in Nat, Len(w) = Len(v) + 1,
           \A i \in 1 .. Len(v) : w[i] = v[i]
    PROVE  Sum(w, bound) = Capped(Sum(v, bound) + w[Len(v) + 1], bound)
<1>1. PICK g : Adds(v, bound, g, Nat) /\ Sum(v, bound) = g[Len(v)]
    BY SumAdds
<1>2. PICK h : Adds(w, bound, h, Nat) /\ Sum(w, bound) = h[Len(w)]
    BY SumAdds
<1> DEFINE n == Len(v)
           S == {m \in Nat : m <= n => g[m] = h[m]}
<1>3. g = [m \in Nat |-> IF m = 0 THEN 0 ELSE Capped(g[m - 1] + v[m], bound)]
    BY <1>1 DEF Adds
<1>4. h = [m \in Nat |-> IF m = 0 THEN 0 ELSE Capped(h[m - 1] + w[m], bound)]
    BY <1>2 DEF Adds
<1>5. 0 \in S
    BY <1>3, <1>4
<1>6. ASSUME NEW m \in Nat, m \in S, m + 1 <= n PROVE g[m + 1] = h[m + 1]
    <2>1. m + 1 \in Nat /\ m + 1 # 0 /\ (m + 1) - 1 = m /\ m + 1 \in 1 .. n /\ m <= n
        BY <1>6
    <2>2. g[m + 1] = Capped(g[m] + v[m + 1], bound)
        BY <1>3, <2>1
    <2>3. h[m + 1] = Capped(h[m] + w[m + 1], bound)
        BY <1>4, <2>1
    <2>4. g[m] = h[m]
        BY <1>6, <2>1
    <2> QED BY <2>1, <2>2, <2>3, <2>4
<1>7. \A m \in Nat : m \in S => m + 1 \in S
    BY <1>6
<1>8. Nat \subseteq S
    <2> HIDE DEF S
    <2> QED BY <1>5, <1>7, Induction
<1>9. g[n] = h[n]
    BY <1>8
<1>10. h[n + 1] = Capped(h[n] + w[n + 1], bound)
    <2>1. n + 1 \in Nat /\ n + 1 # 0 /\ (n + 1) - 1 = n
        OBVIOUS
    <2> QED BY <1>4, <2>1
<1> QED BY <1>1, <1>2, <1>9, <1>10

\* A sum of numbers is a number, within its bound.
LEMMA SumType ==
    ASSUME NEW v, Len(v) \in Nat, \A i \in 1 .. Len(v) : v[i] \in Nat
    PROVE  /\ Sum(v, {}) \in Nat
           /\ \A max \in Nat : Sum(v, {max}) \in 0 .. max
<1>1. ASSUME NEW bound, NEW N \in SUBSET Nat, 0 \in N,
             \A k \in N, n \in Nat : Capped(k + n, bound) \in N
      PROVE  Sum(v, bound) \in N
    <2>1. PICK g : Adds(v, bound, g, Nat) /\ Sum(v, bound) = g[Len(v)]
        BY SumAdds
    <2>2. g = [m \in Nat |-> IF m = 0 THEN 0 ELSE Capped(g[m - 1] + v[m], bound)]
        BY <2>1 DEF Adds
    <2> DEFINE S == {m \in Nat : m <= Len(v) => g[m] \in N}
    <2>3. 0 \in S
        BY <1>1, <2>2
    <2>4. ASSUME NEW m \in Nat, m \in S, m + 1 <= Len(v) PROVE g[m + 1] \in N
        <3>1. m + 1 \in Nat /\ m + 1 # 0 /\ (m + 1) - 1 = m /\ m + 1 \in 1 .. Len(v)
              /\ m <= Len(v)
            BY <2>4
        <3>2. g[m + 1] = Capped(g[m] + v[m + 1], bound)
            BY <2>2, <3>1
        <3> QED BY <1>1, <2>4, <3>1, <3>2
    <2>5. \A m \in Nat : m \in S => m + 1 \in S
        BY <2>4
    <2>6. Nat \subseteq S
        <3> HIDE DEF S
        <3> QED BY <2>3, <2>5, Induction
    <2> QED BY <2>1, <2>6
<1>2. Sum(v, {}) \in Nat
    <2>1. \A k \in Nat, n \in Nat : Capped(k + n, {}) \in Nat
        BY DEF Capped
    <2> QED BY <1>1, <2>1
<1>3. ASSUME NEW max \in Nat PROVE Sum(v, {max}) \in 0 .. max
    <2>1. \A k \in 0 .. max, n \in Nat : Capped(k + n, {max}) \in 0 .. max
        BY DEF Capped, Upto
    <2>2. 0 .. max \in SUBSET Nat /\ 0 \in 0 .. max
        OBVIOUS
    <2> DEFINE N == 0 .. max
               bound == {max}
    <2> HIDE DEF N, bound
    <2> QED BY <1>1, <2>1, <2>2 DEF N, bound
<1> QED BY <1>2, <1>3

LEMMA CappedValue ==
    /\ \A n : Capped(n, {}) = n
    /\ \A n, max : Capped(n, {max}) = Upto(n, max)
BY DEF Capped
-----------------------------------------------------------------------------
(***************************************************************************)
(* The invariant.                                                          *)
(***************************************************************************)
Pending(d) == \E f \in Range(op) : f.at = d

Announced == {e.breach : e \in Noted}

\* History has kept a report and a Rate of each row.
RowsAreKept ==
    /\ Len(past.reported) = Len(ledger) /\ Len(past.rates) = Len(ledger)
    /\ \A i \in DOMAIN ledger : ledger[i].rate = past.rates[i]

\* However much the columns and the totals lose at the top of their ranges, they
\* do not fall short of a ceiling.
TokensCovered ==
    \A R \in SUBSET Nat :
        Upto(Consumed(R), I64MAX) <= Sum(Inputs(R), {U64MAX}) + Sum(Outputs(R), {U64MAX})

\* What is noted of this Run, its handle has latched.
NotedIsLatched ==
    \A e \in Noted :
        /\ e.breach.run <= run
        /\ held /\ e.breach.run = run
              => <<e.breach.dimension, e.breach.scope>> \in latch

RecordedOnce ==
    \A i, j \in DOMAIN breaches : breaches[i].breach = breaches[j].breach => i = j

\* What is about to act has been noted.
CauseIsNoted ==
    /\ past.acted \subseteq Announced
    /\ \A f \in Range(op) :
          f.at \in {"pause", "halt"} => f.breach \subseteq Announced

\* A dimension at a ceiling is latched, or is yet to be evaluated.
Seen(d) ==
    \/ Pending(d) \/ ~Armed(effective, d) \/ Reached(d) = {}
    \/ \E s \in Scopes : <<d, s>> \in latch

CrossingIsSeen == held /\ past.evaluated => \A d \in Dimensions : Seen(d)

\* What is noted is acted upon, or the action is yet to come.
ActionComes ==
    held /\ state = "running" /\ ~past.excused =>
        \A e \in Noted :
            e.breach.run = run /\ e.action # "warn" => Pending("pause") \/ Pending("halt")

BooksOK == RowsAreKept /\ TokensCovered /\ CostIsClose

LatchOK == NotedIsLatched /\ RecordedOnce /\ CauseIsNoted

ReactionOK == CrossingIsSeen /\ ActionComes

BudgetInv == BudgetTypeOK /\ BooksOK /\ LatchOK /\ ReactionOK
-----------------------------------------------------------------------------
(***************************************************************************)
(* Stacks, and what a step leaves alone.                                   *)
(***************************************************************************)
LEMMA RangePop ==
    ASSUME NEW S, NEW s \in Seq(S), s # <<>>
    PROVE  /\ Tail(s) \in Seq(S) /\ Head(s) \in S
           /\ Range(s) = {Head(s)} \cup Range(Tail(s))
<1>1. Tail(s) \in Seq(S) /\ Head(s) \in S
    OBVIOUS
<1>2. Len(s) \in Nat /\ Len(s) > 0 /\ DOMAIN s = 1 .. Len(s) /\ Head(s) = s[1]
    OBVIOUS
<1>3. DOMAIN Tail(s) = 1 .. (Len(s) - 1)
    BY <1>2
<1>4. \A i \in 1 .. (Len(s) - 1) : Tail(s)[i] = s[i + 1]
    BY <1>2
<1>5. ASSUME NEW x \in Range(s) PROVE x \in {Head(s)} \cup Range(Tail(s))
    <2>1. PICK i \in 1 .. Len(s) : x = s[i]
        BY <1>2 DEF Range
    <2>2. CASE i = 1
        BY <1>2, <2>1, <2>2
    <2>3. CASE i # 1
        <3>1. i - 1 \in 1 .. (Len(s) - 1) /\ (i - 1) + 1 = i
            BY <1>2, <2>3
        <3>2. Tail(s)[i - 1] = x
            BY <1>4, <2>1, <3>1
        <3> QED BY <1>3, <3>1, <3>2 DEF Range
    <2> QED BY <2>2, <2>3
<1>6. ASSUME NEW x \in Range(Tail(s)) PROVE x \in Range(s)
    <2>1. PICK i \in 1 .. (Len(s) - 1) : x = Tail(s)[i]
        BY <1>3 DEF Range
    <2>2. i + 1 \in 1 .. Len(s) /\ x = s[i + 1]
        BY <1>2, <1>4, <2>1
    <2> QED BY <1>2, <2>2 DEF Range
<1>7. Head(s) \in Range(s)
    BY <1>2 DEF Range
<1> QED BY <1>1, <1>5, <1>6, <1>7

LEMMA RangeConcat ==
    ASSUME NEW S, NEW s \in Seq(S), NEW t \in Seq(S)
    PROVE  s \o t \in Seq(S) /\ Range(s \o t) = Range(s) \cup Range(t)
<1>1. s \o t \in Seq(S)
    OBVIOUS
<1>2. /\ Len(s) \in Nat /\ Len(t) \in Nat /\ Len(s \o t) = Len(s) + Len(t)
      /\ DOMAIN s = 1 .. Len(s) /\ DOMAIN t = 1 .. Len(t)
      /\ DOMAIN (s \o t) = 1 .. (Len(s) + Len(t))
    OBVIOUS
<1>3. \A i \in 1 .. Len(s) : (s \o t)[i] = s[i]
    BY <1>2
<1>4. \A i \in 1 .. Len(t) : (s \o t)[Len(s) + i] = t[i]
    BY <1>2
<1>5. ASSUME NEW x \in Range(s \o t) PROVE x \in Range(s) \cup Range(t)
    <2>1. PICK i \in 1 .. (Len(s) + Len(t)) : x = (s \o t)[i]
        BY <1>2 DEF Range
    <2>2. CASE i <= Len(s)
        <3>1. i \in 1 .. Len(s)
            BY <1>2, <2>2
        <3> QED BY <1>2, <1>3, <2>1, <3>1 DEF Range
    <2>3. CASE i > Len(s)
        <3>1. i - Len(s) \in 1 .. Len(t) /\ Len(s) + (i - Len(s)) = i
            BY <1>2, <2>3
        <3>2. t[i - Len(s)] = x
            BY <1>4, <2>1, <3>1
        <3> QED BY <1>2, <3>1, <3>2 DEF Range
    <2> QED BY <1>2, <2>2, <2>3
<1>6. ASSUME NEW x \in Range(s) PROVE x \in Range(s \o t)
    <2>1. PICK i \in 1 .. Len(s) : x = s[i]
        BY <1>2 DEF Range
    <2>2. i \in 1 .. (Len(s) + Len(t))
        BY <1>2
    <2> QED BY <1>2, <1>3, <2>1, <2>2 DEF Range
<1>7. ASSUME NEW x \in Range(t) PROVE x \in Range(s \o t)
    <2>1. PICK i \in 1 .. Len(t) : x = t[i]
        BY <1>2 DEF Range
    <2>2. Len(s) + i \in 1 .. (Len(s) + Len(t))
        BY <1>2
    <2> QED BY <1>2, <1>4, <2>1, <2>2 DEF Range
<1> QED BY <1>1, <1>5, <1>6, <1>7

LEMMA RangeOfFew ==
    /\ Range(<<>>) = {}
    /\ \A x : Range(<<x>>) = {x}
    /\ \A x, y : Range(<<x, y>>) = {x, y}
BY DEF Range

LEMMA RangeAppended ==
    ASSUME NEW S, NEW s \in Seq(S), NEW x \in S
    PROVE  /\ Append(s, x) \in Seq(S) /\ Range(Append(s, x)) = Range(s) \cup {x}
<1>1. Append(s, x) = s \o <<x>>
    OBVIOUS
<1>2. <<x>> \in Seq(S)
    OBVIOUS
<1>3. /\ s \o <<x>> \in Seq(S)
      /\ Range(s \o <<x>>) = Range(s) \cup Range(<<x>>)
    BY <1>2, RangeConcat
<1>4. Range(<<x>>) = {x}
    BY RangeOfFew
<1> QED BY <1>1, <1>3, <1>4
\* The frames and the entries that a step makes have their types.
LEMMA FrameTypes ==
    ASSUME BudgetConstants, BudgetTypeOK
    PROVE  /\ \A d \in Dimensions : Frame(d) \in FrameType
           /\ Frame("stop") \in FrameType
           /\ \A d \in Dimensions, s \in Scopes :
                 /\ Breach(d, s) \in BreachType
                 /\ Entry(Breach(d, s)) \in EntryType
           /\ \A b \in BreachType :
                 /\ ActOn("pause", b) \in FrameType /\ ActOn("halt", b) \in FrameType
                 /\ Consequence(b) \in Seq(FrameType)
<1>1. \A d \in Dimensions : Frame(d) \in FrameType
    BY DEF Frame, FrameType
<1>2. Frame("stop") \in FrameType
    BY DEF Frame, FrameType
<1>3. effective.action \in Actions
    BY DEF BudgetConstants, BudgetTypeOK
<1>4. ASSUME NEW d \in Dimensions, NEW s \in Scopes
      PROVE  Breach(d, s) \in BreachType /\ Entry(Breach(d, s)) \in EntryType
    <2>1. Breach(d, s) \in BreachType
        BY DEF Breach, BreachType, BudgetTypeOK
    <2> QED BY <1>3, <2>1 DEF Entry, EntryType
<1>5. ASSUME NEW b \in BreachType
      PROVE  ActOn("pause", b) \in FrameType /\ ActOn("halt", b) \in FrameType
    BY DEF ActOn, FrameType
<1>6. ASSUME NEW b \in BreachType PROVE Consequence(b) \in Seq(FrameType)
    <2>1. CASE effective.action = "warn"
        BY <2>1 DEF Consequence
    <2>2. CASE effective.action = "pause"
        BY <1>5, <2>2 DEF Consequence
    <2>3. CASE effective.action = "stop"
        BY <1>5, <2>3 DEF Consequence
    <2> QED BY <1>3, <2>1, <2>2, <2>3 DEF Actions
<1> QED BY <1>1, <1>2, <1>4, <1>5, <1>6

LEMMA ReachedAreScopes ==
    \A d, unread : /\ ReachedBut(d, unread) \subseteq Scopes
                   /\ evaluate(d, unread) \subseteq ReachedBut(d, unread)
BY DEF ReachedBut, evaluate

\* The frame on top, and what is below it.
LEMMA Tops ==
    ASSUME BudgetTypeOK, NEW at, Doing(at)
    PROVE  /\ op # <<>> /\ Head(op) \in FrameType /\ Head(op).at = at
           /\ Tail(op) \in Seq(FrameType)
           /\ Range(op) = {Head(op)} \cup Range(Tail(op))
<1>1. op # <<>> /\ op \in Seq(FrameType) /\ Head(op).at = at
    BY DEF Doing, BudgetTypeOK
<1>2. /\ Tail(op) \in Seq(FrameType) /\ Head(op) \in FrameType
      /\ Range(op) = {Head(op)} \cup Range(Tail(op))
    BY <1>1, RangePop
<1> QED BY <1>1, <1>2

LEMMA CauseIsBreach ==
    ASSUME BudgetTypeOK, Doing("pause") \/ Doing("halt")
    PROVE  Cause \in BreachType /\ Head(op).breach = {Cause}
<1>1. Head(op) \in FrameType /\ Head(op).at \in {"pause", "halt"}
    BY Tops
<1>2. PICK b \in BreachType : Head(op).breach = {b}
    BY <1>1 DEF FrameType, Dimensions
<1>3. Cause = b
    BY <1>2 DEF Cause
<1> QED BY <1>2, <1>3

\* What a step writes into history.
LEMMA PastWrites ==
    ASSUME NEW p \in PastType
    PROVE  /\ \A x, y \in BOOLEAN : [p EXCEPT !.excused = x, !.evaluated = y] \in PastType
           /\ \A x \in BOOLEAN : /\ [p EXCEPT !.excused = x] \in PastType
                               /\ [p EXCEPT !.evaluated = x] \in PastType
           /\ \A e \in EntryType :
                 [p EXCEPT !.unrecorded = @ \cup {e}] \in PastType
           /\ \A b \in BreachType :
                 [p EXCEPT !.acted = @ \cup {b}] \in PastType
           /\ \A u \in Usages, r \in RateType :
                 [p EXCEPT !.reported = Append(@, u), !.rates = Append(@, r)]
                    \in PastType
<1>1. ASSUME NEW x \in BOOLEAN, NEW y \in BOOLEAN
      PROVE  [p EXCEPT !.excused = x, !.evaluated = y] \in PastType
    BY DEF PastType
<1>2. ASSUME NEW x \in BOOLEAN
      PROVE  [p EXCEPT !.excused = x] \in PastType /\ [p EXCEPT !.evaluated = x] \in PastType
    BY DEF PastType
<1>3. ASSUME NEW e \in EntryType
      PROVE  [p EXCEPT !.unrecorded = @ \cup {e}] \in PastType
    BY DEF PastType
<1>4. ASSUME NEW b \in BreachType
      PROVE  [p EXCEPT !.acted = @ \cup {b}] \in PastType
    BY DEF PastType
<1>5. ASSUME NEW u \in Usages, NEW r \in RateType
      PROVE  [p EXCEPT !.reported = Append(@, u), !.rates = Append(@, r)] \in PastType
    <2>1. p.reported \in Seq(Usages) /\ p.rates \in Seq(RateType)
        BY DEF PastType
    <2>2. Append(p.reported, u) \in Seq(Usages) /\ Append(p.rates, r) \in Seq(RateType)
        BY <2>1
    <2> QED BY <2>2 DEF PastType
<1> QED BY <1>1, <1>2, <1>3, <1>4, <1>5

\* A stop frame, or the two that evaluate, pushed on a stack.
LEMMA Pushed ==
    ASSUME NEW s \in Seq(FrameType), BudgetConstants, BudgetTypeOK
    PROVE  /\ Range(<<Frame("tokens"), Frame("dollars")>> \o s)
                 = {Frame("tokens"), Frame("dollars")} \cup Range(s)
           /\ Range(<<Frame("stop")>> \o s) = {Frame("stop")} \cup Range(s)
<1>1. Frame("tokens") \in FrameType /\ Frame("dollars") \in FrameType
      /\ Frame("stop") \in FrameType
    BY FrameTypes DEF Dimensions
<1>2. <<Frame("tokens"), Frame("dollars")>> \in Seq(FrameType)
      /\ <<Frame("stop")>> \in Seq(FrameType)
    BY <1>1
<1>3. Range(<<Frame("tokens"), Frame("dollars")>> \o s)
         = Range(<<Frame("tokens"), Frame("dollars")>>) \cup Range(s)
    BY <1>2, RangeConcat
<1>4. Range(<<Frame("stop")>> \o s) = Range(<<Frame("stop")>>) \cup Range(s)
    BY <1>2, RangeConcat
<1> QED BY <1>3, <1>4, RangeOfFew

\* An enforcement starts with a frame per dimension on the stack, or, when the
\* configuration cannot be read, with nothing evaluated.
LEMMA EnforcementStarts ==
    ASSUME BudgetConstants, BudgetTypeOK, NEW s \in Seq(FrameType), NEW k \in PastType,
           NEW n \in Nat, enforcement_starts(s, k, n)
    PROVE  /\ op' \in Seq(FrameType) /\ past' \in PastType /\ changes' \in 0 .. MaxChanges
           /\ past'.reported = k.reported /\ past'.rates = k.rates
           /\ past'.unrecorded = k.unrecorded /\ past'.acted = k.acted
           /\ past'.excused = k.excused
           /\ Range(s) \subseteq Range(op)'
           /\ Range(op)' \subseteq {Frame("tokens"), Frame("dollars")} \cup Range(s)
           /\ past'.evaluated => \A d \in Dimensions : Frame(d) \in Range(op)'
<1>1. changes' \in 0 .. MaxChanges
    <2>1. \E m \in Nat : ReadsFail(m)
        BY DEF enforcement_starts
    <2> QED BY <2>1 DEF ReadsFail, BudgetTypeOK, BudgetConstants
<1>2. /\ past' \in PastType
      /\ past'.reported = k.reported /\ past'.rates = k.rates
      /\ past'.unrecorded = k.unrecorded /\ past'.acted = k.acted
      /\ past'.excused = k.excused
    BY DEF enforcement_starts, PastType
<1>3. Range(op)' = Range(op')
    BY DEF Range
<1>4. CASE op' = <<Frame("tokens"), Frame("dollars")>> \o s
    <2>1. Frame("tokens") \in FrameType /\ Frame("dollars") \in FrameType
        BY FrameTypes DEF Dimensions
    <2>2. <<Frame("tokens"), Frame("dollars")>> \in Seq(FrameType)
        BY <2>1
    <2>3. op' \in Seq(FrameType)
        BY <1>4, <2>2, RangeConcat
    <2>4. Range(op)' = {Frame("tokens"), Frame("dollars")} \cup Range(s)
        BY <1>3, <1>4, Pushed
    <2> QED BY <1>1, <1>2, <2>3, <2>4 DEF Dimensions
<1>5. CASE op' = s /\ past'.evaluated = FALSE
    BY <1>1, <1>2, <1>3, <1>5
<1>6. \/ op' = <<Frame("tokens"), Frame("dollars")>> \o s
      \/ op' = s /\ past'.evaluated = FALSE
    BY DEF enforcement_starts, PastType
<1> QED BY <1>4, <1>5, <1>6

\* A row is committed at a Rate.
Booked(usage, rate) ==
    /\ ledger' = Append(ledger,
            [run |-> run, input |-> clamp_tokens(usage[1]),
             output |-> clamp_tokens(usage[2]), rate |-> rate])
    /\ past'.reported = Append(past.reported, usage)
    /\ past'.rates = Append(past.rates, rate)

\* What an ingested row writes, at the Rate that was read or at none.
LEMMA IngestWrites ==
    ASSUME BudgetConstants, BudgetTypeOK, NEW usage \in Usages, ingest_usage(usage)
    PROVE  \E rate \in RateType :
              /\ Booked(usage, rate)
              /\ past'.unrecorded = past.unrecorded /\ past'.acted = past.acted
              /\ past'.excused = past.excused
              /\ op' \in Seq(FrameType) /\ past' \in PastType
              /\ changes' \in 0 .. MaxChanges
              /\ Range(op) \subseteq Range(op)'
              /\ Range(op)' \subseteq {Frame("tokens"), Frame("dollars")} \cup Range(op)
              /\ past'.evaluated => \A d \in Dimensions : Frame(d) \in Range(op)'
<1> DEFINE kept(rate) == [past EXCEPT !.reported = Append(@, usage),
                                      !.rates = Append(@, rate)]
<1>1. past \in PastType /\ op \in Seq(FrameType) /\ effective \in Configs
    BY DEF BudgetTypeOK
<1>2. PICK rate \in {Rate(effective), {}} :
          /\ ledger' = Append(ledger,
                  [run |-> run, input |-> clamp_tokens(usage[1]),
                   output |-> clamp_tokens(usage[2]), rate |-> rate])
          /\ enforcement_starts(op, kept(rate), IF rate = Rate(effective) THEN 0 ELSE 1)
    BY DEF ingest_usage
<1>3. rate \in RateType
    BY <1>1 DEF RateType
<1>4. kept(rate) \in PastType
    BY <1>1, <1>3, PastWrites
<1>5. /\ kept(rate).reported = Append(past.reported, usage)
      /\ kept(rate).rates = Append(past.rates, rate)
      /\ kept(rate).unrecorded = past.unrecorded /\ kept(rate).acted = past.acted
      /\ kept(rate).excused = past.excused
    BY <1>1 DEF PastType
<1>6. PICK n \in Nat : enforcement_starts(op, kept(rate), n)
    BY <1>2
<1> HIDE DEF kept
<1>7. /\ op' \in Seq(FrameType) /\ past' \in PastType /\ changes' \in 0 .. MaxChanges
      /\ past'.reported = kept(rate).reported /\ past'.rates = kept(rate).rates
      /\ past'.unrecorded = kept(rate).unrecorded /\ past'.acted = kept(rate).acted
      /\ past'.excused = kept(rate).excused
      /\ Range(op) \subseteq Range(op)'
      /\ Range(op)' \subseteq {Frame("tokens"), Frame("dollars")} \cup Range(op)
      /\ past'.evaluated => \A d \in Dimensions : Frame(d) \in Range(op)'
    BY <1>1, <1>4, <1>6, EnforcementStarts
<1> QED BY <1>2, <1>3, <1>5, <1>7 DEF Booked

\* What opening another engine writes.
LEMMA ReopenWrites ==
    ASSUME BudgetConstants, BudgetTypeOK, engine_killed
    PROVE  /\ op' \in Seq(FrameType) /\ past' \in PastType
           /\ changes' \in 0 .. MaxChanges
           /\ past'.reported = past.reported /\ past'.rates = past.rates
           /\ past'.unrecorded = past.unrecorded /\ past'.acted = past.acted
           /\ run' = run + 1 \/ (run' = run /\ held' = FALSE)
           /\ Range(op)' \subseteq {Frame("tokens"), Frame("dollars")}
           /\ held' /\ past'.evaluated => \A d \in Dimensions : Frame(d) \in Range(op)'
<1> DEFINE kept == [past EXCEPT !.excused = FALSE]
<1>1. past \in PastType /\ <<>> \in Seq(FrameType) /\ changes \in 0 .. MaxChanges
    BY DEF BudgetTypeOK
<1>2. CASE NewRun /\ enforcement_starts(<<>>, kept, 0)
    <2>1. /\ kept \in PastType
          /\ kept.reported = past.reported /\ kept.rates = past.rates
          /\ kept.unrecorded = past.unrecorded /\ kept.acted = past.acted
        BY <1>1 DEF PastType
    <2> HIDE DEF kept
    <2>2. /\ op' \in Seq(FrameType) /\ past' \in PastType
          /\ changes' \in 0 .. MaxChanges
          /\ past'.reported = kept.reported /\ past'.rates = kept.rates
          /\ past'.unrecorded = kept.unrecorded /\ past'.acted = kept.acted
          /\ Range(op)' \subseteq {Frame("tokens"), Frame("dollars")} \cup Range(<<>>)
          /\ past'.evaluated => \A d \in Dimensions : Frame(d) \in Range(op)'
        BY <1>1, <1>2, <2>1, EnforcementStarts
    <2>3. run' = run + 1
        BY <1>2 DEF NewRun
    <2> QED BY <2>1, <2>2, <2>3, RangeOfFew
<1>3. CASE held' = FALSE /\ op' = <<>> /\ UNCHANGED <<changes, run, past>>
    <2>1. Range(op)' = {}
        BY <1>3, RangeOfFew DEF Range
    <2> QED BY <1>1, <1>3, <2>1
<1>4. \/ NewRun /\ enforcement_starts(<<>>, kept, 0)
      \/ held' = FALSE /\ op' = <<>> /\ UNCHANGED <<changes, run, past>>
    BY DEF engine_killed, reopen
<1> QED BY <1>2, <1>3, <1>4

LEMMA BudgetStepTypes ==
    ASSUME BudgetConstants, BudgetTypeOK, [BudgetNext]_budgetVars
    PROVE  BudgetTypeOK'
<1> USE DEF BudgetTypeOK
<1>0. MaxRuns \in Nat /\ MaxChanges \in Nat
    BY DEF BudgetConstants
<1>1. ASSUME NEW usage \in Usages, ingest_usage(usage) PROVE BudgetTypeOK'
    <2>1. usage[1] \in Nat /\ usage[2] \in Nat
        BY DEF BudgetConstants
    <2>2. clamp_tokens(usage[1]) \in 0 .. I64MAX /\ clamp_tokens(usage[2]) \in 0 .. I64MAX
        BY <2>1 DEF clamp_tokens, Upto, BudgetConstants
    <2>3. PICK rate \in RateType :
              /\ Booked(usage, rate)
              /\ op' \in Seq(FrameType) /\ past' \in PastType
              /\ changes' \in 0 .. MaxChanges
        BY <1>1, IngestWrites
    <2> DEFINE r == [run |-> run, input |-> clamp_tokens(usage[1]),
                     output |-> clamp_tokens(usage[2]), rate |-> rate]
    <2>4. r \in RowType /\ ledger' = Append(ledger, r)
        BY <2>2, <2>3 DEF Booked, RowType
    <2>5. ledger' \in Seq(RowType)
        <3> HIDE DEF r
        <3> QED BY <2>4
    <2> QED BY <1>1, <2>3, <2>5 DEF ingest_usage
<1>2. ASSUME NEW d \in Dimensions, enforce_budget(d) PROVE BudgetTypeOK'
    <2>1. Tail(op) \in Seq(FrameType)
        BY <1>2, Tops DEF enforce_budget
    <2>2. /\ changes' \in 0 .. MaxChanges
          /\ UNCHANGED <<effective, ledger, run, state, held>>
        <3>1. UNCHANGED changes \/ \E n \in Nat : ReadsFail(n)
            BY <1>2 DEF enforce_budget
        <3> QED BY <1>0, <1>2, <3>1 DEF enforce_budget, ReadsFail
    <2>3. CASE Pop /\ UNCHANGED <<latch, breaches, past>>
        BY <2>1, <2>2, <2>3 DEF Pop
    <2>4. ASSUME NEW unread, passes(d, unread) PROVE BudgetTypeOK'
        <3>1. past' \in PastType
            <4>1. past' = [past EXCEPT !.evaluated = past.evaluated /\ unread = {}]
                BY <2>4 DEF passes, PastType
            <4>2. (past.evaluated /\ unread = {}) \in BOOLEAN
                OBVIOUS
            <4> QED BY <4>1, <4>2, PastWrites
        <3> QED BY <2>1, <2>2, <2>4, <3>1 DEF passes, Pop
    <2>5. ASSUME NEW unread, NEW s \in evaluate(d, unread), apply_breach(d, s)
          PROVE  BudgetTypeOK'
        <3>1. s \in Scopes
            BY ReachedAreScopes
        <3> DEFINE b == Breach(d, s)
        <3>2. b \in BreachType /\ Entry(b) \in EntryType /\ Consequence(b) \in Seq(FrameType)
            BY <3>1, FrameTypes
        <3> HIDE DEF b
        <3>3. op' = Consequence(b) \o Tail(op) /\ latch' = latch \cup {<<d, s>>}
            BY <2>5 DEF apply_breach, b
        <3>4. op' \in Seq(FrameType)
            BY <2>1, <3>2, <3>3, RangeConcat
        <3>5. CASE Record(b) /\ UNCHANGED past
            BY <2>2, <3>1, <3>2, <3>3, <3>4, <3>5 DEF Record
        <3>6. CASE past' = [past EXCEPT !.unrecorded = @ \cup {Entry(b)}] /\ UNCHANGED breaches
            <4>1. past' \in PastType
                BY <3>2, <3>6, PastWrites
            <4> QED BY <2>2, <3>1, <3>3, <3>4, <3>6, <4>1
        <3> QED BY <2>5, <3>5, <3>6 DEF apply_breach, b
    <2> QED BY <1>2, <2>3, <2>4, <2>5 DEF enforce_budget
<1>3. CASE enforce_pause
    <2>1. Tail(op) \in Seq(FrameType)
        BY <1>3, Tops DEF enforce_pause
    <2>2. past' \in PastType
        BY <1>3, CauseIsBreach, PastWrites DEF enforce_pause, Stamp, Excuse
    <2> QED BY <1>3, <2>1, <2>2 DEF enforce_pause, Pop
<1>4. CASE enforce_stop
    <2>1. Tail(op) \in Seq(FrameType)
        BY <1>4, Tops DEF enforce_stop
    <2>2. <<Frame("stop")>> \o Tail(op) \in Seq(FrameType)
        BY <2>1, FrameTypes
    <2>3. past' \in PastType
        BY <1>4, CauseIsBreach, PastWrites DEF enforce_stop, Stamp, Excuse
    <2> QED BY <1>4, <2>1, <2>2, <2>3 DEF enforce_stop, Pop
<1>5. CASE stop_ends
    <2>1. Tail(op) \in Seq(FrameType)
        BY <1>5, Tops DEF stop_ends
    <2>2. past' \in PastType
        BY <1>5, PastWrites DEF stop_ends, Excuse
    <2> QED BY <1>5, <2>1, <2>2 DEF stop_ends, Pop
<1>6. CASE start_inner
    <2>1. past' \in PastType
        BY <1>6, PastWrites DEF start_inner
    <2>2. run' \in 0 .. MaxRuns
        BY <1>0, <1>6 DEF start_inner, NewRun
    <2> QED BY <1>6, <2>1, <2>2 DEF start_inner, NewRun
<1>7. CASE stop_inner
    <2>1. <<Frame("stop")>> \in Seq(FrameType)
        BY FrameTypes
    <2> QED BY <1>7, <2>1 DEF stop_inner
<1>8. CASE resume
    BY <1>8, PastWrites DEF resume, Excuse
<1>9. CASE set_ceilings
    <2>1. past' \in PastType
        BY <1>9, PastWrites DEF set_ceilings
    <2>2. changes' \in 0 .. MaxChanges
        BY <1>0, <1>9 DEF set_ceilings
    <2> QED BY <1>9, <2>1, <2>2 DEF set_ceilings
<1>10. CASE reap
    BY <1>10 DEF reap
<1>11. CASE engine_killed
    <2>1. op' \in Seq(FrameType) /\ past' \in PastType /\ changes' \in 0 .. MaxChanges
        BY <1>11, ReopenWrites
    <2>2. run' \in 0 .. MaxRuns
        BY <1>0, <1>11 DEF engine_killed, reopen, NewRun
    <2>3. /\ state' \in {"running", "paused", "stopping", "stopped", "failed"}
          /\ held' \in BOOLEAN /\ latch' \subseteq Dimensions \X Scopes
        BY <1>11 DEF engine_killed, reopen, NewRun
    <2> QED BY <1>11, <2>1, <2>2, <2>3 DEF engine_killed
<1>12. CASE UNCHANGED budgetVars
    BY <1>12 DEF budgetVars
<1> QED
    BY <1>1, <1>2, <1>3, <1>4, <1>5, <1>6, <1>7, <1>8, <1>9, <1>10, <1>11, <1>12
    DEF BudgetNext
-----------------------------------------------------------------------------
(***************************************************************************)
(* The books: what the totals show of what was reported.                   *)
(***************************************************************************)
LEMMA UptoValue ==
    ASSUME NEW n \in Nat, NEW max \in Nat
    PROVE  /\ Upto(n, max) \in 0 .. max /\ Upto(n, max) <= n
           /\ Upto(n, max) = n \/ Upto(n, max) = max
           /\ Upto(n, max) # n => Upto(n, max) = max /\ max <= n
BY DEF Upto

LEMMA TokensStep ==
    ASSUME NEW I \in Nat, NEW U \in Nat, I < U,
           NEW X \in 0 .. U, NEW Y \in 0 .. U, NEW Z \in Nat, Upto(Z, I) <= X + Y,
           NEW x \in Nat, NEW y \in Nat, NEW z \in Nat,
           z <= x + y \/ I <= x \/ I <= y
    PROVE  Upto(Z + z, I) <= Upto(X + x, U) + Upto(Y + y, U)
BY DEF Upto

\* The price of a number of tokens, times MICROS_PER_DOLLAR, is off by half of
\* it, unless it is out of range.
LEMMA DirectionIsClose ==
    ASSUME BudgetConstants, NEW t \in Nat, NEW p \in Nat
    PROVE  /\ PerDirection(t, p) \in 0 .. I64MAX
           /\ 2 * (PerDirection(t, p) * MICROS_PER_DOLLAR) <= 2 * (t * p) + MICROS_PER_DOLLAR
           /\ \/ 2 * (t * p) <= 2 * (PerDirection(t, p) * MICROS_PER_DOLLAR) + MICROS_PER_DOLLAR
              \/ PerDirection(t, p) = I64MAX
<1> DEFINE M == MICROS_PER_DOLLAR
           a == t * p + M \div 2
           q == a \div M
           d == PerDirection(t, p)
<1>1. M \in Nat \ {0} /\ I64MAX \in Nat
    BY DEF BudgetConstants
<1>2. t * p \in Nat
    OBVIOUS
<1>3. M \div 2 \in Nat /\ 2 * (M \div 2) <= M /\ M <= 2 * (M \div 2) + 1
    <2> HIDE DEF M
    <2> QED BY <1>1
<1>4. a \in Nat
    BY <1>2, <1>3
<1>5. q \in Nat /\ q * M <= a /\ a < q * M + M
    <2> HIDE DEF M, a
    <2> QED BY <1>1, <1>4
<1>6. d = Upto(q, I64MAX)
    BY DEF PerDirection
<1>7. d \in 0 .. I64MAX /\ d <= q /\ (d = q \/ d = I64MAX)
    <2> HIDE DEF d, q
    <2> QED BY <1>1, <1>5, <1>6, UptoValue
<1>8. d * M <= q * M
    <2> HIDE DEF d, q, M
    <2> QED BY <1>1, <1>5, <1>7
<1>9. q * M \in Nat /\ d * M \in Nat
    <2> HIDE DEF d, q, M
    <2> QED BY <1>1, <1>5, <1>7
<1>10. 2 * (d * M) <= 2 * (t * p) + M
    <2> DEFINE dm == d * M
               qm == q * M
               tp == t * p
               h  == M \div 2
    <2>1. dm <= qm /\ qm <= tp + h /\ 2 * h <= M /\ dm \in Nat /\ qm \in Nat /\ tp \in Nat
          /\ h \in Nat /\ M \in Nat
        BY <1>1, <1>2, <1>3, <1>5, <1>8, <1>9
    <2> HIDE DEF dm, qm, tp, h, M
    <2>2. 2 * dm <= 2 * tp + M
        BY <2>1
    <2> QED BY <2>2 DEF dm, tp
<1>11. 2 * (t * p) <= 2 * (q * M) + M
    <2> DEFINE qm == q * M
               tp == t * p
               h  == M \div 2
    <2>1. tp + h < qm + M /\ M <= 2 * h + 1 /\ qm \in Nat /\ tp \in Nat
          /\ h \in Nat /\ M \in Nat
        BY <1>1, <1>2, <1>3, <1>5, <1>9
    <2> HIDE DEF qm, tp, h, M
    <2>2. 2 * tp <= 2 * qm + M
        BY <2>1
    <2> QED BY <2>2 DEF qm, tp
<1> HIDE DEF d, q, M, a
<1>12. 2 * (t * p) <= 2 * (d * M) + M \/ d = I64MAX
    BY <1>7, <1>11
<1> QED BY <1>7, <1>10, <1>12 DEF d, M

LEMMA CostMicrosIsClose ==
    ASSUME BudgetConstants, NEW i \in Nat, NEW o \in Nat, NEW p \in Nat, NEW q \in Nat
    PROVE  /\ cost_micros(i, o, <<p, q>>) \in 0 .. I64MAX
           /\ cost_micros(i, o, <<p, q>>) * MICROS_PER_DOLLAR
                - (i * p + o * q) <= MICROS_PER_DOLLAR
           /\ \/ (i * p + o * q)
                    - cost_micros(i, o, <<p, q>>) * MICROS_PER_DOLLAR <= MICROS_PER_DOLLAR
              \/ cost_micros(i, o, <<p, q>>) = I64MAX
<1> DEFINE M == MICROS_PER_DOLLAR
           a == PerDirection(i, p)
           b == PerDirection(o, q)
           c == cost_micros(i, o, <<p, q>>)
           x == i * p
           y == o * q
<1>1. M \in Nat /\ I64MAX \in Nat /\ x \in Nat /\ y \in Nat
    BY DEF BudgetConstants
<1>2. /\ a \in 0 .. I64MAX
      /\ 2 * (a * M) <= 2 * x + M
      /\ 2 * x <= 2 * (a * M) + M \/ a = I64MAX
    BY DirectionIsClose
<1>3. /\ b \in 0 .. I64MAX
      /\ 2 * (b * M) <= 2 * y + M
      /\ 2 * y <= 2 * (b * M) + M \/ b = I64MAX
    BY DirectionIsClose
<1>4. c = Upto(a + b, I64MAX)
    BY DEF cost_micros
<1> HIDE DEF M, a, b, c, x, y
<1>5. a + b \in Nat
    BY <1>1, <1>2, <1>3
<1>6. c \in 0 .. I64MAX /\ c <= a + b /\ (c = a + b \/ c = I64MAX)
    BY <1>1, <1>4, <1>5, UptoValue
<1>7. a * M \in Nat /\ b * M \in Nat /\ c * M \in Nat /\ (a + b) * M = a * M + b * M
    BY <1>1, <1>2, <1>3, <1>6
<1>8. c * M <= a * M + b * M
    <2>1. c * M <= (a + b) * M
        BY <1>1, <1>5, <1>6
    <2> QED BY <1>7, <2>1
<1>9. c * M - (x + y) <= M
    <2> DEFINE am == a * M
               bm == b * M
               cm == c * M
    <2>1. 2 * am <= 2 * x + M /\ 2 * bm <= 2 * y + M /\ cm <= am + bm
          /\ am \in Nat /\ bm \in Nat /\ cm \in Nat
        BY <1>2, <1>3, <1>7, <1>8
    <2> HIDE DEF am, bm, cm
    <2>2. cm - (x + y) <= M
        BY <1>1, <2>1
    <2> QED BY <2>2 DEF cm
<1>10. ASSUME c # I64MAX PROVE (x + y) - c * M <= M
    <2> DEFINE am == a * M
               bm == b * M
               cm == c * M
    <2>1. c = a + b /\ a # I64MAX /\ b # I64MAX
        BY <1>1, <1>2, <1>3, <1>6, <1>10
    <2>2. cm = am + bm
        BY <1>7, <2>1
    <2>3. 2 * x <= 2 * am + M /\ 2 * y <= 2 * bm + M /\ am \in Nat /\ bm \in Nat
        BY <1>2, <1>3, <1>7, <2>1
    <2> HIDE DEF am, bm, cm
    <2>4. (x + y) - cm <= M
        BY <1>1, <2>2, <2>3
    <2> QED BY <2>4 DEF cm
<1> QED BY <1>6, <1>9, <1>10 DEF c, M, x, y

\* A total C of n rows is close to their exact cost E.
Close(n, C, E) ==
    /\ C \in 0 .. I64MAX /\ E \in Nat
    /\ C * MICROS_PER_DOLLAR - E <= n * MICROS_PER_DOLLAR
    /\ E - C * MICROS_PER_DOLLAR <= n * MICROS_PER_DOLLAR \/ C = I64MAX

LEMMA CostStep ==
    ASSUME BudgetConstants, NEW n \in Nat, NEW C, NEW E, Close(n, C, E),
           NEW c, NEW e, Close(1, c, e)
    PROVE  Close(n + 1, Upto(C + c, I64MAX), E + e)
<1> DEFINE I == I64MAX
           M == MICROS_PER_DOLLAR
           D == Upto(C + c, I)
<1>0. /\ I \in Nat /\ M \in Nat /\ C \in 0 .. I /\ c \in 0 .. I /\ E \in Nat /\ e \in Nat
      /\ C * M - E <= n * M /\ (E - C * M <= n * M \/ C = I)
      /\ c * M - e <= M /\ (e - c * M <= M \/ c = I)
    BY DEF Close, BudgetConstants
<1> HIDE DEF I, M, D
<1>1. D \in 0 .. I /\ D <= C + c /\ (D = C + c \/ D = I)
    BY <1>0 DEF D, Upto
<1>2. (C + c) * M = C * M + c * M /\ (n + 1) * M = n * M + M
    BY <1>0
<1>3. D * M <= (C + c) * M
    BY <1>0, <1>1
<1>4. C * M \in Nat /\ c * M \in Nat /\ D * M \in Nat /\ n * M \in Nat
    BY <1>0, <1>1
<1>5. D * M - (E + e) <= (n + 1) * M
    BY <1>0, <1>2, <1>3, <1>4
<1>6. ASSUME D # I PROVE (E + e) - D * M <= (n + 1) * M
    <2>1. D = C + c /\ C # I /\ c # I
        BY <1>0, <1>1, <1>6
    <2> QED BY <1>0, <1>2, <1>4, <2>1
<1> QED BY <1>0, <1>1, <1>5, <1>6 DEF Close, D, I, M

\* A row's cost, by the Rate it was committed with.
LEMMA RowCostIsClose ==
    ASSUME BudgetConstants, NEW e, e.input \in Nat, e.output \in Nat, NEW r \in RateType,
           e.rate = r
    PROVE  /\ RowCost(e) \in 0 .. I64MAX /\ ExactRowCost(e, r) \in Nat
           /\ RowCost(e) * MICROS_PER_DOLLAR - ExactRowCost(e, r) <= MICROS_PER_DOLLAR
           /\ \/ ExactRowCost(e, r) - RowCost(e) * MICROS_PER_DOLLAR <= MICROS_PER_DOLLAR
              \/ RowCost(e) = I64MAX
<1>1. MICROS_PER_DOLLAR \in Nat /\ I64MAX \in Nat
    BY DEF BudgetConstants
<1>2. CASE r = {}
    <2>1. RowCost(e) = 0 /\ ExactRowCost(e, r) = 0
        BY <1>2 DEF RowCost, ExactRowCost
    <2>2. 0 * MICROS_PER_DOLLAR = 0
        BY <1>1
    <2> QED BY <1>1, <2>1, <2>2
<1>3. CASE r # {}
    <2> DEFINE x == CHOOSE x \in r : TRUE
    <2>1. x \in r
        BY <1>3
    <2>2. PICK c \in Configs : r = c.input_rate \X c.output_rate
        BY <1>3 DEF RateType, Rate
    <2>3. c.input_rate \subseteq Nat /\ c.output_rate \subseteq Nat
        BY DEF BudgetConstants
    <2>4. x[1] \in Nat /\ x[2] \in Nat /\ x = <<x[1], x[2]>>
        <3> HIDE DEF x
        <3> QED BY <2>1, <2>2, <2>3
    <2>5. RowCost(e) = cost_micros(e.input, e.output, x)
        BY <1>3 DEF RowCost
    <2>6. ExactRowCost(e, r) = e.input * x[1] + e.output * x[2]
        BY <1>3 DEF ExactRowCost
    <2> HIDE DEF x
    <2>7. /\ cost_micros(e.input, e.output, <<x[1], x[2]>>) \in 0 .. I64MAX
          /\ cost_micros(e.input, e.output, <<x[1], x[2]>>) * MICROS_PER_DOLLAR
                - (e.input * x[1] + e.output * x[2]) <= MICROS_PER_DOLLAR
          /\ \/ (e.input * x[1] + e.output * x[2])
                    - cost_micros(e.input, e.output, <<x[1], x[2]>>) * MICROS_PER_DOLLAR
                        <= MICROS_PER_DOLLAR
             \/ cost_micros(e.input, e.output, <<x[1], x[2]>>) = I64MAX
        BY <2>4, CostMicrosIsClose
    <2>8. e.input * x[1] + e.output * x[2] \in Nat
        <3>1. e.input * x[1] \in Nat /\ e.output * x[2] \in Nat
            BY <2>4
        <3> QED BY <3>1
    <2> QED BY <2>4, <2>5, <2>6, <2>7, <2>8
<1> QED BY <1>2, <1>3

\* One more number goes on n others.
Longer(v, w, n, x) ==
    /\ Len(v) = n /\ Len(w) = n + 1 /\ w[n + 1] = x
    /\ \A i \in 1 .. n : w[i] = v[i] /\ v[i] \in Nat

\* What one more number adds to a sum, without and with a bound.
LEMMA SumOfOneMore ==
    ASSUME NEW v, NEW w, NEW n \in Nat, NEW x \in Nat, Longer(v, w, n, x)
    PROVE  /\ \A i \in 1 .. Len(v) : v[i] \in Nat
           /\ \A bound : Sum(w, bound) = Capped(Sum(v, bound) + x, bound)
<1> USE DEF Longer
<1>1. \A i \in 1 .. Len(v) : v[i] \in Nat
    OBVIOUS
<1>2. \A bound : Sum(w, bound) = Capped(Sum(v, bound) + x, bound)
    BY SumGrows
<1> QED BY <1>1, <1>2

LEMMA TotalsGrow ==
    ASSUME NEW v, NEW w, NEW n \in Nat, NEW x \in Nat, Longer(v, w, n, x)
    PROVE  Sum(v, {}) \in Nat /\ Sum(w, {}) = Sum(v, {}) + x
<1>1. /\ \A i \in 1 .. Len(v) : v[i] \in Nat
      /\ Sum(w, {}) = Capped(Sum(v, {}) + x, {})
    BY SumOfOneMore
<1>2. Len(v) = n
    BY DEF Longer
<1>3. Sum(v, {}) \in Nat
    BY <1>1, <1>2, SumType
<1> QED BY <1>1, <1>3, CappedValue

LEMMA TotalGrows ==
    ASSUME NEW v, NEW w, NEW n \in Nat, NEW x \in Nat, Longer(v, w, n, x),
           NEW max \in Nat
    PROVE  /\ Sum(v, {max}) \in 0 .. max
           /\ Sum(w, {max}) = Upto(Sum(v, {max}) + x, max)
<1>1. /\ \A i \in 1 .. Len(v) : v[i] \in Nat
      /\ Sum(w, {max}) = Capped(Sum(v, {max}) + x, {max})
    BY SumOfOneMore
<1>2. Len(v) = n
    BY DEF Longer
<1>3. Sum(v, {max}) \in 0 .. max
    BY <1>1, <1>2, SumType
<1> QED BY <1>1, <1>3, CappedValue

\* A row committed at a Rate, or at none, is booked.
LEMMA RowIsBooked ==
    ASSUME BudgetConstants, BudgetTypeOK, BudgetTypeOK', BooksOK,
           NEW usage \in Usages, NEW rate \in RateType,
           Booked(usage, rate)
    PROVE  BooksOK'
<1> DEFINE n == Len(ledger)
           r == [run |-> run, input |-> clamp_tokens(usage[1]),
                 output |-> clamp_tokens(usage[2]), rate |-> rate]
<1>1. /\ usage[1] \in Nat /\ usage[2] \in Nat /\ I64MAX \in Nat /\ U64MAX \in Nat
      /\ I64MAX < U64MAX /\ MICROS_PER_DOLLAR \in Nat
    BY DEF BudgetConstants
<1>2. /\ clamp_tokens(usage[1]) \in 0 .. I64MAX /\ clamp_tokens(usage[2]) \in 0 .. I64MAX
      /\ clamp_tokens(usage[1]) = usage[1] \/ clamp_tokens(usage[1]) = I64MAX
      /\ clamp_tokens(usage[2]) = usage[2] \/ clamp_tokens(usage[2]) = I64MAX
    BY <1>1, UptoValue DEF clamp_tokens
<1>3. /\ ledger \in Seq(RowType) /\ past.reported \in Seq(Usages)
      /\ past.rates \in Seq(RateType) /\ past \in PastType
    BY DEF BudgetTypeOK, PastType
<1>4. /\ n \in Nat /\ Len(past.reported) = n /\ Len(past.rates) = n
      /\ DOMAIN ledger = 1 .. n
    BY <1>3 DEF BooksOK, RowsAreKept
<1>5. /\ ledger' = Append(ledger, r)
      /\ past'.reported = Append(past.reported, usage)
      /\ past'.rates = Append(past.rates, rate)
    BY DEF Booked
<1> HIDE DEF r
<1>6. /\ Len(ledger') = n + 1 /\ DOMAIN ledger' = 1 .. n + 1
      /\ \A i \in 1 .. n : ledger'[i] = ledger[i]
      /\ ledger'[n + 1] = r
    <2> HIDE DEF n
    <2> QED BY <1>3, <1>4, <1>5 DEF n
<1>7. /\ Len(past'.reported) = n + 1
      /\ \A i \in 1 .. n : past'.reported[i] = past.reported[i]
      /\ past'.reported[n + 1] = usage
    BY <1>3, <1>4, <1>5
<1>8. /\ Len(past'.rates) = n + 1
      /\ \A i \in 1 .. n : past'.rates[i] = past.rates[i]
      /\ past'.rates[n + 1] = rate
    BY <1>3, <1>4, <1>5
<1>9. r.run = run /\ r.input = clamp_tokens(usage[1]) /\ r.output = clamp_tokens(usage[2])
      /\ r.rate = rate /\ rate \in RateType
    BY DEF r
<1>10. \A i \in 1 .. n : /\ ledger[i].input \in Nat /\ ledger[i].output \in Nat
                         /\ ledger[i].rate \in RateType
                         /\ ledger[i].rate = past.rates[i]
                         /\ past.reported[i][1] \in Nat /\ past.reported[i][2] \in Nat
    <2> SUFFICES ASSUME NEW i \in 1 .. n
                 PROVE  /\ ledger[i].input \in Nat /\ ledger[i].output \in Nat
                        /\ ledger[i].rate \in RateType
                        /\ ledger[i].rate = past.rates[i]
                        /\ past.reported[i][1] \in Nat /\ past.reported[i][2] \in Nat
        OBVIOUS
    <2>1. ledger[i] \in RowType /\ past.reported[i] \in Usages
        BY <1>3, <1>4
    <2>2. ledger[i].rate = past.rates[i]
        BY <1>4 DEF BooksOK, RowsAreKept
    <2>3. past.reported[i][1] \in Nat /\ past.reported[i][2] \in Nat
        BY <2>1 DEF BudgetConstants
    <2> QED BY <1>1, <2>1, <2>2, <2>3 DEF RowType
<1>11. RowsAreKept'
    <2>1. \A i \in 1 .. n + 1 : ledger'[i].rate = past'.rates[i]
        <3> SUFFICES ASSUME NEW i \in 1 .. n + 1 PROVE ledger'[i].rate = past'.rates[i]
            OBVIOUS
        <3>1. CASE i \in 1 .. n
            BY <1>6, <1>8, <1>10, <3>1
        <3>2. CASE i = n + 1
            BY <1>6, <1>8, <1>9, <3>2
        <3> QED BY <1>4, <3>1, <3>2
    <2> QED BY <1>6, <1>7, <1>8, <2>1 DEF RowsAreKept
<1> HIDE DEF n
<1>12. TokensCovered'
    <2> SUFFICES ASSUME NEW R \in SUBSET Nat
                 PROVE  Upto(Consumed(R)', I64MAX)
                           <= Sum(Inputs(R)', {U64MAX}) + Sum(Outputs(R)', {U64MAX})
        BY DEF TokensCovered
    <2> DEFINE take(m) == IF run \in R THEN m ELSE 0
    <2>1. /\ Sum(Inputs(R), {U64MAX}) \in 0 .. U64MAX
          /\ Sum(Inputs(R)', {U64MAX})
                = Upto(Sum(Inputs(R), {U64MAX}) + take(clamp_tokens(usage[1])), U64MAX)
        <3> DEFINE v == Inputs(R)
                   w == Inputs(R)'
        <3>1. Len(v) = n /\ Len(w) = n + 1
            BY <1>4, <1>6 DEF Inputs
        <3>2. \A i \in 1 .. n : w[i] = v[i] /\ v[i] \in Nat
            BY <1>4, <1>6, <1>10 DEF Inputs, Of
        <3>3. w[n + 1] = take(clamp_tokens(usage[1])) /\ take(clamp_tokens(usage[1])) \in Nat
            BY <1>2, <1>4, <1>6, <1>9 DEF Inputs, Of
        <3> DEFINE x == take(clamp_tokens(usage[1]))
        <3>4. Longer(v, w, n, x) /\ x \in Nat
            BY <3>1, <3>2, <3>3 DEF Longer
        <3> HIDE DEF v, w, x
        <3>5. /\ Sum(v, {U64MAX}) \in 0 .. U64MAX
              /\ Sum(w, {U64MAX}) = Upto(Sum(v, {U64MAX}) + x, U64MAX)
            BY <1>1, <1>4, <3>4, TotalGrows
        <3> QED BY <3>5 DEF v, w, x
    <2>2. /\ Sum(Outputs(R), {U64MAX}) \in 0 .. U64MAX
          /\ Sum(Outputs(R)', {U64MAX})
                = Upto(Sum(Outputs(R), {U64MAX}) + take(clamp_tokens(usage[2])), U64MAX)
        <3> DEFINE v == Outputs(R)
                   w == Outputs(R)'
        <3>1. Len(v) = n /\ Len(w) = n + 1
            BY <1>4, <1>6 DEF Outputs
        <3>2. \A i \in 1 .. n : w[i] = v[i] /\ v[i] \in Nat
            BY <1>4, <1>6, <1>10 DEF Outputs, Of
        <3>3. w[n + 1] = take(clamp_tokens(usage[2])) /\ take(clamp_tokens(usage[2])) \in Nat
            BY <1>2, <1>4, <1>6, <1>9 DEF Outputs, Of
        <3> DEFINE x == take(clamp_tokens(usage[2]))
        <3>4. Longer(v, w, n, x) /\ x \in Nat
            BY <3>1, <3>2, <3>3 DEF Longer
        <3> HIDE DEF v, w, x
        <3>5. /\ Sum(v, {U64MAX}) \in 0 .. U64MAX
              /\ Sum(w, {U64MAX}) = Upto(Sum(v, {U64MAX}) + x, U64MAX)
            BY <1>1, <1>4, <3>4, TotalGrows
        <3> QED BY <3>5 DEF v, w, x
    <2>3. Consumed(R) \in Nat /\ Consumed(R)' = Consumed(R) + take(usage[1] + usage[2])
        <3> DEFINE v == [i \in DOMAIN ledger |->
                            Of(R, i, past.reported[i][1] + past.reported[i][2])]
                   w == [i \in DOMAIN ledger' |->
                            Of(R, i, past.reported[i][1] + past.reported[i][2])']
        <3>1. Len(v) = n /\ Len(w) = n + 1
            BY <1>4, <1>6
        <3>2. \A i \in 1 .. n : w[i] = v[i] /\ v[i] \in Nat
            BY <1>4, <1>6, <1>7, <1>10 DEF Of
        <3>3. w[n + 1] = take(usage[1] + usage[2]) /\ take(usage[1] + usage[2]) \in Nat
            BY <1>1, <1>4, <1>6, <1>7, <1>9 DEF Of
        <3>4. Consumed(R) = Sum(v, {}) /\ Consumed(R)' = Sum(w, {})
            BY DEF Consumed
        <3> DEFINE x == take(usage[1] + usage[2])
        <3>5. Longer(v, w, n, x) /\ x \in Nat
            BY <3>1, <3>2, <3>3 DEF Longer
        <3> HIDE DEF v, w, x
        <3>6. Sum(v, {}) \in Nat /\ Sum(w, {}) = Sum(v, {}) + x
            BY <1>4, <3>5, TotalsGrow
        <3> QED BY <3>4, <3>6 DEF x
    <2>4. Upto(Consumed(R), I64MAX) <= Sum(Inputs(R), {U64MAX}) + Sum(Outputs(R), {U64MAX})
        BY DEF BooksOK, TokensCovered
    <2> DEFINE x == take(clamp_tokens(usage[1]))
               y == take(clamp_tokens(usage[2]))
               z == take(usage[1] + usage[2])
    <2>5. /\ x \in Nat /\ y \in Nat /\ z \in Nat
          /\ z <= x + y \/ I64MAX <= x \/ I64MAX <= y
        BY <1>1, <1>2
    <2> HIDE DEF x, y, z
    <2>6. Upto(Consumed(R) + z, I64MAX)
             <= Upto(Sum(Inputs(R), {U64MAX}) + x, U64MAX)
                  + Upto(Sum(Outputs(R), {U64MAX}) + y, U64MAX)
        BY <1>1, <2>1, <2>2, <2>3, <2>4, <2>5, TokensStep
    <2> QED BY <2>1, <2>2, <2>3, <2>6 DEF x, y, z
<1>13. CostIsClose'
    <2>1. RowCost(r) \in 0 .. I64MAX /\ ExactRowCost(r, rate) \in Nat
          /\ RowCost(r) * MICROS_PER_DOLLAR - ExactRowCost(r, rate)
                <= MICROS_PER_DOLLAR
          /\ \/ ExactRowCost(r, rate) - RowCost(r) * MICROS_PER_DOLLAR
                    <= MICROS_PER_DOLLAR
             \/ RowCost(r) = I64MAX
        BY <1>2, <1>9, RowCostIsClose
    <2>2. \A i \in 1 .. n : /\ RowCost(ledger[i]) \in Nat
                            /\ ExactRowCost(ledger[i], past.rates[i]) \in Nat
        BY <1>1, <1>10, RowCostIsClose
    <2>3. /\ Sum(Costs(Nat), {I64MAX}) \in 0 .. I64MAX
          /\ Sum(Costs(Nat)', {I64MAX}) = Upto(Sum(Costs(Nat), {I64MAX}) + RowCost(r), I64MAX)
        <3> DEFINE v == Costs(Nat)
                   w == [i \in DOMAIN ledger' |->
                            IF ledger'[i].run \in Nat THEN RowCost(ledger'[i]) ELSE 0]
        <3>0. Costs(Nat)' = w
            BY DEF Costs, Of
        <3>1. Len(v) = n /\ Len(w) = n + 1
            BY <1>4, <1>6 DEF Costs
        <3>2. \A i \in 1 .. n : w[i] = v[i] /\ v[i] \in Nat
            BY <1>4, <1>6, <2>2 DEF Costs, Of
        <3>3. w[n + 1] = RowCost(r) /\ RowCost(r) \in Nat
            <4>1. n + 1 \in DOMAIN ledger' /\ ledger'[n + 1] = r /\ r.run \in Nat
                BY <1>4, <1>6, <1>9 DEF BudgetTypeOK
            <4>2. w[n + 1] = RowCost(r)
                BY <4>1
            <4> QED BY <1>1, <2>1, <4>2
        <3> DEFINE x == RowCost(r)
        <3>4. Longer(v, w, n, x) /\ x \in Nat
            BY <3>1, <3>2, <3>3 DEF Longer
        <3> HIDE DEF v, w, x
        <3>5. /\ Sum(v, {I64MAX}) \in 0 .. I64MAX
              /\ Sum(w, {I64MAX}) = Upto(Sum(v, {I64MAX}) + x, I64MAX)
            BY <1>1, <1>4, <3>4, TotalGrows
        <3> QED BY <3>0, <3>5 DEF v, w, x
    <2>4. ExactCost \in Nat /\ ExactCost' = ExactCost + ExactRowCost(r, rate)
        <3> DEFINE v == [i \in DOMAIN ledger |-> ExactRowCost(ledger[i], past.rates[i])]
                   w == [i \in DOMAIN ledger' |-> ExactRowCost(ledger'[i], past'.rates[i])]
        <3>1. Len(v) = n /\ Len(w) = n + 1
            BY <1>4, <1>6
        <3>2. \A i \in 1 .. n : w[i] = v[i] /\ v[i] \in Nat
            BY <1>4, <1>6, <1>8, <2>2
        <3>3. w[n + 1] = ExactRowCost(r, rate) /\ ExactRowCost(r, rate) \in Nat
            BY <1>4, <1>6, <1>8, <2>1
        <3>4. ExactCost = Sum(v, {}) /\ ExactCost' = Sum(w, {})
            BY DEF ExactCost, ExactRowCost
        <3> DEFINE x == ExactRowCost(r, rate)
        <3>5. Longer(v, w, n, x) /\ x \in Nat
            BY <3>1, <3>2, <3>3 DEF Longer
        <3> HIDE DEF v, w, x
        <3>6. Sum(v, {}) \in Nat /\ Sum(w, {}) = Sum(v, {}) + x
            BY <1>4, <3>5, TotalsGrow
        <3> QED BY <3>4, <3>6 DEF x
    <2>5. /\ Total("dollars", "cumulative") = Sum(Costs(Nat), {I64MAX})
          /\ Total("dollars", "cumulative")' = Sum(Costs(Nat)', {I64MAX})
        BY DEF Total, RunsOf, sum_cost_saturating
    <2>6. Close(n, Sum(Costs(Nat), {I64MAX}), ExactCost)
        BY <2>3, <2>4, <2>5 DEF BooksOK, CostIsClose, Close, n
    <2>7. Close(1, RowCost(r), ExactRowCost(r, rate))
        BY <1>1, <2>1 DEF Close
    <2>8. Close(n + 1, Sum(Costs(Nat)', {I64MAX}), ExactCost')
        BY <1>4, <2>3, <2>4, <2>6, <2>7, CostStep
    <2> QED BY <1>6, <2>5, <2>8 DEF CostIsClose, Close
<1> QED BY <1>11, <1>12, <1>13 DEF BooksOK

LEMMA BooksGrow ==
    ASSUME BudgetConstants, BudgetTypeOK, BudgetTypeOK', BooksOK,
           NEW usage \in Usages, ingest_usage(usage)
    PROVE  BooksOK'
<1>1. PICK rate \in RateType : Booked(usage, rate)
    BY IngestWrites
<1> QED BY <1>1, RowIsBooked

\* A step that commits no row leaves the books as they are.
LEMMA BooksStay ==
    ASSUME BooksOK, ledger' = ledger, past'.reported = past.reported,
           past'.rates = past.rates
    PROVE  BooksOK'
<1>1. RowsAreKept'
    BY DEF BooksOK, RowsAreKept
<1>2. TokensCovered'
    BY DEF BooksOK, TokensCovered, Consumed, Inputs, Outputs, Of
<1>3. /\ Total("dollars", "cumulative")' = Total("dollars", "cumulative")
      /\ ExactCost' = ExactCost
    BY DEF Total, RunsOf, sum_cost_saturating, Costs, Of, RowCost, ExactCost, ExactRowCost
<1>4. CostIsClose'
    BY <1>3 DEF BooksOK, CostIsClose
<1> QED BY <1>1, <1>2, <1>4 DEF BooksOK
-----------------------------------------------------------------------------
(***************************************************************************)
(* The latch: a breach is noted once, and before it is acted upon.         *)
(***************************************************************************)
\* A step that notes no breach.
LEMMA LatchStays ==
    ASSUME BudgetTypeOK, BudgetTypeOK', LatchOK,
           breaches' = breaches, past'.unrecorded = past.unrecorded,
           past'.acted \subseteq past.acted \cup Announced,
           \/ run' = run + 1
           \/ run' = run /\ (held' => held /\ latch \subseteq latch'),
           \A f \in Range(op)' : f.at \in {"pause", "halt"} => f \in Range(op)
    PROVE  LatchOK'
<1>1. Noted' = Noted /\ Announced' = Announced
    BY DEF Noted, Announced
<1>2. run \in Nat /\ \A e \in Noted : e.breach.run \in Nat
    <2>1. Noted \subseteq EntryType
        BY DEF Noted, Range, BudgetTypeOK, PastType
    <2> QED BY <2>1 DEF BudgetTypeOK, EntryType, BreachType
<1>3. NotedIsLatched'
    <2>1. NotedIsLatched
        BY DEF LatchOK
    <2> SUFFICES ASSUME NEW e \in Noted
                 PROVE  /\ e.breach.run <= run'
                        /\ held' /\ e.breach.run = run'
                              => <<e.breach.dimension, e.breach.scope>> \in latch'
        BY <1>1 DEF NotedIsLatched
    <2>2. e.breach.run \in Nat /\ e.breach.run <= run
        BY <1>2, <2>1 DEF NotedIsLatched
    <2>3. CASE run' = run + 1
        <3>1. e.breach.run <= run' /\ e.breach.run # run'
            BY <1>2, <2>2, <2>3
        <3> QED BY <3>1
    <2>4. CASE run' = run /\ (held' => held /\ latch \subseteq latch')
        <3>1. held /\ e.breach.run = run
                 => <<e.breach.dimension, e.breach.scope>> \in latch
            BY <2>1 DEF NotedIsLatched
        <3>2. held' /\ e.breach.run = run'
                 => <<e.breach.dimension, e.breach.scope>> \in latch'
            BY <2>4, <3>1
        <3> QED BY <2>2, <2>4, <3>2
    <2> QED BY <2>3, <2>4
<1>4. RecordedOnce'
    BY DEF LatchOK, RecordedOnce
<1>5. CauseIsNoted'
    BY <1>1 DEF LatchOK, CauseIsNoted
<1> QED BY <1>3, <1>4, <1>5 DEF LatchOK

LEMMA LatchOnBreach ==
    ASSUME BudgetConstants, BudgetTypeOK, BudgetTypeOK', LatchOK, NEW d \in Dimensions,
           NEW s \in Scopes, Doing(d), apply_breach(d, s), run' = run, held' = held
    PROVE  /\ LatchOK' /\ Noted' = Noted \cup {Entry(Breach(d, s))}
           /\ Range(op)' = Range(Consequence(Breach(d, s))) \cup Range(Tail(op))
<1> DEFINE b == Breach(d, s)
           e == Entry(b)
<1>1. b \in BreachType /\ e \in EntryType /\ Consequence(b) \in Seq(FrameType)
    BY FrameTypes
<1>2. e.breach = b /\ b.run = run /\ b.dimension = d /\ b.scope = s
    BY DEF Entry, Breach
<1>3. /\ held /\ <<d, s>> \notin latch /\ latch' = latch \cup {<<d, s>>}
      /\ op' = Consequence(b) \o Tail(op)
      /\ \/ Record(b) /\ past' = past
         \/ past' = [past EXCEPT !.unrecorded = @ \cup {e}] /\ breaches' = breaches
    BY DEF apply_breach
<1>4. \/ breaches' = Append(breaches, e) /\ past' = past
      \/ past' = [past EXCEPT !.unrecorded = @ \cup {e}] /\ breaches' = breaches
    BY <1>3 DEF Record
<1>5. past \in PastType /\ breaches \in Seq(EntryType)
    BY DEF BudgetTypeOK
<1>6. Tail(op) \in Seq(FrameType) /\ Range(Tail(op)) \subseteq Range(op)
    BY Tops
<1>7. Range(op)' = Range(Consequence(b)) \cup Range(Tail(op))
    <2>1. Range(op)' = Range(op')
        BY DEF Range
    <2>2. Range(Consequence(b) \o Tail(op)) = Range(Consequence(b)) \cup Range(Tail(op))
        BY <1>1, <1>6, RangeConcat
    <2> QED BY <1>3, <2>1, <2>2
<1>8. \A f \in Range(Consequence(b)) : f.breach = {b}
    <2>1. Range(Consequence(b)) \subseteq {ActOn("pause", b), ActOn("halt", b)}
        <3>1. effective.action \in Actions
            BY DEF BudgetConstants, BudgetTypeOK
        <3>2. CASE effective.action = "warn"
            BY <3>2, RangeOfFew DEF Consequence
        <3>3. CASE effective.action = "pause"
            BY <3>3, RangeOfFew DEF Consequence
        <3>4. CASE effective.action = "stop"
            BY <3>4, RangeOfFew DEF Consequence
        <3> QED BY <3>1, <3>2, <3>3, <3>4 DEF Actions
    <2> QED BY <2>1 DEF ActOn
<1> HIDE DEF b, e
<1>9. Noted' = Noted \cup {e} /\ past'.acted = past.acted
    <2>1. CASE breaches' = Append(breaches, e) /\ past' = past
        <3>1. Range(breaches)' = Range(breaches')
            BY DEF Range
        <3>2. Range(Append(breaches, e)) = Range(breaches) \cup {e}
            BY <1>1, <1>5, RangeAppended
        <3> QED BY <2>1, <3>1, <3>2 DEF Noted
    <2>2. CASE past' = [past EXCEPT !.unrecorded = @ \cup {e}] /\ breaches' = breaches
        BY <1>5, <2>2 DEF Noted, PastType
    <2> QED BY <1>4, <2>1, <2>2
<1>10. Announced' = Announced \cup {b}
    BY <1>2, <1>9 DEF Announced
<1>11. \A x \in Noted : x.breach # b
    BY <1>2, <1>3 DEF LatchOK, NotedIsLatched
<1>12. NotedIsLatched'
    <2>1. run \in Nat
        BY DEF BudgetTypeOK
    <2>2. ASSUME NEW x \in Noted'
          PROVE  /\ x.breach.run <= run
                 /\ x.breach.run = run => <<x.breach.dimension, x.breach.scope>> \in latch'
        <3>1. CASE x = e
            BY <1>2, <1>3, <2>1, <3>1
        <3>2. CASE x \in Noted
            BY <1>3, <3>2 DEF LatchOK, NotedIsLatched
        <3> QED BY <1>9, <3>1, <3>2
    <2> QED BY <2>2 DEF NotedIsLatched
<1>13. RecordedOnce'
    <2>1. CASE breaches' = breaches
        BY <2>1 DEF LatchOK, RecordedOnce
    <2>2. CASE breaches' = Append(breaches, e)
        <3> DEFINE n == Len(breaches)
        <3>1. /\ n \in Nat /\ DOMAIN breaches = 1 .. n /\ DOMAIN breaches' = 1 .. n + 1
              /\ \A i \in 1 .. n : breaches'[i] = breaches[i]
              /\ breaches'[n + 1] = e
            BY <1>1, <1>5, <2>2
        <3> HIDE DEF n
        <3>2. \A i \in 1 .. n : breaches[i].breach # b
            BY <1>11, <3>1 DEF Noted, Range
        <3>3. ASSUME NEW i \in 1 .. n + 1, NEW j \in 1 .. n + 1,
                     breaches'[i].breach = breaches'[j].breach
              PROVE  i = j
            <4>1. CASE i \in 1 .. n /\ j \in 1 .. n
                BY <3>1, <3>3, <4>1 DEF LatchOK, RecordedOnce
            <4>2. CASE i = n + 1 /\ j \in 1 .. n
                BY <1>2, <3>1, <3>2, <3>3, <4>2
            <4>3. CASE i \in 1 .. n /\ j = n + 1
                BY <1>2, <3>1, <3>2, <3>3, <4>3
            <4>4. i \in 1 .. n \/ i = n + 1
                BY <3>1
            <4>5. j \in 1 .. n \/ j = n + 1
                BY <3>1
            <4> QED BY <4>1, <4>2, <4>3, <4>4, <4>5
        <3> QED BY <3>1, <3>3 DEF RecordedOnce
    <2> QED BY <1>4, <2>1, <2>2
<1>14. CauseIsNoted'
    <2>1. \A f \in Range(op)' : f \in Range(op) \/ f.breach = {b}
        BY <1>6, <1>7, <1>8
    <2> QED BY <1>9, <1>10, <2>1 DEF LatchOK, CauseIsNoted
<1> QED BY <1>7, <1>9, <1>12, <1>13, <1>14 DEF LatchOK, b, e
-----------------------------------------------------------------------------
(***************************************************************************)
(* The reaction: a crossing is latched, a breach is acted upon.            *)
(***************************************************************************)
\* What is pending is still so, for what is not at the top.
LEMMA PendingBelow ==
    ASSUME BudgetTypeOK, NEW at, Doing(at), NEW p, p # at, Pending(p),
           Range(Tail(op)) \subseteq Range(op)'
    PROVE  Pending(p)'
<1>1. PICK f \in Range(op) : f.at = p
    BY DEF Pending
<1>2. Head(op).at = at /\ Range(op) = {Head(op)} \cup Range(Tail(op))
    BY Tops
<1>3. f \in Range(Tail(op))
    BY <1>1, <1>2
<1> QED BY <1>1, <1>3 DEF Pending

LEMMA SeenStays ==
    ASSUME NEW d \in Dimensions, Seen(d), Pending(d) => Pending(d)', latch \subseteq latch',
           ledger' = ledger, run' = run, effective' = effective
    PROVE  Seen(d)'
<1>1. Reached(d)' = Reached(d)
    BY DEF Reached, ReachedBut, Observed, Ceilings, Total, RunsOf, sum_tokens_saturating,
           sum_cost_saturating, Inputs, Outputs, Costs, Of, RowCost
<1>2. Armed(effective, d)' = Armed(effective, d)
    BY DEF Armed
<1> QED BY <1>1, <1>2 DEF Seen

\* A step that notes no breach, and after which either the agent does not run on
\* or a pending action is still pending.
LEMMA ActionStillComes ==
    ASSUME BudgetTypeOK, LatchOK, ActionComes,
           breaches' = breaches, past'.unrecorded = past.unrecorded,
           \/ held' = FALSE \/ state' # "running" \/ past'.excused = TRUE
           \/ run' = run + 1
           \/ /\ run' = run /\ held' = held /\ state' = state
              /\ past'.excused = past.excused
              /\ Pending("pause") => Pending("pause")'
              /\ Pending("halt") => Pending("halt")'
    PROVE  ActionComes'
<1>1. Noted' = Noted
    BY DEF Noted
<1>2. run \in Nat /\ \A e \in Noted : e.breach.run \in Nat /\ e.breach.run <= run
    <2>1. Noted \subseteq EntryType
        BY DEF Noted, Range, BudgetTypeOK, PastType
    <2>2. run \in Nat /\ \A e \in Noted : e.breach.run \in Nat
        BY <2>1 DEF BudgetTypeOK, EntryType, BreachType
    <2>3. \A e \in Noted : e.breach.run <= run
        BY DEF LatchOK, NotedIsLatched
    <2> QED BY <2>2, <2>3
<1>3. CASE run' = run + 1
    <2>1. \A e \in Noted : e.breach.run # run'
        BY <1>2, <1>3
    <2> QED BY <1>1, <2>1 DEF ActionComes
<1>4. CASE held' = FALSE \/ state' # "running" \/ past'.excused = TRUE
    BY <1>4 DEF ActionComes
<1>5. CASE /\ run' = run /\ held' = held /\ state' = state
           /\ past'.excused = past.excused
           /\ Pending("pause") => Pending("pause")'
           /\ Pending("halt") => Pending("halt")'
    BY <1>1, <1>5 DEF ActionComes
<1> QED BY <1>3, <1>4, <1>5

\* A dimension evaluated on totals that were read has fired, or has nothing to
\* fire for.
LEMMA EvaluatedIsSeen ==
    ASSUME NEW d \in Dimensions, held, passes(d, {}), UNCHANGED <<effective, ledger, run>>
    PROVE  Seen(d)'
<1>1. latch' = latch
    BY DEF passes
<1>2. Reached(d)' = Reached(d)
    BY DEF Reached, ReachedBut, Observed, Ceilings, Total, RunsOf, sum_tokens_saturating,
           sum_cost_saturating, Inputs, Outputs, Costs, Of, RowCost
<1>3. CASE Reached(d) = {}
    BY <1>2, <1>3 DEF Seen
<1>4. CASE Reached(d) # {}
    <2>1. PICK s \in evaluate(d, {}) : TRUE
        BY <1>4 DEF Reached, evaluate
    <2>2. s \in Scopes /\ <<d, s>> \in latch
        BY <2>1, ReachedAreScopes DEF passes
    <2> QED BY <1>1, <2>2 DEF Seen
<1> QED BY <1>3, <1>4

LEMMA EnforceKeeps ==
    ASSUME BudgetConstants, BudgetTypeOK, BudgetTypeOK', LatchOK, ReactionOK,
           NEW d \in Dimensions, enforce_budget(d)
    PROVE  LatchOK' /\ ReactionOK'
<1>0. past \in PastType
    BY DEF BudgetTypeOK
<1>1. Doing(d) /\ UNCHANGED <<effective, ledger, run, state, held>>
    BY DEF enforce_budget
<1>2. Range(op) = {Head(op)} \cup Range(Tail(op)) /\ Tail(op) \in Seq(FrameType)
    BY <1>1, Tops
<1>3. d # "pause" /\ d # "halt"
    BY DEF Dimensions
<1>4. ASSUME Pop, UNCHANGED <<latch, breaches>>,
             past'.unrecorded = past.unrecorded, past'.acted = past.acted,
             past'.excused = past.excused, past'.evaluated => past.evaluated,
             Armed(effective, d) /\ past'.evaluated => passes(d, {})
      PROVE  LatchOK' /\ ReactionOK'
    <2>1. Range(op)' = Range(Tail(op))
        BY <1>4 DEF Pop, Range
    <2>2. LatchOK'
        BY <1>1, <1>2, <1>4, <2>1, LatchStays
    <2>3. \A p : p # d /\ Pending(p) => Pending(p)'
        BY <1>1, <2>1, PendingBelow
    <2>4. ActionComes'
        BY <1>1, <1>3, <1>4, <2>3, ActionStillComes DEF ReactionOK
    <2>5. ASSUME held', past'.evaluated, NEW c \in Dimensions PROVE Seen(c)'
        <3>1. held /\ past.evaluated /\ Seen(c)
            BY <1>1, <1>4, <2>5 DEF ReactionOK, CrossingIsSeen
        <3>2. CASE c # d
            BY <1>1, <1>4, <2>3, <3>1, <3>2, SeenStays
        <3>3. CASE c = d /\ ~Armed(effective, d)
            BY <1>1, <3>3 DEF Seen, Armed
        <3>4. CASE c = d /\ Armed(effective, d)
            BY <1>1, <1>4, <2>5, <3>1, <3>4, EvaluatedIsSeen
        <3> QED BY <3>2, <3>3, <3>4
    <2> QED BY <2>2, <2>4, <2>5 DEF ReactionOK, CrossingIsSeen
<1>5. ASSUME NEW unread, NEW s \in evaluate(d, unread), apply_breach(d, s)
      PROVE  LatchOK' /\ ReactionOK'
    <2> DEFINE b == Breach(d, s)
    <2>1. s \in Scopes
        BY ReachedAreScopes
    <2>2. /\ LatchOK' /\ Noted' = Noted \cup {Entry(b)}
          /\ Range(op)' = Range(Consequence(b)) \cup Range(Tail(op))
        BY <1>1, <1>5, <2>1, LatchOnBreach
    <2>3. \A p : p # d /\ Pending(p) => Pending(p)'
        BY <1>1, <2>2, PendingBelow
    <2>4. /\ latch' = latch \cup {<<d, s>>}
          /\ past'.excused = past.excused /\ past'.evaluated = past.evaluated
        BY <1>5 DEF apply_breach, BudgetTypeOK, PastType
    <2>5. ActionComes'
        <3>1. effective.action # "warn" => Pending("pause")' \/ Pending("halt")'
            <4>1. effective.action \in Actions
                BY DEF BudgetConstants, BudgetTypeOK
            <4>2. CASE effective.action = "pause"
                <5>1. ActOn("pause", b) \in Range(Consequence(b))
                    BY <4>2, RangeOfFew DEF Consequence
                <5>2. ActOn("pause", b).at = "pause"
                    BY DEF ActOn
                <5>3. ActOn("pause", b) \in Range(op)'
                    BY <2>2, <5>1
                <5>4. \E f \in Range(op)' : f.at = "pause"
                    BY <5>2, <5>3
                <5> QED BY <5>4 DEF Pending
            <4>3. CASE effective.action = "stop"
                <5>1. ActOn("halt", b) \in Range(Consequence(b))
                    BY <4>3, RangeOfFew DEF Consequence
                <5>2. ActOn("halt", b).at = "halt"
                    BY DEF ActOn
                <5>3. ActOn("halt", b) \in Range(op)'
                    BY <2>2, <5>1
                <5>4. \E f \in Range(op)' : f.at = "halt"
                    BY <5>2, <5>3
                <5> QED BY <5>4 DEF Pending
            <4> QED BY <4>1, <4>2, <4>3 DEF Actions
        <3>2. Entry(b).action = effective.action
            BY DEF Entry
        <3>3. held' /\ state' = "running" /\ ~past'.excused
                => held /\ state = "running" /\ ~past.excused
            BY <1>1, <2>4
        <3>4. Pending("pause") \/ Pending("halt") => Pending("pause")' \/ Pending("halt")'
            BY <1>3, <2>3
        <3> SUFFICES ASSUME held' /\ state' = "running" /\ ~past'.excused,
                            NEW e \in Noted', e.breach.run = run', e.action # "warn"
                     PROVE  Pending("pause")' \/ Pending("halt")'
            BY DEF ActionComes
        <3>5. CASE e = Entry(b)
            BY <3>1, <3>2, <3>5
        <3>6. CASE e \in Noted
            BY <1>1, <3>3, <3>4, <3>6 DEF ReactionOK, ActionComes
        <3> QED BY <2>2, <3>5, <3>6
    <2>6. ASSUME held', past'.evaluated, NEW c \in Dimensions PROVE Seen(c)'
        <3>1. held /\ past.evaluated /\ Seen(c)
            BY <1>1, <2>4, <2>6 DEF ReactionOK, CrossingIsSeen
        <3>2. CASE c # d
            BY <1>1, <2>3, <2>4, <3>1, <3>2, SeenStays
        <3>3. CASE c = d
            BY <2>1, <2>4, <3>3 DEF Seen
        <3> QED BY <3>2, <3>3
    <2> QED BY <2>2, <2>5, <2>6 DEF ReactionOK, CrossingIsSeen
<1>6. CASE ~Armed(effective, d)
    <2>1. Pop /\ UNCHANGED <<latch, breaches, past>>
        BY <1>6 DEF enforce_budget
    <2> QED BY <1>4, <1>6, <2>1
<1>7. ASSUME NEW unread, passes(d, unread) PROVE LatchOK' /\ ReactionOK'
    <2>1. /\ Pop /\ UNCHANGED <<latch, breaches>>
          /\ past'.unrecorded = past.unrecorded /\ past'.acted = past.acted
          /\ past'.excused = past.excused
          /\ past'.evaluated => past.evaluated /\ unread = {}
        BY <1>0, <1>7 DEF passes, PastType
    <2>2. past'.evaluated => passes(d, {})
        BY <1>7, <2>1
    <2> QED BY <1>4, <2>1, <2>2
<1> QED BY <1>5, <1>6, <1>7 DEF enforce_budget
-----------------------------------------------------------------------------
(***************************************************************************)
(* The theorem.                                                            *)
(***************************************************************************)
LEMMA BudgetStart ==
    ASSUME BudgetConstants, BudgetInit
    PROVE  BudgetInv
<1> USE DEF BudgetInit
<1>1. BudgetTypeOK
    <2>1. past \in PastType
        BY DEF PastType
    <2>2. 0 \in 0 .. MaxRuns /\ 0 \in 0 .. MaxChanges
        BY DEF BudgetConstants
    <2>3. ledger \in Seq(RowType)
        OBVIOUS
    <2>4. op \in Seq(FrameType)
        OBVIOUS
    <2>5. breaches \in Seq(EntryType)
        OBVIOUS
    <2>6. effective \in Configs /\ changes \in 0 .. MaxChanges /\ run \in 0 .. MaxRuns
        BY <2>2
    <2> QED BY <2>1, <2>3, <2>4, <2>5, <2>6 DEF BudgetTypeOK
<1>2. I64MAX \in Nat /\ U64MAX \in Nat /\ MICROS_PER_DOLLAR \in Nat
    BY DEF BudgetConstants
<1>3. DOMAIN ledger = {} /\ Len(ledger) = 0 /\ Len(past.reported) = 0 /\ Len(past.rates) = 0
    OBVIOUS
<1>4. RowsAreKept
    BY <1>3 DEF RowsAreKept
<1>5. ASSUME NEW v, DOMAIN v = {}, v = [i \in {} |-> v[i]], NEW bound
      PROVE  Sum(v, bound) = 0
    <2>1. v = <<>>
        BY <1>5
    <2>2. Len(v) = 0
        BY <2>1
    <2> QED BY <2>2, SumOfNone
<1>6. TokensCovered
    <2> SUFFICES ASSUME NEW R \in SUBSET Nat
                 PROVE  Upto(Consumed(R), I64MAX)
                           <= Sum(Inputs(R), {U64MAX}) + Sum(Outputs(R), {U64MAX})
        BY DEF TokensCovered
    <2>1. Sum(Inputs(R), {U64MAX}) = 0
        BY <1>3, <1>5 DEF Inputs
    <2>2. Sum(Outputs(R), {U64MAX}) = 0
        BY <1>3, <1>5 DEF Outputs
    <2>3. Consumed(R) = 0
        BY <1>3, <1>5 DEF Consumed
    <2> QED BY <1>2, <2>1, <2>2, <2>3 DEF Upto
<1>7. CostIsClose
    <2>1. Total("dollars", "cumulative") = 0
        <3>1. Sum(Costs(Nat), {I64MAX}) = 0
            BY <1>3, <1>5 DEF Costs
        <3> QED BY <3>1 DEF Total, RunsOf, sum_cost_saturating
    <2>2. ExactCost = 0
        BY <1>3, <1>5 DEF ExactCost
    <2> QED BY <1>2, <1>3, <2>1, <2>2 DEF CostIsClose
<1>8. Noted = {} /\ Range(op) = {} /\ past.acted = {}
    BY RangeOfFew DEF Noted
<1>9. LatchOK
    BY <1>8 DEF LatchOK, NotedIsLatched, RecordedOnce, CauseIsNoted
<1>10. ReactionOK
    BY DEF ReactionOK, CrossingIsSeen, ActionComes
<1> QED BY <1>1, <1>4, <1>6, <1>7, <1>9, <1>10 DEF BudgetInv, BooksOK

\* A step that neither commits a row nor evaluates a dimension.
LEMMA OtherSteps ==
    ASSUME BudgetConstants, BudgetTypeOK, BudgetTypeOK', BooksOK, LatchOK, ReactionOK,
           enforce_pause \/ enforce_stop \/ stop_ends \/ start_inner \/ stop_inner
             \/ resume \/ set_ceilings \/ reap \/ engine_killed
    PROVE  BooksOK' /\ LatchOK' /\ ReactionOK'
<1>0. past \in PastType
    BY DEF BudgetTypeOK
<1>1. /\ ledger' = ledger /\ breaches' = breaches
      /\ past'.reported = past.reported /\ past'.rates = past.rates
      /\ past'.unrecorded = past.unrecorded
    <2>1. ledger' = ledger /\ breaches' = breaches
        BY DEF enforce_pause, enforce_stop, stop_ends, start_inner, stop_inner, resume,
               set_ceilings, reap, engine_killed
    <2>2. CASE engine_killed
        BY <2>1, <2>2, ReopenWrites
    <2>3. CASE ~engine_killed
        BY <1>0, <2>1, <2>3
        DEF enforce_pause, enforce_stop, stop_ends, start_inner, stop_inner, resume,
            set_ceilings, reap, Stamp, Excuse, PastType
    <2> QED BY <2>2, <2>3
<1>2. BooksOK'
    BY <1>1, BooksStay
<1>3. CASE enforce_pause \/ enforce_stop
    <2>1. Doing("pause") \/ Doing("halt")
        BY <1>3 DEF enforce_pause, enforce_stop
    <2>2. Range(op) = {Head(op)} \cup Range(Tail(op)) /\ Tail(op) \in Seq(FrameType)
        BY <2>1, Tops
    <2>3. Cause \in Announced
        <3>1. Head(op).at \in {"pause", "halt"} /\ Head(op).breach = {Cause}
            BY <2>1, Tops, CauseIsBreach
        <3> QED BY <2>2, <3>1 DEF LatchOK, CauseIsNoted
    <2>4. past'.acted \subseteq past.acted \cup Announced
        BY <1>0, <1>3, <2>3 DEF enforce_pause, enforce_stop, Stamp, Excuse, PastType
    <2>5. Range(op)' \subseteq {Frame("stop")} \cup Range(op)
        <3>1. op' = Tail(op) \/ op' = <<Frame("stop")>> \o Tail(op)
            BY <1>3 DEF enforce_pause, enforce_stop, Pop
        <3>2. Range(<<Frame("stop")>> \o Tail(op)) = {Frame("stop")} \cup Range(Tail(op))
            BY <2>2, Pushed
        <3>3. Range(op)' = Range(op')
            BY DEF Range
        <3> QED BY <2>2, <3>1, <3>2, <3>3
    <2>6. LatchOK'
        <3>1. Frame("stop").at = "stop"
            BY DEF Frame
        <3>2. \A f \in Range(op)' : f.at \in {"pause", "halt"} => f \in Range(op)
            BY <2>5, <3>1
        <3>3. run' = run /\ held' = held /\ latch' = latch
            BY <1>3 DEF enforce_pause, enforce_stop
        <3> QED BY <1>1, <2>4, <3>2, <3>3, LatchStays
    <2>7. ActionComes'
        <3>1. state' # "running" \/ past'.excused = TRUE
            BY <1>0, <1>3 DEF enforce_pause, enforce_stop, Excuse, PastType
        <3> QED BY <1>1, <3>1, ActionStillComes DEF ReactionOK
    <2>8. ASSUME held', past'.evaluated, NEW c \in Dimensions PROVE Seen(c)'
        <3>1. /\ held' = held /\ past'.evaluated = past.evaluated
              /\ ledger' = ledger /\ run' = run /\ effective' = effective /\ latch' = latch
            BY <1>0, <1>3 DEF enforce_pause, enforce_stop, Stamp, Excuse, PastType
        <3>2. Seen(c)
            BY <2>8, <3>1 DEF ReactionOK, CrossingIsSeen
        <3>3. Pending(c) => Pending(c)'
            <4>1. c # "pause" /\ c # "halt"
                BY DEF Dimensions
            <4>2. Range(Tail(op)) \subseteq Range(op)'
                <5>1. op' = Tail(op) \/ op' = <<Frame("stop")>> \o Tail(op)
                    BY <1>3 DEF enforce_pause, enforce_stop, Pop
                <5>2. Range(<<Frame("stop")>> \o Tail(op)) = {Frame("stop")} \cup Range(Tail(op))
                    BY <2>2, Pushed
                <5>3. Range(op)' = Range(op')
                    BY DEF Range
                <5> QED BY <5>1, <5>2, <5>3
            <4> QED BY <2>1, <4>1, <4>2, PendingBelow
        <3> QED BY <3>1, <3>2, <3>3, SeenStays
    <2> QED BY <1>2, <2>6, <2>7, <2>8 DEF ReactionOK, CrossingIsSeen
<1>4. CASE stop_ends
    <2>1. Doing("stop") /\ op' = Tail(op)
        BY <1>4 DEF stop_ends, Pop
    <2>2. Range(op) = {Head(op)} \cup Range(Tail(op))
        BY <2>1, Tops
    <2>3. Range(op)' = Range(Tail(op))
        BY <2>1 DEF Range
    <2>4. /\ past'.acted = past.acted /\ run' = run /\ effective' = effective
          /\ past'.evaluated = past.evaluated
          /\ held' = FALSE \/ (held' = held /\ latch' = latch /\ past'.excused = TRUE)
        BY <1>0, <1>4 DEF stop_ends, Excuse, PastType
    <2>5. LatchOK'
        <3>1. held' => held /\ latch \subseteq latch'
            BY <2>4
        <3> QED BY <1>1, <2>2, <2>3, <2>4, <3>1, LatchStays
    <2>6. ActionComes'
        BY <1>1, <2>4, ActionStillComes DEF ReactionOK
    <2>7. ASSUME held', past'.evaluated, NEW c \in Dimensions PROVE Seen(c)'
        <3>1. held /\ past.evaluated /\ latch' = latch
            BY <2>4, <2>7
        <3>2. Seen(c)
            BY <3>1 DEF ReactionOK, CrossingIsSeen
        <3>3. Pending(c) => Pending(c)'
            <4>1. c # "stop"
                BY DEF Dimensions
            <4> QED BY <2>1, <2>3, <4>1, PendingBelow
        <3> QED BY <1>1, <2>4, <3>1, <3>2, <3>3, SeenStays
    <2> QED BY <1>2, <2>5, <2>6, <2>7 DEF ReactionOK, CrossingIsSeen
<1>5. CASE start_inner \/ set_ceilings \/ reap
    <2>1. /\ op' = op /\ past'.acted = past.acted
          /\ held' = FALSE \/ past'.evaluated = FALSE
          /\ \/ run' = run + 1
             \/ held' = FALSE /\ run' = run
             \/ /\ held' = held /\ latch' = latch /\ run' = run /\ state' = state
                /\ past'.excused = past.excused
        BY <1>0, <1>5 DEF start_inner, set_ceilings, reap, NewRun, PastType
    <2>2. Range(op)' = Range(op) /\ \A p : Pending(p)' = Pending(p)
        BY <2>1 DEF Range, Pending
    <2>3. LatchOK'
        <3>1. \/ run' = run + 1
              \/ run' = run /\ (held' => held /\ latch \subseteq latch')
            BY <2>1
        <3> QED BY <1>1, <2>1, <2>2, <3>1, LatchStays
    <2>4. ActionComes'
        BY <1>1, <2>1, <2>2, ActionStillComes DEF ReactionOK
    <2>5. CrossingIsSeen'
        BY <2>1 DEF CrossingIsSeen
    <2> QED BY <1>2, <2>3, <2>4, <2>5 DEF ReactionOK
<1>6. CASE stop_inner \/ resume
    <2>1. /\ past'.acted = past.acted /\ held' = held /\ latch' = latch /\ run' = run
          /\ effective' = effective /\ past'.evaluated = past.evaluated
          /\ op = <<>> /\ (op' = <<>> \/ op' = <<Frame("stop")>>)
          /\ state' # "running" \/ past'.excused = TRUE
        BY <1>0, <1>6 DEF stop_inner, resume, Excuse, Unoccupied, PastType
    <2>2. Range(op) = {} /\ Range(op)' \subseteq {Frame("stop")}
        <3>1. Range(op)' = Range(op')
            BY DEF Range
        <3> QED BY <2>1, <3>1, RangeOfFew
    <2>3. LatchOK'
        <3>1. Frame("stop").at = "stop"
            BY DEF Frame
        <3>2. \A f \in Range(op)' : f.at \in {"pause", "halt"} => f \in Range(op)
            BY <2>2, <3>1
        <3> QED BY <1>1, <2>1, <3>2, LatchStays
    <2>4. ActionComes'
        BY <1>1, <2>1, ActionStillComes DEF ReactionOK
    <2>5. ASSUME held', past'.evaluated, NEW c \in Dimensions PROVE Seen(c)'
        <3>1. Seen(c)
            BY <2>1, <2>5 DEF ReactionOK, CrossingIsSeen
        <3>2. ~Pending(c)
            BY <2>2 DEF Pending
        <3> QED BY <1>1, <2>1, <3>1, <3>2, SeenStays
    <2> QED BY <1>2, <2>3, <2>4, <2>5 DEF ReactionOK, CrossingIsSeen
<1>7. CASE engine_killed
    <2>1. /\ past'.acted = past.acted
          /\ run' = run + 1 \/ (run' = run /\ held' = FALSE)
        BY <1>7, ReopenWrites
    <2>2. /\ Range(op)' \subseteq {Frame("tokens"), Frame("dollars")}
          /\ held' /\ past'.evaluated => \A d \in Dimensions : Frame(d) \in Range(op)'
        BY <1>7, ReopenWrites
    <2>3. \A d \in Dimensions : Frame(d).at = d
        BY DEF Frame
    <2>4. LatchOK'
        <3>1. \A f \in Range(op)' : f.at \in {"pause", "halt"} => f \in Range(op)
            BY <2>2, <2>3 DEF Dimensions
        <3>2. \/ run' = run + 1
              \/ run' = run /\ (held' => held /\ latch \subseteq latch')
            BY <2>1
        <3> QED BY <1>1, <2>1, <3>1, <3>2, LatchStays
    <2>5. ActionComes'
        BY <1>1, <2>1, ActionStillComes DEF ReactionOK
    <2>6. ASSUME held', past'.evaluated, NEW c \in Dimensions PROVE Seen(c)'
        <3>1. Pending(c)'
            BY <2>2, <2>3, <2>6 DEF Pending
        <3> QED BY <3>1 DEF Seen
    <2> QED BY <1>2, <2>4, <2>5, <2>6 DEF ReactionOK, CrossingIsSeen
<1> QED BY <1>3, <1>4, <1>5, <1>6, <1>7

LEMMA IngestKeeps ==
    ASSUME BudgetConstants, BudgetTypeOK, BudgetTypeOK', LatchOK, ReactionOK,
           NEW usage \in Usages, ingest_usage(usage)
    PROVE  LatchOK' /\ ReactionOK'
<1>1. /\ breaches' = breaches /\ past'.unrecorded = past.unrecorded
      /\ past'.acted = past.acted /\ past'.excused = past.excused
      /\ run' = run /\ held' = held /\ state' = state /\ latch' = latch
    BY IngestWrites DEF ingest_usage
<1>2. /\ Range(op) \subseteq Range(op)'
      /\ Range(op)' \subseteq {Frame("tokens"), Frame("dollars")} \cup Range(op)
      /\ past'.evaluated => \A d \in Dimensions : Frame(d) \in Range(op)'
    BY IngestWrites
<1>3. \A d \in Dimensions : Frame(d).at = d
    BY DEF Frame
<1>4. LatchOK'
    <2>1. \A f \in Range(op)' : f.at \in {"pause", "halt"} => f \in Range(op)
        BY <1>2, <1>3 DEF Dimensions
    <2> QED BY <1>1, <2>1, LatchStays
<1>5. \A p : Pending(p) => Pending(p)'
    BY <1>2 DEF Pending
<1>6. ActionComes'
    BY <1>1, <1>5, ActionStillComes DEF ReactionOK
<1>7. ASSUME past'.evaluated, NEW c \in Dimensions PROVE Seen(c)'
    <2>1. Pending(c)'
        BY <1>2, <1>3, <1>7 DEF Pending
    <2> QED BY <2>1 DEF Seen
<1> QED BY <1>4, <1>6, <1>7 DEF ReactionOK, CrossingIsSeen

LEMMA BudgetStep ==
    ASSUME BudgetConstants, BudgetInv, [BudgetNext]_budgetVars
    PROVE  BudgetInv'
<1>0. BudgetTypeOK /\ BooksOK /\ LatchOK /\ ReactionOK
    BY DEF BudgetInv
<1>1. BudgetTypeOK'
    BY <1>0, BudgetStepTypes
<1> SUFFICES BooksOK' /\ LatchOK' /\ ReactionOK'
    BY <1>1 DEF BudgetInv
<1>2. ASSUME NEW usage \in Usages, ingest_usage(usage)
      PROVE  BooksOK' /\ LatchOK' /\ ReactionOK'
    BY <1>0, <1>1, <1>2, BooksGrow, IngestKeeps
<1>3. ASSUME NEW d \in Dimensions, enforce_budget(d)
      PROVE  BooksOK' /\ LatchOK' /\ ReactionOK'
    <2>1. LatchOK' /\ ReactionOK'
        BY <1>0, <1>1, <1>3, EnforceKeeps
    <2>2. past \in PastType
        BY <1>0 DEF BudgetTypeOK
    <2>3. ledger' = ledger /\ past'.reported = past.reported /\ past'.rates = past.rates
        BY <1>3, <2>2 DEF enforce_budget, passes, apply_breach, PastType
    <2> QED BY <1>0, <2>1, <2>3, BooksStay
<1>4. CASE enforce_pause \/ enforce_stop \/ stop_ends \/ start_inner \/ stop_inner
             \/ resume \/ set_ceilings \/ reap \/ engine_killed
    BY <1>0, <1>1, <1>4, OtherSteps
<1>5. CASE UNCHANGED budgetVars
    <2>1. /\ UNCHANGED <<effective, changes, ledger, run, state, held>>
          /\ UNCHANGED <<latch, op, breaches, past>>
        BY <1>5 DEF budgetVars
    <2>2. BooksOK'
        BY <1>0, <2>1, BooksStay
    <2>3. Range(op)' = Range(op) /\ \A p : Pending(p)' = Pending(p)
        BY <2>1 DEF Range, Pending
    <2>4. LatchOK'
        BY <1>0, <1>1, <2>1, <2>3, LatchStays
    <2>5. ActionComes'
        BY <1>0, <2>1, <2>3, ActionStillComes DEF ReactionOK
    <2>6. ASSUME held', past'.evaluated, NEW c \in Dimensions PROVE Seen(c)'
        <3>1. Seen(c)
            BY <1>0, <2>1, <2>6 DEF ReactionOK, CrossingIsSeen
        <3> QED BY <2>1, <2>3, <3>1, SeenStays
    <2> QED BY <2>2, <2>4, <2>5, <2>6 DEF ReactionOK, CrossingIsSeen
<1> QED BY <1>2, <1>3, <1>4, <1>5 DEF BudgetNext

\* A ceiling that the real consumption has reached is one the totals reach.
LEMMA RealCrossingIsReached ==
    ASSUME BudgetConstants, BudgetTypeOK, BooksOK, NEW s \in Scopes,
           NEW limit \in effective.budget[s], limit <= I64MAX, Consumed(RunsOf(s)) >= limit
    PROVE  s \in Reached("tokens") /\ Armed(effective, "tokens")
<1> DEFINE R == RunsOf(s)
           X == Sum(Inputs(R), {U64MAX})
           Y == Sum(Outputs(R), {U64MAX})
<1>1. I64MAX \in Nat /\ U64MAX \in Nat /\ I64MAX < U64MAX /\ limit \in Nat
    BY DEF BudgetConstants, BudgetTypeOK
<1>2. R \in SUBSET Nat
    BY DEF RunsOf, BudgetTypeOK
<1>3. X \in Nat /\ Y \in Nat /\ Consumed(R) \in Nat
    <2>1. ledger \in Seq(RowType) /\ DOMAIN ledger = 1 .. Len(ledger) /\ Len(ledger) \in Nat
        BY DEF BudgetTypeOK
    <2>2. \A i \in 1 .. Len(ledger) : ledger[i].input \in Nat /\ ledger[i].output \in Nat
        <3>1. \A i \in 1 .. Len(ledger) : ledger[i] \in RowType
            BY <2>1
        <3> QED BY <1>1, <3>1 DEF RowType
    <2>3. X \in Nat
        <3> DEFINE v == Inputs(R)
        <3>1. Len(v) = Len(ledger) /\ \A i \in 1 .. Len(ledger) : v[i] \in Nat
            BY <2>1, <2>2 DEF Inputs, Of
        <3> HIDE DEF v
        <3>2. Sum(v, {U64MAX}) \in 0 .. U64MAX
            BY <1>1, <2>1, <3>1, SumType
        <3>3. Sum(v, {U64MAX}) \in Nat
            BY <1>1, <3>2
        <3> QED BY <3>3 DEF v
    <2>4. Y \in Nat
        <3> DEFINE v == Outputs(R)
        <3>1. Len(v) = Len(ledger) /\ \A i \in 1 .. Len(ledger) : v[i] \in Nat
            BY <2>1, <2>2 DEF Outputs, Of
        <3> HIDE DEF v
        <3>2. Sum(v, {U64MAX}) \in 0 .. U64MAX
            BY <1>1, <2>1, <3>1, SumType
        <3>3. Sum(v, {U64MAX}) \in Nat
            BY <1>1, <3>2
        <3> QED BY <3>3 DEF v
    <2>5. Consumed(R) \in Nat
        <3> DEFINE v == [i \in DOMAIN ledger |->
                            Of(R, i, past.reported[i][1] + past.reported[i][2])]
        <3>1. \A i \in 1 .. Len(ledger) :
                 past.reported[i][1] \in Nat /\ past.reported[i][2] \in Nat
            <4>1. past.reported \in Seq(Usages) /\ Len(past.reported) = Len(ledger)
                BY DEF BudgetTypeOK, PastType, BooksOK, RowsAreKept
            <4>2. \A i \in 1 .. Len(ledger) : past.reported[i] \in Usages
                BY <4>1
            <4> QED BY <1>1, <4>2 DEF BudgetConstants
        <3>2. Len(v) = Len(ledger) /\ \A i \in 1 .. Len(ledger) : v[i] \in Nat
            BY <2>1, <3>1 DEF Of
        <3>3. Consumed(R) = Sum(v, {})
            BY DEF Consumed
        <3> HIDE DEF v
        <3> QED BY <2>1, <3>2, <3>3, SumType
    <2> QED BY <2>3, <2>4, <2>5
<1>4. Upto(Consumed(R), I64MAX) <= X + Y
    BY <1>2 DEF BooksOK, TokensCovered
<1>5. Total("tokens", s) = Upto(X + Y, U64MAX)
    BY DEF Total, sum_tokens_saturating, saturating_add
<1>6. Consumed(R) >= limit
    OBVIOUS
<1> HIDE DEF R, X, Y
<1>7. Total("tokens", s) >= limit
    BY <1>1, <1>3, <1>4, <1>5, <1>6 DEF Upto
<1>8. Ceilings(effective, "tokens") = effective.budget
    BY DEF Ceilings
<1> QED BY <1>7, <1>8 DEF Reached, ReachedBut, Observed, Armed, is_set

\* The guardrail holds, whatever an agent reports, the operator sets and in
\* whichever step the engine is killed: a breach is recorded once and before its
\* action, no crossing goes unseen, no agent runs on unexcused, and the cost is
\* off by less than the rounding allows.
THEOREM GuardrailsHold ==
    ASSUME BudgetConstants
    PROVE  BudgetSpec => []GuardrailHolds
<1>1. BudgetInit => BudgetInv
    BY BudgetStart
<1>2. BudgetInv /\ [BudgetNext]_budgetVars => BudgetInv'
    BY BudgetStep
<1>3. BudgetInv => GuardrailHolds
    <2> SUFFICES ASSUME BudgetInv PROVE GuardrailHolds
        OBVIOUS
    <2>0. BudgetTypeOK /\ BooksOK /\ LatchOK /\ ReactionOK
        BY DEF BudgetInv
    <2>1. RecordedOnceAndFirst
        BY <2>0 DEF RecordedOnceAndFirst, LatchOK, RecordedOnce, CauseIsNoted, Announced
    <2>2. CrossingIsLatched
        <3> SUFFICES ASSUME Unoccupied, held, past.evaluated PROVE
                /\ (\E s \in Scopes : \E limit \in effective.budget[s] :
                        limit <= I64MAX /\ Consumed(RunsOf(s)) >= limit)
                     => \E s \in Scopes : <<"tokens", s>> \in latch
                /\ (Armed(effective, "dollars") /\ Reached("dollars") # {})
                     => \E s \in Scopes : <<"dollars", s>> \in latch
            BY DEF CrossingIsLatched
        <3>1. \A d \in Dimensions : ~Pending(d) /\ Seen(d)
            BY <2>0, RangeOfFew DEF ReactionOK, CrossingIsSeen, Pending, Unoccupied
        <3>2. \A d \in Dimensions : Armed(effective, d) /\ Reached(d) # {}
                 => \E s \in Scopes : <<d, s>> \in latch
            BY <3>1 DEF Seen
        <3>3. "tokens" \in Dimensions /\ "dollars" \in Dimensions
            BY DEF Dimensions
        <3>4. ASSUME NEW s \in Scopes, NEW limit \in effective.budget[s],
                     limit <= I64MAX, Consumed(RunsOf(s)) >= limit
              PROVE  \E c \in Scopes : <<"tokens", c>> \in latch
            BY <2>0, <3>2, <3>3, <3>4, RealCrossingIsReached
        <3> QED BY <3>2, <3>3, <3>4
    <2>3. NobodyRunsOn
        <3>1. Unoccupied => ~Pending("pause") /\ ~Pending("halt")
            BY RangeOfFew DEF Pending, Unoccupied
        <3> QED BY <2>0, <3>1 DEF NobodyRunsOn, ReactionOK, ActionComes
    <2>4. CostIsClose
        BY <2>0 DEF BooksOK
    <2> QED BY <2>1, <2>2, <2>3, <2>4 DEF GuardrailHolds
<1> QED BY <1>1, <1>2, <1>3, PTL DEF BudgetSpec
=============================================================================
