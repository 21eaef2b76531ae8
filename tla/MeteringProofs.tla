---------------------------- MODULE MeteringProofs ----------------------------
(***************************************************************************)
(* Theorems about Metering: what a drain takes, commits, parks and leaves, *)
(* and why no event is ever counted twice.                                 *)
(***************************************************************************)
EXTENDS Metering, SequenceTheorems, TLAPS

-----------------------------------------------------------------------------
(***************************************************************************)
(* The events that have left the agent in a form a drain can take.         *)
(***************************************************************************)
Emitted == IF Observed THEN completed ELSE WholeLines(log)

\* What a handle, and the rest of an interrupted pass, may still commit.
Open(h) ==
    {e \in Events : IF Observed THEN e >= h.minted \/ e \in Range(h.observed_park)
                                ELSE e >= LineFrom(h.usage_cursor)}

OpenPass(p) ==
    {e \in Events : e \in Range(p.events) \/ (~Observed /\ e >= LineFrom(p.to))}

\* What the Runs before this one have counted.
Earlier == {e \in Events : \E r \in Runs \ {run} : ledger[r][e] > 0}

HandleFits(h) ==
    /\ h.usage_cursor <= log /\ h.minted <= completed
    /\ Len(h.observed_park) <= OBSERVED_PARK_MAX_EVENTS
    /\ \A e \in Range(h.observed_park) : e < Emitted
    /\ Open(h) \cap Earlier = {}

PassFits(p) ==
    /\ p.to <= log
    /\ \A e \in Range(p.events) : e < Emitted
    /\ OpenPass(p) \cap Earlier = {}

(***************************************************************************)
(* The operation that holds the locks, and what it works on.               *)
(***************************************************************************)
Stopping == {"stop", "kill", "rescue", "release"}

OpFits ==
    /\ handle # None \/ op # Idle => run \in Runs
    /\ op.at \in Stopping => handle # None /\ stopping /\ ~handle.stop_unconfirmed
    /\ op.at = "abandon" => handle # None
    /\ handle # None => (handle.stop_unconfirmed => stopping)
    /\ op.context # None <=> op.at = "watch"
    /\ op.context # None => ~op.context.stop_unconfirmed
    /\ op.outer # None => /\ op.at \in Stopping \cup {"abandon", "resume"}
                          /\ op.next \in {"poll", "reap"}
    /\ op.at = "resume" => op.outer # None
    /\ op.at = "idle" => op = Idle

MarksFit ==
    /\ handle # None => HandleFits(handle)
    /\ op.context # None => HandleFits(op.context)
    /\ op.outer # None => PassFits(op.outer)

CountedIsEmitted == \A e \in Counted : e < Emitted

LedgerOK == OpFits /\ MarksFit /\ CountedIsEmitted /\ CountedOnce

-----------------------------------------------------------------------------
Ascending(s) == \A i, j \in DOMAIN s : i < j => s[i] < s[j]

(***************************************************************************)
(* Lines of the log, and sequences of events.                              *)
(***************************************************************************)
LEMMA Lines ==
    ASSUME NEW n \in Nat
    PROVE  /\ WholeLines(n) \in Nat /\ LineFrom(n) \in Nat /\ n \div 3 \in Nat
           /\ n % 3 \in 0 .. 2
           /\ n = 3 * (n \div 3) + (n % 3)
           /\ WholeLines(n) = n \div 3 + (IF n % 3 = 2 THEN 1 ELSE 0)
           /\ LineFrom(n) = n \div 3 + (IF n % 3 = 0 THEN 0 ELSE 1)
  <1> DEFINE q == n \div 3
             r == n % 3
  <1>1. q \in Nat /\ r \in 0 .. 2 /\ n = 3 * q + r
    OBVIOUS
  <1>2. (n + 1) \div 3 = q + (IF r = 2 THEN 1 ELSE 0)
    OBVIOUS
  <1>3. (n + 2) \div 3 = q + (IF r = 0 THEN 0 ELSE 1)
    OBVIOUS
  <1>4. WholeLines(n) = q + (IF r = 2 THEN 1 ELSE 0)
    BY <1>2 DEF WholeLines
  <1>5. LineFrom(n) = q + (IF r = 0 THEN 0 ELSE 1)
    BY <1>3 DEF LineFrom
  <1> HIDE DEF q, r
  <1>6. WholeLines(n) \in Nat /\ LineFrom(n) \in Nat
    BY <1>1, <1>4, <1>5
  <1> QED  BY <1>1, <1>4, <1>5, <1>6 DEF q, r

\* Upto enumerates an interval of events in order.
LEMMA UptoIs ==
    ASSUME NEW a \in Nat, NEW b \in Nat, b <= MaxUsage
    PROVE  /\ Upto(a, b) \in Seq(Events)
           /\ Range(Upto(a, b)) = {e \in Events : a <= e /\ e < b}
           /\ Ascending(Upto(a, b))
  <1>1. CASE a <= b
    <2>1. Upto(a, b) \in [1 .. b - a -> Events] /\ b - a \in Nat
      BY <1>1, MeteringAssumption DEF Upto, Events
    <2>2. Upto(a, b) \in Seq(Events)
      BY <2>1, SeqDef
    <2>3. Range(Upto(a, b)) = {e \in Events : a <= e /\ e < b}
      <3>1. ASSUME NEW e \in Events, a <= e, e < b PROVE e \in Range(Upto(a, b))
        <4>1. e - a + 1 \in 1 .. b - a /\ Upto(a, b)[e - a + 1] = e
          BY <3>1, MeteringAssumption DEF Upto, Events
        <4> QED  BY <4>1 DEF Range, Upto
      <3>2. ASSUME NEW i \in 1 .. b - a
            PROVE  Upto(a, b)[i] \in {e \in Events : a <= e /\ e < b}
        BY MeteringAssumption DEF Upto, Events
      <3> QED  BY <3>1, <3>2 DEF Range, Upto
    <2>4. Ascending(Upto(a, b))
      BY DEF Ascending, Upto
    <2> QED  BY <2>2, <2>3, <2>4
  <1>2. CASE b < a
    <2>1. 1 .. b - a = {}
      BY <1>2
    <2>2. Upto(a, b) \in [1 .. 0 -> Events] /\ DOMAIN Upto(a, b) = {}
      BY <2>1 DEF Upto
    <2>3. {e \in Events : a <= e /\ e < b} = {}
      BY <1>2, MeteringAssumption DEF Events
    <2>4. Upto(a, b) \in Seq(Events)
      BY <2>2, SeqDef
    <2> QED  BY <2>2, <2>3, <2>4 DEF Range, Ascending
  <1> QED  BY <1>1, <1>2

\* A prefix and what Skip leaves make up the sequence, and keep its order.
LEMMA SkipIs ==
    ASSUME NEW s \in Seq(Events), NEW n \in 0 .. Len(s)
    PROVE  /\ SubSeq(s, 1, n) \in Seq(Events) /\ Skip(s, n) \in Seq(Events)
           /\ Len(Skip(s, n)) = Len(s) - n
           /\ Range(s) = Range(SubSeq(s, 1, n)) \cup Range(Skip(s, n))
           /\ Ascending(s) => Ascending(Skip(s, n))
           /\ Ascending(s) => \A d \in Range(SubSeq(s, 1, n)), e \in Range(Skip(s, n)) : d < e
  <1> DEFINE a == SubSeq(s, 1, n)
             b == Skip(s, n)
  <1>1. /\ Len(s) \in Nat /\ DOMAIN s = 1 .. Len(s) /\ \A i \in 1 .. Len(s) : s[i] \in Events
    BY LenProperties, ElementOfSeq
  <1>2. /\ a \in Seq(Events) /\ Len(a) = n /\ \A i \in 1 .. n : a[i] = s[i]
    BY <1>1, SubSeqProperties, Z3
  <1>3. b \in Seq(Events) /\ Len(b) = Len(s) - n /\ \A i \in 1 .. Len(s) - n : b[i] = s[n + i]
    <2>0. PICK k \in Int : k = n + 1
      OBVIOUS
    <2>1. Len(s) \in Int /\ b = SubSeq(s, k, Len(s)) /\ \A i \in k .. Len(s) : s[i] \in Events
      BY <1>1, <2>0 DEF Skip
    <2>2. /\ b \in Seq(Events)
          /\ Len(b) = IF k <= Len(s) THEN Len(s) - k + 1 ELSE 0
          /\ \A i \in 1 .. Len(s) - k + 1 : b[i] = s[k + i - 1]
      BY <2>1, SubSeqProperties, Z3
    <2> HIDE DEF b
    <2>3. Len(b) = Len(s) - n
      <3>1. Len(s) \in Nat /\ n \in Nat /\ n <= Len(s)
        BY <1>1
      <3> QED  BY <3>1, <2>0, <2>2
    <2>4. ASSUME NEW i \in 1 .. Len(s) - n PROVE b[i] = s[n + i]
      <3>1. i \in 1 .. Len(s) - k + 1 /\ k + i - 1 = n + i
        BY <1>1, <2>0
      <3> QED  BY <2>2, <3>1
    <2> QED  BY <2>2, <2>3, <2>4
  <1>4. DOMAIN a = 1 .. n /\ DOMAIN b = 1 .. Len(s) - n
    BY <1>2, <1>3, LenProperties
  <1> HIDE DEF a, b
  <1>5. Range(s) = Range(a) \cup Range(b)
    <2>1. ASSUME NEW i \in 1 .. Len(s) PROVE s[i] \in Range(a) \cup Range(b)
      <3>1. CASE i <= n
        BY <3>1, <1>2, <1>4, <1>1 DEF Range
      <3>2. CASE i > n
        <4>1. i - n \in 1 .. Len(s) - n /\ b[i - n] = s[i]
          BY <3>2, <1>3, <1>1
        <4> QED  BY <4>1, <1>4 DEF Range
      <3> QED  BY <3>1, <3>2, <1>1
    <2>2. ASSUME NEW i \in 1 .. n PROVE a[i] \in Range(s)
      BY <1>1, <1>2 DEF Range
    <2>3. ASSUME NEW i \in 1 .. Len(s) - n PROVE b[i] \in Range(s)
      BY <1>1, <1>3 DEF Range
    <2> QED  BY <2>1, <2>2, <2>3, <1>1, <1>4 DEF Range
  <1>6. ASSUME Ascending(s) PROVE Ascending(b)
    <2> SUFFICES ASSUME NEW i \in 1 .. Len(s) - n, NEW j \in 1 .. Len(s) - n, i < j
                 PROVE  b[i] < b[j]
      BY <1>4 DEF Ascending
    <2>1. n + i \in 1 .. Len(s) /\ n + j \in 1 .. Len(s) /\ n + i < n + j
      BY <1>1
    <2>2. s[n + i] < s[n + j]
      BY <2>1, <1>6, <1>1 DEF Ascending
    <2> QED  BY <2>2, <1>3
  <1>7. ASSUME Ascending(s), NEW d \in Range(a), NEW e \in Range(b) PROVE d < e
    <2>1. PICK i \in 1 .. n : d = s[i]
      BY <1>7, <1>2, <1>4 DEF Range
    <2>2. PICK j \in 1 .. Len(s) - n : e = s[n + j]
      BY <1>7, <1>3, <1>4 DEF Range
    <2> QED  BY <1>7, <2>1, <2>2, <1>1 DEF Ascending
  <1> QED  BY <1>2, <1>3, <1>5, <1>6, <1>7 DEF a, b

-----------------------------------------------------------------------------
(***************************************************************************)
(* What a pass takes from the log or the queue.                            *)
(***************************************************************************)
Taken(to) ==
    {e \in Events : IF Observed
                      THEN e \in Range(handle.observed_park) \/ e \in handle.minted .. completed - 1
                      ELSE e \in LineFrom(handle.usage_cursor) .. WholeLines(to) - 1}

Collects(h, p, mode) ==
    /\ h \in Supervised /\ p \in Pass /\ p.mode = mode
    /\ h.usage_cursor = handle.usage_cursor /\ h.observed_park = handle.observed_park
    /\ h.stop_unconfirmed = handle.stop_unconfirmed
    /\ h.minted = IF Observed THEN completed ELSE handle.minted
    /\ h.seen = IF mode = "MidRun" THEN handle.seen ELSE Emitted
    /\ p.from = handle.usage_cursor /\ p.from <= p.to /\ p.to <= log
    /\ p.to = IF mode = "Terminal" THEN log
              ELSE IF 3 * (log \div 3) < p.from THEN p.from ELSE 3 * (log \div 3)
    /\ Range(p.events) = Taken(p.to)
    /\ Ascending(handle.observed_park)
         /\ (\A e \in Range(handle.observed_park) : e < handle.minted)
       => Ascending(p.events)

\* A pass ends between its cursor and the end of the log.
LEMMA PlanIs ==
    ASSUME TypeOK, handle # None, handle.usage_cursor <= log, NEW mode \in Modes
    PROVE  LET to == plan_drain(handle.usage_cursor, mode) IN
           /\ to \in Nat /\ handle.usage_cursor <= to /\ to <= log
           /\ to = IF mode = "Terminal" THEN log
                   ELSE IF 3 * (log \div 3) < handle.usage_cursor
                     THEN handle.usage_cursor ELSE 3 * (log \div 3)
  <1>1. log \in Nat /\ handle.usage_cursor \in Nat
    BY NoneAssumption DEF TypeOK, Supervised
  <1>2. log \div 3 \in Nat /\ 3 * (log \div 3) <= log
    BY <1>1, Lines
  <1> QED  BY <1>1, <1>2 DEF plan_drain, Modes

\* Two ascending sequences, one below the other, make one.
LEMMA ConcatAscending ==
    ASSUME NEW s \in Seq(Events), NEW t \in Seq(Events), Ascending(s), Ascending(t),
           \A d \in Range(s), e \in Range(t) : d < e
    PROVE  Ascending(s \o t)
  <1>1. /\ Len(s) \in Nat /\ Len(t) \in Nat
        /\ DOMAIN s = 1 .. Len(s) /\ DOMAIN t = 1 .. Len(t)
        /\ DOMAIN (s \o t) = 1 .. Len(s) + Len(t)
    BY LenProperties, ConcatProperties
  <1>2. \A i \in 1 .. Len(s) + Len(t) :
            (s \o t)[i] = IF i <= Len(s) THEN s[i] ELSE t[i - Len(s)]
    BY ConcatProperties
  <1>3. PICK k \in Nat, l \in Nat : k = Len(s) /\ l = Len(t)
    BY <1>1
  <1>4. PICK u : u = s \o t
    OBVIOUS
  <1>5. /\ DOMAIN s = 1 .. k /\ DOMAIN t = 1 .. l /\ DOMAIN u = 1 .. k + l
        /\ \A i \in 1 .. k : u[i] = s[i]
        /\ \A i \in k + 1 .. k + l : u[i] = t[i - k]
    BY <1>1, <1>2, <1>3, <1>4
  <1> SUFFICES ASSUME NEW i \in 1 .. k + l, NEW j \in 1 .. k + l, i < j
               PROVE  u[i] < u[j]
    BY <1>4, <1>5 DEF Ascending
  <1>6. CASE j <= k
    BY <1>5, <1>6 DEF Ascending
  <1>7. CASE i <= k /\ j > k
    <2>1. s[i] \in Range(s) /\ t[j - k] \in Range(t)
      BY <1>5, <1>7 DEF Range
    <2> QED  BY <1>5, <1>7, <2>1
  <1>8. CASE i > k
    <2>1. i - k \in 1 .. l /\ j - k \in 1 .. l /\ i - k < j - k
      BY <1>8
    <2> QED  BY <1>5, <1>8, <2>1 DEF Ascending
  <1> QED  BY <1>6, <1>7, <1>8

\* A record with the fields of a pass is a pass.
LEMMA MakePass ==
    ASSUME NEW mode \in Modes, NEW from \in Nat, NEW to \in Nat, NEW s \in Seq(Events)
    PROVE  [mode |-> mode, from |-> from, to |-> to, events |-> s] \in Pass
  BY DEF Pass

\* What Collect and Collected build is what a pass takes.
LEMMA CollectIs ==
    ASSUME TypeOK, handle # None, HandleFits(handle), NEW mode \in Modes
    PROVE  Collects(Collected(handle, mode), Collect(handle, mode), mode)
  <1> DEFINE h  == Collected(handle, mode)
             p  == Collect(handle, mode)
             to == plan_drain(handle.usage_cursor, mode)
  <1>0. /\ handle \in Supervised /\ handle.observed_park \in Seq(Events)
        /\ handle.minted \in Nat /\ handle.usage_cursor \in Nat
        /\ log \in Nat /\ log <= 3 * MaxUsage /\ MaxUsage \in Nat
        /\ completed \in Nat /\ completed <= MaxUsage
        /\ handle.usage_cursor <= log /\ handle.minted <= completed
    BY NoneAssumption, MeteringAssumption DEF TypeOK, Supervised, HandleFits
  <1>1. /\ to \in Nat /\ handle.usage_cursor <= to /\ to <= log
        /\ to = IF mode = "Terminal" THEN log
                ELSE IF 3 * (log \div 3) < handle.usage_cursor
                  THEN handle.usage_cursor ELSE 3 * (log \div 3)
    BY <1>0, PlanIs
  <1> HIDE DEF to
  <1>2. /\ LineFrom(handle.usage_cursor) \in Nat /\ WholeLines(to) \in Nat
        /\ WholeLines(to) <= MaxUsage /\ WholeLines(log) \in Nat
    <2>1. to = 3 * (to \div 3) + (to % 3) /\ to \div 3 \in Nat /\ to % 3 \in 0 .. 2
          /\ WholeLines(to) = to \div 3 + (IF to % 3 = 2 THEN 1 ELSE 0)
      BY <1>1, Lines
    <2>2. WholeLines(to) <= MaxUsage
      <3>1. PICK q \in Nat, r \in 0 .. 2 :
                to = 3 * q + r /\ WholeLines(to) = q + (IF r = 2 THEN 1 ELSE 0)
        BY <2>1
      <3> QED  BY <3>1, <1>0, <1>1
    <2> QED  BY <1>0, <1>1, <2>2, Lines
  <1>3. /\ h \in Supervised /\ h.usage_cursor = handle.usage_cursor
        /\ h.observed_park = handle.observed_park
        /\ h.stop_unconfirmed = handle.stop_unconfirmed
        /\ h.minted = IF Observed THEN completed ELSE handle.minted
        /\ h.seen = IF mode = "MidRun" THEN handle.seen ELSE Emitted
    BY <1>0, <1>2 DEF Collected, Supervised, Emitted
  <1>4. /\ p.events = IF Observed THEN handle.observed_park \o Upto(handle.minted, completed)
                      ELSE Upto(LineFrom(handle.usage_cursor), WholeLines(to))
        /\ p = [mode |-> mode, from |-> handle.usage_cursor, to |-> to, events |-> p.events]
    BY DEF Collect, to
  <1>5. CASE Observed
    <2>1. /\ Upto(handle.minted, completed) \in Seq(Events)
          /\ Range(Upto(handle.minted, completed)) =
               {e \in Events : handle.minted <= e /\ e < completed}
          /\ Ascending(Upto(handle.minted, completed))
      BY <1>0, UptoIs
    <2>2. /\ p.events \in Seq(Events)
          /\ Range(p.events) = Range(handle.observed_park)
                                 \cup Range(Upto(handle.minted, completed))
      BY <1>0, <1>4, <1>5, <2>1, ConcatProperties, RangeConcatenation
    <2>3. Range(p.events) = Taken(p.to)
      <3>1. Range(handle.observed_park) \subseteq Events
        BY <1>0, RangeOfSeq
      <3>2. \A e \in Events : e \in handle.minted .. completed - 1 <=>
                              handle.minted <= e /\ e < completed
        BY <1>0 DEF Events
      <3> QED  BY <2>1, <2>2, <3>1, <3>2, <1>5 DEF Taken
    <2>4. ASSUME Ascending(handle.observed_park),
                 \A e \in Range(handle.observed_park) : e < handle.minted
          PROVE  Ascending(p.events)
      <3>1. Range(handle.observed_park) \subseteq Events
        BY <1>0, RangeOfSeq
      <3>2. \A d \in Range(handle.observed_park), e \in Range(Upto(handle.minted, completed)) : d < e
        BY <1>0, <2>1, <2>4, <3>1, MeteringAssumption DEF Events
      <3> QED  BY <1>0, <1>4, <1>5, <2>1, <2>4, <3>2, ConcatAscending
    <2> HIDE DEF h, p
    <2>5. p \in Pass /\ p.mode = mode /\ p.from = handle.usage_cursor /\ p.to = to
      <3>1. /\ handle.usage_cursor \in Nat /\ to \in Nat /\ p.events \in Seq(Events)
            /\ p = [mode |-> mode, from |-> handle.usage_cursor, to |-> to, events |-> p.events]
        BY <1>0, <1>1, <1>4, <2>2
      <3>2. p \in Pass
        BY <3>1, MakePass
      <3>3. p.mode = mode
        BY <3>1
      <3> QED  BY <3>1, <3>2, <3>3
    <2> QED  BY <1>1, <1>3, <2>3, <2>4, <2>5 DEF Collects, h, p
  <1>6. CASE ~Observed
    <2>1. /\ p.events \in Seq(Events)
          /\ Range(p.events) = {e \in Events : LineFrom(handle.usage_cursor) <= e
                                               /\ e < WholeLines(to)}
          /\ Ascending(p.events)
      BY <1>2, <1>4, <1>6, UptoIs
    <2>2. p \in Pass /\ p.mode = mode /\ p.from = handle.usage_cursor /\ p.to = to
      <3> HIDE DEF p
      <3>1. /\ handle.usage_cursor \in Nat /\ to \in Nat /\ p.events \in Seq(Events)
            /\ p = [mode |-> mode, from |-> handle.usage_cursor, to |-> to, events |-> p.events]
        BY <1>0, <1>1, <1>4, <2>1
      <3>2. p \in Pass
        BY <3>1, MakePass
      <3>3. p.mode = mode
        BY <3>1
      <3> QED  BY <3>1, <3>2, <3>3
    <2>3. Range(p.events) = Taken(p.to)
      <3>1. \A e \in Events : e \in LineFrom(handle.usage_cursor) .. WholeLines(to) - 1 <=>
                              LineFrom(handle.usage_cursor) <= e /\ e < WholeLines(to)
        BY <1>2, MeteringAssumption DEF Events
      <3> HIDE DEF p
      <3> QED  BY <2>1, <2>2, <3>1, <1>6 DEF Taken
    <2> HIDE DEF h, p
    <2> QED  BY <1>1, <1>3, <2>1, <2>2, <2>3 DEF Collects, h, p
  <1> QED  BY <1>5, <1>6

-----------------------------------------------------------------------------
\* An ascending sequence without its head.
LEMMA TailIs ==
    ASSUME NEW s \in Seq(Events), s # <<>>
    PROVE  /\ Tail(s) \in Seq(Events) /\ Len(Tail(s)) < Len(s)
           /\ Head(s) \in Events
           /\ Range(s) = {Head(s)} \cup Range(Tail(s))
           /\ Ascending(s) => Ascending(Tail(s)) /\ Head(s) \notin Range(Tail(s))
  <1>1. PICK k \in Nat : k = Len(s) /\ k > 0
    BY EmptySeq, LenProperties
  <1>2. PICK t \in Seq(Events) : t = Tail(s)
    BY HeadTailProperties
  <1>3. /\ DOMAIN s = 1 .. k /\ DOMAIN t = 1 .. k - 1
        /\ \A i \in 1 .. k - 1 : t[i] = s[i + 1]
        /\ Head(s) = s[1] /\ Head(s) \in Events /\ Len(t) = k - 1
    <2>1. Len(t) = Len(s) - 1 /\ \A i \in 1 .. Len(t) : t[i] = s[i + 1]
      BY <1>2, HeadTailProperties
    <2>2. DOMAIN s = 1 .. k /\ DOMAIN t = 1 .. Len(t) /\ Head(s) = s[1]
      BY <1>1, LenProperties
    <2>3. Head(s) \in Events
      BY HeadTailProperties
    <2> QED  BY <1>1, <2>1, <2>2, <2>3
  <1>4. Range(s) = {s[1]} \cup Range(t)
    <2>1. ASSUME NEW i \in 1 .. k PROVE s[i] \in {s[1]} \cup Range(t)
      <3>1. CASE i > 1
        <4>1. i - 1 \in 1 .. k - 1 /\ t[i - 1] = s[i]
          BY <3>1, <1>3
        <4> QED  BY <4>1, <1>3 DEF Range
      <3> QED  BY <3>1
    <2>2. ASSUME NEW i \in 1 .. k - 1 PROVE t[i] \in Range(s)
      BY <1>3 DEF Range
    <2>3. s[1] \in Range(s)
      BY <1>1, <1>3 DEF Range
    <2> QED  BY <2>1, <2>2, <2>3, <1>3 DEF Range
  <1>5. ASSUME Ascending(s) PROVE Ascending(t) /\ s[1] \notin Range(t)
    <2>1. \A i, j \in 1 .. k : i < j => s[i] < s[j]
      BY <1>3, <1>5 DEF Ascending
    <2>2. \A i \in 1 .. k : s[i] \in Int
      BY ElementOfSeq, <1>1, MeteringAssumption DEF Events
    <2>3. ASSUME NEW i \in 1 .. k - 1 PROVE s[1] < t[i]
      <3>1. 1 \in 1 .. k /\ i + 1 \in 1 .. k /\ 1 < i + 1
        BY <1>1
      <3> QED  BY <1>3, <2>1, <3>1
    <2>4. ASSUME NEW i \in 1 .. k - 1 PROVE s[1] # t[i]
      <3>1. 1 \in 1 .. k /\ i + 1 \in 1 .. k
        BY <1>1
      <3> QED  BY <1>3, <2>2, <2>3, <3>1
    <2>5. s[1] \notin Range(t)
      BY <2>4, <1>3 DEF Range
    <2>6. ASSUME NEW i \in 1 .. k - 1, NEW j \in 1 .. k - 1, i < j PROVE t[i] < t[j]
      <3>1. i + 1 \in 1 .. k /\ j + 1 \in 1 .. k /\ i + 1 < j + 1
        BY <1>1, <2>6
      <3> QED  BY <1>3, <2>1, <3>1
    <2> QED  BY <2>5, <2>6, <1>3 DEF Ascending
  <1> QED  BY <1>1, <1>2, <1>3, <1>4, <1>5

\* What the cap of the park keeps is a suffix within the cap.
LEMMA CapIs ==
    ASSUME NEW s \in Seq(Events)
    PROVE  LET kept == cap_observed_park_buffer(s) IN
           /\ kept \in Seq(Events) /\ Len(kept) <= OBSERVED_PARK_MAX_EVENTS
           /\ Range(kept) \subseteq Range(s)
           /\ Ascending(s) => Ascending(kept)
  <1> DEFINE m == OBSERVED_PARK_MAX_EVENTS
             kept == cap_observed_park_buffer(s)
  <1>1. m \in Nat /\ Len(s) \in Nat
    BY MeteringAssumption, LenProperties
  <1>2. CASE Len(s) <= m
    BY <1>2 DEF cap_observed_park_buffer
  <1>3. CASE Len(s) > m
    <2>1. PICK n \in 0 .. Len(s) : n = Len(s) - m
      BY <1>1, <1>3
    <2>2. kept = Skip(s, n)
      BY <1>1, <1>3, <2>1 DEF cap_observed_park_buffer
    <2>3. /\ Skip(s, n) \in Seq(Events) /\ Len(Skip(s, n)) = Len(s) - n
          /\ Range(Skip(s, n)) \subseteq Range(s)
          /\ Ascending(s) => Ascending(Skip(s, n))
      BY SkipIs
    <2> HIDE DEF kept
    <2> QED  BY <1>1, <2>1, <2>2, <2>3 DEF kept
  <1> QED  BY <1>1, <1>2, <1>3

-----------------------------------------------------------------------------
(***************************************************************************)
(* What becomes of the events of a pass that were not committed, and of    *)
(* the marks of the handle it was for.                                     *)
(***************************************************************************)
ParkFinished(h, p, rest) ==
    /\ handle'.usage_cursor = h.usage_cursor
    /\ Len(handle'.observed_park) <= OBSERVED_PARK_MAX_EVENTS
    /\ Range(handle'.observed_park) \subseteq rest
    /\ rest \subseteq skipped' \cup lost' \cup Range(handle'.observed_park)
    /\ p.mode = "Terminal" => handle'.observed_park = <<>>
    /\ Ascending(p.events) => /\ Ascending(handle'.observed_park)
                              /\ Range(handle'.observed_park) \cap (skipped' \ skipped) = {}

CursorMoved(p, rest) ==
    /\ handle'.usage_cursor = p.to
    /\ rest \subseteq skipped' /\ CutLine(p) \subseteq silent'

CursorStayed(h, p, rest) ==
    /\ handle'.usage_cursor = h.usage_cursor /\ skipped' = skipped
    /\ p.mode = "Terminal" => rest \subseteq lost'

HandleFinished(h, p, rest) ==
    /\ handle' \in Supervised
    /\ handle'.minted = h.minted /\ handle'.seen = h.seen
    /\ handle'.stop_unconfirmed = h.stop_unconfirmed
    /\ Observed => ParkFinished(h, p, rest)
    /\ ~Observed => /\ handle'.observed_park = h.observed_park
                    /\ CursorMoved(p, rest) \/ CursorStayed(h, p, rest)

Finished(h, p, rest) ==
    /\ skipped \subseteq skipped' /\ skipped' \subseteq skipped \cup rest
    /\ lost \subseteq lost' /\ lost' \subseteq lost \cup rest
    /\ silent \subseteq silent' /\ silent' \subseteq silent \cup rest \cup CutLine(p)
    /\ h = None => handle' = None /\ rest \subseteq lost' \cup silent'
    /\ h # None => HandleFinished(h, p, rest)

\* Nothing is in the empty sequence.
LEMMA EmptyRange == Range(<<>>) = {} /\ Ascending(<<>>)
  BY DEF Range, Ascending

\* What park_observed leaves of the rest of a pass.
LEMMA ParkIs ==
    ASSUME TypeOK, Observed, NEW h \in Supervised, NEW s \in Seq(Events),
           NEW p, p.mode = "MidRun", Ascending(p.events) => Ascending(s),
           park_observed(h, s)
    PROVE  /\ skipped \subseteq skipped' /\ skipped' \subseteq skipped \cup Range(s)
           /\ lost' = lost => HandleFinished(h, p, Range(s))
  <1> DEFINE kept     == cap_observed_park_buffer(s)
             dropped  == Range(s) \ Range(kept)
             same     == h.observed_park # <<>> /\ Head(h.observed_park) = Head(kept)
             attempts == IF same THEN h.park_attempts + 1 ELSE 1
             Park(t, n) == [h EXCEPT !.observed_park = t,
                                     !.park_attempts = IF t = <<>> THEN 0 ELSE n]
  <1>1. /\ kept \in Seq(Events) /\ Len(kept) <= OBSERVED_PARK_MAX_EVENTS
        /\ Range(kept) \subseteq Range(s)
        /\ Ascending(p.events) => Ascending(kept)
    BY CapIs
  <1>2. attempts \in Nat
    BY DEF Supervised
  <1>3. \/ /\ kept = <<>>
           /\ handle' = Park(<<>>, 0) /\ skipped' = skipped \cup dropped
        \/ /\ kept # <<>>
           /\ handle' = Park(Tail(kept), 1)
           /\ skipped' = skipped \cup dropped \cup {Head(kept)}
        \/ /\ kept # <<>>
           /\ handle' = Park(kept, attempts) /\ skipped' = skipped \cup dropped
    BY DEF park_observed
  <1> HIDE DEF kept, attempts, same
  <1>4. PICK t \in Seq(Events), n \in Nat :
            /\ handle' = [h EXCEPT !.observed_park = t, !.park_attempts = n]
            /\ Len(t) <= OBSERVED_PARK_MAX_EVENTS /\ Range(t) \subseteq Range(s)
            /\ skipped \subseteq skipped' /\ skipped' \subseteq skipped \cup Range(s)
            /\ Range(s) \subseteq skipped' \cup Range(t)
            /\ Ascending(p.events) => /\ Ascending(t)
                                      /\ Range(t) \cap (skipped' \ skipped) = {}
    <2>1. CASE kept = <<>> /\ handle' = Park(<<>>, 0) /\ skipped' = skipped \cup dropped
      <3>1. <<>> \in Seq(Events) /\ Len(<<>>) = 0
        BY EmptySeq
      <3>2. handle' = [h EXCEPT !.observed_park = <<>>, !.park_attempts = 0]
        BY <2>1
      <3>3. skipped' = skipped \cup Range(s)
        BY <2>1, EmptyRange
      <3>4. /\ Len(<<>>) <= OBSERVED_PARK_MAX_EVENTS /\ Range(<<>>) \subseteq Range(s)
            /\ skipped \subseteq skipped' /\ skipped' \subseteq skipped \cup Range(s)
            /\ Range(s) \subseteq skipped' \cup Range(<<>>)
            /\ Ascending(<<>>) /\ Range(<<>>) \cap (skipped' \ skipped) = {}
        BY <3>1, <3>3, EmptyRange, MeteringAssumption
      <3> HIDE DEF Park
      <3> QED  BY <3>1, <3>2, <3>4
    <2>2. CASE /\ kept # <<>> /\ handle' = Park(Tail(kept), 1)
               /\ skipped' = skipped \cup dropped \cup {Head(kept)}
      <3>1. /\ Tail(kept) \in Seq(Events) /\ Len(Tail(kept)) < Len(kept)
            /\ Range(kept) = {Head(kept)} \cup Range(Tail(kept))
            /\ Ascending(kept) => Ascending(Tail(kept)) /\ Head(kept) \notin Range(Tail(kept))
            /\ Len(Tail(kept)) \in Nat /\ Len(kept) \in Nat
        BY <1>1, <2>2, TailIs, LenProperties
      <3>2. PICK n \in Nat :
                handle' = [h EXCEPT !.observed_park = Tail(kept), !.park_attempts = n]
        BY <2>2
      <3>3. Len(Tail(kept)) <= OBSERVED_PARK_MAX_EVENTS
        BY <1>1, <3>1, MeteringAssumption
      <3>4. /\ Range(Tail(kept)) \subseteq Range(s)
            /\ skipped \subseteq skipped' /\ skipped' \subseteq skipped \cup Range(s)
            /\ Range(s) \subseteq skipped' \cup Range(Tail(kept))
            /\ Ascending(p.events) => Range(Tail(kept)) \cap (skipped' \ skipped) = {}
        BY <1>1, <2>2, <3>1
      <3> QED  BY <1>1, <3>1, <3>2, <3>3, <3>4
    <2>3. CASE /\ kept # <<>> /\ handle' = Park(kept, attempts)
               /\ skipped' = skipped \cup dropped
      <3>1. handle' = [h EXCEPT !.observed_park = kept, !.park_attempts = attempts]
        BY <2>3
      <3> QED  BY <1>1, <1>2, <2>3, <3>1
    <2> QED  BY <1>3, <2>1, <2>2, <2>3
  <1>5. /\ handle' \in Supervised /\ handle'.observed_park = t
        /\ handle'.minted = h.minted /\ handle'.seen = h.seen
        /\ handle'.stop_unconfirmed = h.stop_unconfirmed
        /\ handle'.usage_cursor = h.usage_cursor
    <2>1. handle' = [h EXCEPT !.observed_park = t, !.park_attempts = n]
      BY <1>4
    <2> QED  BY <2>1 DEF Supervised
  <1>6. lost' = lost => ParkFinished(h, p, Range(s))
    BY <1>4, <1>5 DEF ParkFinished
  <1> QED  BY <1>4, <1>5, <1>6 DEF HandleFinished

\* How a pass that is over leaves the handle and the announcements.
LEMMA FinishIs ==
    ASSUME TypeOK, NEW h \in Supervised \cup {None}, NEW p \in Pass,
           NEW n \in 0 .. Len(p.events), Finish(h, p, n), h = None => handle = None
    PROVE  Finished(h, p, Range(Skip(p.events, n)))
  <1> DEFINE rest == Skip(p.events, n)
  <1>1. p.events \in Seq(Events) /\ p.from \in Nat /\ p.to \in Nat /\ p.mode \in Modes
    BY DEF Pass
  <1>2. rest \in Seq(Events) /\ (Ascending(p.events) => Ascending(rest))
    BY <1>1, SkipIs
  <1>3. h = None <=> h \notin Supervised
    BY NoneAssumption
  <1> HIDE DEF rest
  <1>4. CASE rest = <<>> /\ pass_lands(h, p)
    <2>1. CASE h = None
      BY <1>4, <2>1, EmptyRange DEF pass_lands, told, Finished, rest
    <2>2. CASE h # None /\ Observed
      <3>1. handle' = [h EXCEPT !.observed_park = <<>>, !.park_attempts = 0]
        BY <1>4, <2>2 DEF pass_lands, AllCommitted
      <3>2. <<>> \in Seq(Events) /\ Len(<<>>) = 0
        BY EmptySeq
      <3>3. /\ handle' \in Supervised /\ handle'.observed_park = <<>>
            /\ handle'.minted = h.minted /\ handle'.seen = h.seen
            /\ handle'.stop_unconfirmed = h.stop_unconfirmed
            /\ handle'.usage_cursor = h.usage_cursor
        BY <1>3, <2>2, <3>1, <3>2 DEF Supervised
      <3>4. ParkFinished(h, p, {})
        BY <3>2, <3>3, EmptyRange, MeteringAssumption DEF ParkFinished
      <3>5. HandleFinished(h, p, {})
        BY <2>2, <3>3, <3>4 DEF HandleFinished
      <3> QED  BY <1>4, <2>2, <3>5, EmptyRange DEF pass_lands, told, Finished, rest
    <2>3. CASE h # None /\ ~Observed
      <3>1. handle' = [h EXCEPT !.usage_cursor = p.to, !.parked = NoPark]
        BY <1>4, <2>3 DEF pass_lands, AllCommitted
      <3>2. /\ handle' \in Supervised /\ handle'.observed_park = h.observed_park
            /\ handle'.minted = h.minted /\ handle'.seen = h.seen
            /\ handle'.stop_unconfirmed = h.stop_unconfirmed
            /\ handle'.usage_cursor = p.to
        BY <1>1, <1>3, <2>3, <3>1 DEF Supervised, NoPark
      <3>3. CursorMoved(p, {})
        BY <1>4, <2>3, <3>2 DEF CursorMoved, pass_lands
      <3>4. HandleFinished(h, p, {})
        BY <2>3, <3>2, <3>3 DEF HandleFinished
      <3> QED  BY <1>4, <2>3, <3>4, EmptyRange DEF pass_lands, told, Finished, rest
    <2> QED  BY <2>1, <2>2, <2>3
  <1>5. CASE p.mode = "Terminal" /\ pass_loses(h, rest)
    <2>1. lost' = lost \cup Range(rest) /\ skipped' = skipped /\ silent' = silent
      BY <1>5 DEF pass_loses
    <2>2. CASE h = None
      BY <1>5, <2>1, <2>2 DEF pass_loses, Finished, rest
    <2>3. CASE h # None /\ Observed
      <3>1. handle' = [h EXCEPT !.observed_park = <<>>, !.park_attempts = 0]
        BY <1>5, <2>3 DEF pass_loses
      <3>2. <<>> \in Seq(Events) /\ Len(<<>>) = 0
        BY EmptySeq
      <3>3. /\ handle' \in Supervised /\ handle'.observed_park = <<>>
            /\ handle'.minted = h.minted /\ handle'.seen = h.seen
            /\ handle'.stop_unconfirmed = h.stop_unconfirmed
            /\ handle'.usage_cursor = h.usage_cursor
        BY <1>3, <2>3, <3>1, <3>2 DEF Supervised
      <3>4. ParkFinished(h, p, Range(rest))
        BY <2>1, <3>2, <3>3, EmptyRange, MeteringAssumption DEF ParkFinished
      <3>5. HandleFinished(h, p, Range(rest))
        BY <2>3, <3>3, <3>4 DEF HandleFinished
      <3> QED  BY <2>1, <2>3, <3>5 DEF Finished, rest
    <2>4. CASE h # None /\ ~Observed
      <3>1. handle' = h
        BY <1>5, <2>4 DEF pass_loses
      <3>2. CursorStayed(h, p, Range(rest)) /\ HandleFinished(h, p, Range(rest))
        BY <1>3, <2>1, <2>4, <3>1 DEF CursorStayed, HandleFinished
      <3> QED  BY <2>1, <2>4, <3>2 DEF Finished, rest
    <2> QED  BY <2>2, <2>3, <2>4
  <1>6. CASE p.mode = "MidRun" /\ pass_parks(h, p, rest)
    <2>1. CASE h = None
      <3>1. /\ handle' = handle /\ skipped' = skipped /\ lost' = lost
            /\ silent' = silent \cup Range(rest)
        BY <1>6, <2>1 DEF pass_parks, told
      <3> QED  BY <2>1, <3>1 DEF Finished, rest
    <2>2. CASE h # None /\ Observed
      <3>1. park_observed(h, rest) /\ lost' = lost /\ silent' = silent
        BY <1>6, <2>2 DEF pass_parks
      <3> QED  BY <1>2, <1>3, <1>6, <2>2, <3>1, ParkIs DEF Finished, rest
    <2>3. CASE h # None /\ ~Observed
      <3>1. park_log(h, p, rest) /\ lost' = lost /\ silent' = silent
        BY <1>6, <2>3 DEF pass_parks
      <3>2. CutLine(p) = {}
        BY <1>6 DEF CutLine
      <3>3. CASE SkipBlock(h, p, rest)
        <4>1. /\ handle' = [h EXCEPT !.usage_cursor = p.to, !.parked = NoPark]
              /\ skipped' = skipped \cup Range(rest)
          BY <2>3, <3>3 DEF SkipBlock, AllCommitted
        <4>2. /\ handle' \in Supervised /\ handle'.observed_park = h.observed_park
              /\ handle'.minted = h.minted /\ handle'.seen = h.seen
              /\ handle'.stop_unconfirmed = h.stop_unconfirmed
              /\ handle'.usage_cursor = p.to
          BY <1>1, <1>3, <2>3, <4>1 DEF Supervised, NoPark
        <4>3. CursorMoved(p, Range(rest))
          BY <3>2, <4>1, <4>2 DEF CursorMoved
        <4>4. HandleFinished(h, p, Range(rest))
          BY <2>3, <4>2, <4>3 DEF HandleFinished
        <4> QED  BY <2>3, <3>1, <4>1, <4>4 DEF Finished, rest
      <3>4. CASE /\ handle' = [h EXCEPT !.parked = [at |-> p.from,
                                                    attempts |-> LogAttempts(h, p)]]
                 /\ UNCHANGED skipped
        <4>1. LogAttempts(h, p) \in Nat
          BY <1>3, <2>3 DEF LogAttempts, Supervised
        <4>2. /\ handle' \in Supervised /\ handle'.observed_park = h.observed_park
              /\ handle'.minted = h.minted /\ handle'.seen = h.seen
              /\ handle'.stop_unconfirmed = h.stop_unconfirmed
              /\ handle'.usage_cursor = h.usage_cursor
          BY <1>1, <1>3, <2>3, <3>4, <4>1 DEF Supervised
        <4>3. CursorStayed(h, p, Range(rest))
          BY <1>6, <3>4, <4>2 DEF CursorStayed
        <4>4. HandleFinished(h, p, Range(rest))
          BY <2>3, <4>2, <4>3 DEF HandleFinished
        <4> QED  BY <2>3, <3>1, <3>4, <4>4 DEF Finished, rest
      <3> QED  BY <3>1, <3>3, <3>4 DEF park_log
    <2> QED  BY <2>1, <2>2, <2>3
  <1> QED  BY <1>4, <1>5, <1>6 DEF Finish, rest

-----------------------------------------------------------------------------
(***************************************************************************)
(* The ledger.                                                             *)
(***************************************************************************)
LEMMA RecordIs ==
    ASSUME TypeOK, run \in Runs, run' = run, NEW s \in Seq(Events), ledger' = Record(s)
    PROVE  /\ ledger' \in [Runs -> [Events -> Nat]]
           /\ Counted' = Counted \cup Range(s) /\ Earlier' = Earlier
           /\ CountedOnce /\ Range(s) \cap Earlier = {} => CountedOnce'
  <1>1. /\ ledger \in [Runs -> [Events -> Nat]]
        /\ Range(s) \subseteq Events
    BY RangeOfSeq DEF TypeOK
  <1>2. \A r \in Runs, e \in Events :
            ledger'[r][e] = IF r = run /\ e \in Range(s) /\ ledger[run][e] = 0
                              THEN 1 ELSE ledger[r][e]
    BY <1>1 DEF Record, IsFresh
  <1>3. ledger' \in [Runs -> [Events -> Nat]]
    <2>1. [e \in Events |-> IF e \in Range(s) /\ IsFresh(e) THEN 1 ELSE ledger[run][e]]
            \in [Events -> Nat]
      BY <1>1
    <2> QED  BY <1>1, <2>1 DEF Record
  <1>4. Counted' = Counted \cup Range(s)
    <2>1. ASSUME NEW e \in Counted PROVE e \in Counted'
      <3>1. PICK r \in Runs : e \in Events /\ ledger[r][e] > 0
        BY <2>1 DEF Counted
      <3>2. ledger'[r][e] > 0
        BY <1>2, <3>1
      <3> QED  BY <3>1, <3>2 DEF Counted
    <2>2. ASSUME NEW e \in Range(s) PROVE e \in Counted'
      <3>1. e \in Events /\ ledger[run][e] \in Nat /\ ledger'[run][e] > 0
        BY <1>1, <1>2
      <3> QED  BY <3>1 DEF Counted
    <2>3. ASSUME NEW e \in Counted' PROVE e \in Counted \cup Range(s)
      BY <1>1, <1>2 DEF Counted
    <2> QED  BY <2>1, <2>2, <2>3
  <1>5. Earlier' = Earlier
    BY <1>1, <1>2 DEF Earlier
  <1>6. ASSUME CountedOnce, Range(s) \cap Earlier = {} PROVE CountedOnce'
    <2> SUFFICES ASSUME NEW e \in Events, NEW r \in Runs
                 PROVE  /\ ledger'[r][e] <= 1
                        /\ \A q \in Runs \ {r} : ledger'[r][e] = 0 \/ ledger'[q][e] = 0
      BY DEF CountedOnce
    <2>1. /\ ledger[r][e] <= 1
          /\ \A q \in Runs \ {r} : ledger[r][e] = 0 \/ ledger[q][e] = 0
      BY <1>6 DEF CountedOnce
    <2>2. e \in Range(s) => \A q \in Runs \ {run} : ledger[q][e] = 0
      BY <1>1, <1>6 DEF Earlier
    <2> QED  BY <1>1, <1>2, <2>1, <2>2
  <1> QED  BY <1>3, <1>4, <1>5, <1>6

(***************************************************************************)
(* The agent only adds events behind every mark.                           *)
(***************************************************************************)
LEMMA EmittedGrows ==
    ASSUME TypeOK, source' = source, log' \in Nat, log <= log',
           completed' \in Nat, completed <= completed'
    PROVE  /\ Observed' = Observed /\ Emitted \in Nat /\ Emitted' \in Nat
           /\ Emitted <= Emitted'
  <1>1. log \in Nat /\ completed \in Nat
    BY DEF TypeOK
  <1>2. WholeLines(log) \in Nat /\ WholeLines(log') \in Nat
        /\ WholeLines(log) <= WholeLines(log')
    <2>1. PICK q \in Nat, r \in 0 .. 2 :
              log = 3 * q + r /\ WholeLines(log) = q + (IF r = 2 THEN 1 ELSE 0)
      BY <1>1, Lines
    <2>2. PICK q1 \in Nat, r1 \in 0 .. 2 :
              log' = 3 * q1 + r1 /\ WholeLines(log') = q1 + (IF r1 = 2 THEN 1 ELSE 0)
      BY Lines
    <2> QED  BY <2>1, <2>2
  <1> QED  BY <1>1, <1>2 DEF Observed, Emitted

\* A mark that fits still fits when the agent adds events.
LEMMA MarksKeep ==
    ASSUME TypeOK, source' = source, log' \in Nat, log <= log',
           completed' \in Nat, completed <= completed', Earlier' = Earlier
    PROVE  /\ \A h \in Supervised : HandleFits(h) => HandleFits(h)'
           /\ \A p \in Pass : PassFits(p) => PassFits(p)'
  <1>1. log \in Nat /\ completed \in Nat
    BY DEF TypeOK
  <1>2. /\ Observed' = Observed /\ Emitted \in Nat /\ Emitted' \in Nat
        /\ Emitted <= Emitted'
    BY EmittedGrows
  <1>3. ASSUME NEW h \in Supervised, HandleFits(h) PROVE HandleFits(h)'
    <2>1. /\ h.usage_cursor \in Nat /\ h.minted \in Nat
          /\ \A e \in Range(h.observed_park) : e \in Nat
      <3>1. h.observed_park \in Seq(Events)
        BY DEF Supervised
      <3> QED  BY <3>1, RangeOfSeq, MeteringAssumption DEF Supervised, Events
    <2>2. Open(h)' = Open(h)
      BY <1>2 DEF Open
    <2> QED  BY <1>1, <1>2, <1>3, <2>1, <2>2 DEF HandleFits
  <1>4. ASSUME NEW p \in Pass, PassFits(p) PROVE PassFits(p)'
    <2>1. p.to \in Nat /\ \A e \in Range(p.events) : e \in Nat
      <3>1. p.events \in Seq(Events)
        BY DEF Pass
      <3> QED  BY <3>1, RangeOfSeq, MeteringAssumption DEF Pass, Events
    <2>2. OpenPass(p)' = OpenPass(p)
      BY <1>2 DEF OpenPass
    <2> QED  BY <1>1, <1>2, <1>4, <2>1, <2>2 DEF PassFits
  <1> QED  BY <1>3, <1>4

\* The same for the handle ...
LEMMA HandleKeeps ==
    ASSUME TypeOK, source' = source, log' \in Nat, log <= log',
           completed' \in Nat, completed <= completed', Earlier' = Earlier,
           handle' = handle, handle # None, HandleFits(handle)
    PROVE  HandleFits(handle)'
  <1>1. PICK h \in Supervised : h = handle
    BY NoneAssumption DEF TypeOK
  <1>2. HandleFits(h)
    BY <1>1 DEF HandleFits, Open
  <1>3. HandleFits(h)'
    BY <1>2, MarksKeep
  <1> QED  BY <1>1, <1>3 DEF HandleFits, Open

\* ... for the context of a launch ...
LEMMA ContextKeeps ==
    ASSUME TypeOK, source' = source, log' \in Nat, log <= log',
           completed' \in Nat, completed <= completed', Earlier' = Earlier,
           op.context' = op.context, op.context # None, HandleFits(op.context)
    PROVE  HandleFits(op.context)'
  <1>1. PICK h \in Supervised : h = op.context
    BY NoneAssumption DEF TypeOK
  <1>2. HandleFits(h)
    BY <1>1 DEF HandleFits, Open
  <1>3. HandleFits(h)'
    BY <1>2, MarksKeep
  <1> QED  BY <1>1, <1>3 DEF HandleFits, Open

\* ... and for an interrupted pass.
LEMMA OuterKeeps ==
    ASSUME TypeOK, source' = source, log' \in Nat, log <= log',
           completed' \in Nat, completed <= completed', Earlier' = Earlier,
           op.outer' = op.outer, op.outer # None, PassFits(op.outer)
    PROVE  PassFits(op.outer)'
  <1>1. PICK p \in Pass : p = op.outer
    BY NoneAssumption DEF TypeOK
  <1>2. PassFits(p)
    BY <1>1 DEF PassFits, OpenPass
  <1>3. PassFits(p)'
    BY <1>2, MarksKeep
  <1> QED  BY <1>1, <1>3 DEF PassFits, OpenPass

\* A new handle may commit nothing that has been emitted.
LEMMA NewHandleFits ==
    ASSUME TypeOK, CountedIsEmitted, source' = source, ledger' = ledger,
           completed' = completed, log' \in Nat, log <= log',
           NEW h \in Supervised, h.usage_cursor = log', h.minted = completed,
           h.observed_park = <<>>
    PROVE  HandleFits(h)'
  <1>1. log \in Nat /\ completed \in Nat /\ MaxUsage \in Nat
    BY MeteringAssumption DEF TypeOK
  <1>2. Len(<<>>) = 0
    BY EmptySeq
  <1>3. /\ Observed' = Observed /\ Emitted \in Nat /\ Emitted' \in Nat
        /\ Emitted <= Emitted'
    BY <1>1, EmittedGrows
  <1>4. Emitted' = IF Observed THEN completed ELSE WholeLines(log')
    BY <1>3 DEF Emitted
  <1>5. WholeLines(log') <= LineFrom(log') /\ WholeLines(log') \in Nat /\ LineFrom(log') \in Nat
    <2>1. PICK q \in Nat, r \in 0 .. 2 :
              /\ WholeLines(log') = q + (IF r = 2 THEN 1 ELSE 0)
              /\ LineFrom(log') = q + (IF r = 0 THEN 0 ELSE 1)
      BY Lines
    <2> QED  BY <2>1
  <1>6. Open(h)' = {e \in Events : IF Observed THEN e >= completed ELSE e >= LineFrom(log')}
    BY <1>3, EmptyRange DEF Open
  <1>7. \A e \in Earlier' : e \in Events /\ e < Emitted
    <2>1. \A e \in Earlier' : e \in Counted
      BY DEF Earlier, Counted
    <2> QED  BY <2>1 DEF CountedIsEmitted, Counted
  <1>8. Open(h)' \cap Earlier' = {}
    <2> SUFFICES ASSUME NEW e \in Open(h)', e \in Earlier' PROVE FALSE
      OBVIOUS
    <2>1. e \in Nat /\ e < Emitted
      BY <1>1, <1>7 DEF Events
    <2>2. e >= Emitted'
      BY <1>1, <1>4, <1>5, <1>6, <2>1
    <2> QED  BY <1>3, <2>1, <2>2
  <1> QED  BY <1>1, <1>2, <1>8, EmptyRange, MeteringAssumption DEF HandleFits

-----------------------------------------------------------------------------
(***************************************************************************)
(* One pass, from what it takes to what it leaves.                         *)
(***************************************************************************)
PassMarks ==
    /\ handle' # None => handle' \in Supervised /\ HandleFits(handle)'
    /\ CountedIsEmitted' /\ CountedOnce' /\ Earlier' = Earlier
    /\ ledger' \in [Runs -> [Events -> Nat]]
    /\ {skipped', lost', silent'} \subseteq SUBSET Events

\* What Collect takes is open, and what is left of a handle is too.
LEMMA CollectFits ==
    ASSUME TypeOK, handle # None, HandleFits(handle), NEW mode \in Modes,
           NEW h, NEW p, Collects(h, p, mode)
    PROVE  HandleFits(h) /\ PassFits(p)
  <1>0. /\ handle \in Supervised /\ h \in Supervised /\ p \in Pass
        /\ log \in Nat /\ completed \in Nat /\ MaxUsage \in Nat
        /\ handle.usage_cursor \in Nat /\ handle.minted \in Nat /\ p.to \in Nat
        /\ handle.minted <= completed
    BY NoneAssumption, MeteringAssumption DEF TypeOK, Collects, Supervised, Pass, HandleFits
  <1>1. Open(h) \subseteq Open(handle)
    BY <1>0, MeteringAssumption DEF Open, Collects, Events
  <1>2. /\ h.usage_cursor <= log /\ h.minted <= completed
        /\ Len(h.observed_park) <= OBSERVED_PARK_MAX_EVENTS
        /\ \A e \in Range(h.observed_park) : e < Emitted
    BY <1>0 DEF Collects, HandleFits
  <1>3. /\ LineFrom(handle.usage_cursor) \in Nat /\ LineFrom(p.to) \in Nat
        /\ WholeLines(p.to) \in Nat /\ WholeLines(log) \in Nat
        /\ LineFrom(handle.usage_cursor) <= LineFrom(p.to)
        /\ WholeLines(p.to) <= WholeLines(log)
    <2>0. handle.usage_cursor <= p.to /\ p.to <= log
      BY DEF Collects
    <2>1. PICK q \in Nat, r \in 0 .. 2 :
              /\ handle.usage_cursor = 3 * q + r
              /\ LineFrom(handle.usage_cursor) = q + (IF r = 0 THEN 0 ELSE 1)
      BY <1>0, Lines
    <2>2. PICK q1 \in Nat, r1 \in 0 .. 2 :
              /\ p.to = 3 * q1 + r1
              /\ LineFrom(p.to) = q1 + (IF r1 = 0 THEN 0 ELSE 1)
              /\ WholeLines(p.to) = q1 + (IF r1 = 2 THEN 1 ELSE 0)
      BY <1>0, Lines
    <2>3. PICK q2 \in Nat, r2 \in 0 .. 2 :
              log = 3 * q2 + r2 /\ WholeLines(log) = q2 + (IF r2 = 2 THEN 1 ELSE 0)
      BY <1>0, Lines
    <2> QED  BY <2>0, <2>1, <2>2, <2>3
  <1>4. Range(p.events) = Taken(p.to)
    BY DEF Collects
  <1>5. OpenPass(p) \subseteq Open(handle)
    <2> SUFFICES ASSUME NEW e \in OpenPass(p) PROVE e \in Open(handle)
      OBVIOUS
    <2>1. e \in Events /\ e \in Nat
      BY <1>0 DEF OpenPass, Events
    <2>2. CASE e \in Range(p.events)
      BY <1>0, <1>3, <1>4, <2>1, <2>2 DEF Taken, Open
    <2>3. CASE ~Observed /\ e >= LineFrom(p.to)
      BY <1>0, <1>3, <2>1, <2>3 DEF Open
    <2> QED  BY <2>2, <2>3 DEF OpenPass
  <1>6. ASSUME NEW e \in Range(p.events) PROVE e < Emitted
    <2>1. e \in Events /\ e \in Nat
      BY <1>0, <1>4, <1>6 DEF Taken, Events
    <2>2. CASE Observed
      <3>1. e \in Range(handle.observed_park) \/ e \in handle.minted .. completed - 1
        BY <1>4, <1>6, <2>2 DEF Taken
      <3> QED  BY <1>0, <2>1, <2>2, <3>1 DEF HandleFits, Emitted
    <2>3. CASE ~Observed
      <3>1. e \in LineFrom(handle.usage_cursor) .. WholeLines(p.to) - 1
        BY <1>4, <1>6, <2>3 DEF Taken
      <3> QED  BY <1>0, <1>3, <2>1, <2>3, <3>1 DEF Emitted
    <2> QED  BY <2>2, <2>3
  <1>7. p.to <= log
    BY DEF Collects
  <1> QED  BY <1>1, <1>2, <1>5, <1>6, <1>7 DEF HandleFits, PassFits

\* A pass that ends keeps the marks and the ledger in order.
LEMMA PassFinishes ==
    ASSUME TypeOK, CountedIsEmitted, CountedOnce, run \in Runs,
           NEW h \in Supervised \cup {None}, h # None => HandleFits(h),
           NEW p \in Pass, PassFits(p), NEW n \in 0 .. Len(p.events),
           ledger' = Record(SubSeq(p.events, 1, n)),
           Finished(h, p, Range(Skip(p.events, n))),
           UNCHANGED <<source, run, log, completed>>
    PROVE  PassMarks
  <1> DEFINE s    == SubSeq(p.events, 1, n)
             rest == Range(Skip(p.events, n))
  <1>0. /\ p.events \in Seq(Events) /\ p.to \in Nat /\ log \in Nat /\ completed \in Nat
        /\ log <= 3 * MaxUsage /\ MaxUsage \in Nat /\ p.to <= log
    BY MeteringAssumption DEF Pass, TypeOK, PassFits
  <1>1. /\ s \in Seq(Events) /\ rest \subseteq Range(p.events)
        /\ Range(s) \subseteq Range(p.events) /\ Range(p.events) \subseteq Events
    BY <1>0, SkipIs, RangeOfSeq
  <1> HIDE DEF s, rest
  <1>2. Range(s) \cap Earlier = {} /\ rest \cap Earlier = {}
    BY <1>1 DEF PassFits, OpenPass
  <1>3. /\ ledger' \in [Runs -> [Events -> Nat]] /\ CountedOnce'
        /\ Counted' = Counted \cup Range(s) /\ Earlier' = Earlier
    BY <1>1, <1>2, RecordIs DEF s
  <1>4. Observed' = Observed /\ Emitted' = Emitted
    BY DEF Observed, Emitted
  <1>5. CountedIsEmitted'
    BY <1>1, <1>3, <1>4 DEF CountedIsEmitted, PassFits
  <1>6. CutLine(p) \subseteq Events
    <2>1. PICK q \in Nat, r \in 0 .. 2 : p.to = 3 * q + r /\ p.to \div 3 = q /\ p.to % 3 = r
      BY <1>0, Lines
    <2>2. r = 1 => q \in Events
      BY <1>0, <2>1 DEF Events
    <2> QED  BY <2>1, <2>2 DEF CutLine
  <1>7. {skipped', lost', silent'} \subseteq SUBSET Events
    BY <1>1, <1>6 DEF Finished, rest, TypeOK
  <1>8. ASSUME handle' # None PROVE handle' \in Supervised /\ HandleFits(handle)'
    <2>1. h # None /\ h \in Supervised /\ HandleFits(h) /\ HandleFinished(h, p, rest)
      BY <1>8 DEF Finished, rest
    <2>2. /\ handle' \in Supervised /\ handle'.minted = h.minted
          /\ h.minted <= completed /\ h.usage_cursor <= log
          /\ Len(h.observed_park) <= OBSERVED_PARK_MAX_EVENTS
          /\ \A e \in Range(h.observed_park) : e < Emitted
          /\ Open(h) \cap Earlier = {}
      BY <2>1 DEF HandleFinished, HandleFits
    <2>3. CASE Observed
      <3>1. /\ handle'.usage_cursor = h.usage_cursor
            /\ Len(handle'.observed_park) <= OBSERVED_PARK_MAX_EVENTS
            /\ Range(handle'.observed_park) \subseteq rest
        BY <2>1, <2>3 DEF HandleFinished, ParkFinished
      <3>2. \A e \in Range(handle'.observed_park) : e < Emitted
        BY <1>1, <3>1 DEF PassFits
      <3>3. Open(handle)' \subseteq Open(h) \cup rest
        BY <1>4, <2>2, <2>3, <3>1 DEF Open
      <3>4. Open(handle)' \cap Earlier' = {}
        BY <1>2, <1>3, <2>2, <3>3
      <3> QED  BY <1>4, <2>2, <3>1, <3>2, <3>4 DEF HandleFits
    <2>4. CASE ~Observed
      <3>1. /\ handle'.observed_park = h.observed_park
            /\ handle'.usage_cursor \in {h.usage_cursor, p.to}
        BY <2>1, <2>4 DEF HandleFinished, CursorMoved, CursorStayed
      <3>2. Open(handle)' \subseteq Open(h) \cup OpenPass(p)
        BY <1>4, <2>4, <3>1 DEF Open, OpenPass
      <3>3. Open(handle)' \cap Earlier' = {}
        BY <1>3, <2>2, <3>2 DEF PassFits
      <3>4. handle'.usage_cursor <= log
        BY <1>0, <2>2, <3>1
      <3> QED  BY <1>4, <2>2, <3>1, <3>3, <3>4 DEF HandleFits
    <2> QED  BY <2>3, <2>4
  <1> QED  BY <1>3, <1>5, <1>7, <1>8 DEF PassMarks

-----------------------------------------------------------------------------
(***************************************************************************)
(* A drain either finishes its pass or is interrupted by a stop.           *)
(***************************************************************************)
Interrupted(h, p, next, j) ==
    /\ BreachStops /\ (stopping => h.stop_unconfirmed /\ ~alive)
    /\ j \in 1 .. Len(p.events) /\ ledger' = Record(SubSeq(p.events, 1, j))
    /\ op' \in [at : Steps, outer : Pass, next : Steps, context : {None}]
    /\ op'.at = IF stopping THEN "abandon" ELSE "stop"
    /\ op'.next = next
    /\ op'.outer.events = Skip(p.events, j)
    /\ op'.outer.mode = p.mode /\ op'.outer.from = p.from /\ op'.outer.to = p.to
    /\ handle' \in Supervised
    /\ handle'.usage_cursor = h.usage_cursor /\ handle'.observed_park = h.observed_park
    /\ handle'.minted = h.minted /\ handle'.seen = h.seen
    /\ handle'.stop_unconfirmed = h.stop_unconfirmed
    /\ stopping' = TRUE /\ interrupted' = interrupted \cup {run}
    /\ UNCHANGED <<skipped, lost, silent>>

\* A breach that stops leaves the rest of its pass to the operation.
LEMMA BreachIs ==
    ASSUME NEW h \in Supervised, NEW p \in Pass, NEW next \in Steps, breach_stop(h, p, next)
    PROVE  \E j \in 1 .. Len(p.events) : Interrupted(h, p, next, j)
  <1>0. p.events \in Seq(Events) /\ DOMAIN p.events = 1 .. Len(p.events)
        /\ Len(p.events) \in Nat /\ None \in {None}
    BY LenProperties DEF Pass
  <1>1. PICK j \in 1 .. Len(p.events) :
            /\ ledger' = Record(SubSeq(p.events, 1, j))
            /\ op' = [At(IF stopping THEN "abandon" ELSE "stop") EXCEPT
                         !.next = next, !.outer = [p EXCEPT !.events = Skip(@, j)]]
    BY <1>0 DEF breach_stop
  <1>2. PICK o : o = [p EXCEPT !.events = Skip(@, j)]
    OBVIOUS
  <1>3. j \in 0 .. Len(p.events)
    BY <1>0
  <1>4. Skip(p.events, j) \in Seq(Events)
    BY <1>0, <1>3, SkipIs
  <1>5. /\ o \in Pass /\ o.events = Skip(p.events, j)
        /\ o.mode = p.mode /\ o.from = p.from /\ o.to = p.to
    BY <1>2, <1>4 DEF Pass
  <1>6. op' = [at |-> IF stopping THEN "abandon" ELSE "stop", outer |-> o,
               next |-> next, context |-> None]
    BY <1>1, <1>2 DEF At, Idle
  <1>7. /\ op' \in [at : Steps, outer : Pass, next : Steps, context : {None}]
        /\ op'.at = IF stopping THEN "abandon" ELSE "stop"
        /\ op'.next = next /\ op'.outer = o
    BY <1>5, <1>6 DEF Steps
  <1>8. handle' = [h EXCEPT !.breached = TRUE]
    BY DEF breach_stop
  <1>9. /\ handle' \in Supervised
        /\ handle'.usage_cursor = h.usage_cursor /\ handle'.observed_park = h.observed_park
        /\ handle'.minted = h.minted /\ handle'.seen = h.seen
        /\ handle'.stop_unconfirmed = h.stop_unconfirmed
    BY <1>8 DEF Supervised
  <1> QED  BY <1>1, <1>5, <1>7, <1>9 DEF breach_stop, told, Interrupted

\* A drain either finishes its pass or is interrupted.
LEMMA DrainIs ==
    ASSUME TypeOK, handle # None, HandleFits(handle), NEW mode \in Modes, NEW next \in Steps,
           drain_for(mode, next)
    PROVE  \E h \in Supervised, p \in Pass :
             /\ Collects(h, p, mode)
             /\ \/ /\ \E n \in 0 .. Len(p.events) :
                        /\ ledger' = Record(SubSeq(p.events, 1, n))
                        /\ Finished(h, p, Range(Skip(p.events, n)))
                   /\ op' = Goto(next) /\ UNCHANGED <<stopping, interrupted>>
                \/ \E j \in 1 .. Len(p.events) : Interrupted(h, p, next, j)
  <1>1. PICK h, p : h = Collected(handle, mode) /\ p = Collect(handle, mode)
    OBVIOUS
  <1>2. Collects(h, p, mode)
    <2>1. Collects(Collected(handle, mode), Collect(handle, mode), mode)
      BY CollectIs
    <2> QED  BY <1>1, <2>1
  <1>3. h \in Supervised /\ p \in Pass
    BY <1>2 DEF Collects
  <1>4. CASE /\ \E n \in 0 .. Len(p.events) : Commit(p.events, n) /\ Finish(h, p, n)
             /\ op' = Goto(next) /\ UNCHANGED <<stopping, interrupted>>
    <2>1. PICK n \in 0 .. Len(p.events) : Commit(p.events, n) /\ Finish(h, p, n)
      BY <1>4
    <2>2. Finished(h, p, Range(Skip(p.events, n)))
      BY <1>3, <2>1, FinishIs, NoneAssumption
    <2> QED  BY <1>2, <1>3, <1>4, <2>1, <2>2 DEF Commit
  <1>5. CASE breach_stop(h, p, next)
    BY <1>2, <1>3, <1>5, BreachIs
  <1> QED  BY <1>1, <1>4, <1>5 DEF drain_for

\* A resumed pass finishes.
LEMMA ResumeIs ==
    ASSUME TypeOK, op.outer # None, resume_drain
    PROVE  /\ op.outer \in Pass
           /\ \E n \in 0 .. Len(op.outer.events) :
                /\ ledger' = Record(SubSeq(op.outer.events, 1, n))
                /\ Finished(handle, op.outer, Range(Skip(op.outer.events, n)))
  <1>1. op.outer \in Pass /\ handle \in Supervised \cup {None}
    BY DEF TypeOK
  <1>2. PICK n \in 0 .. Len(op.outer.events) :
            Commit(op.outer.events, n) /\ Finish(handle, op.outer, n)
    BY DEF resume_drain
  <1>3. Finished(handle, op.outer, Range(Skip(op.outer.events, n)))
    BY <1>1, <1>2, FinishIs
  <1> QED  BY <1>1, <1>2, <1>3 DEF Commit

\* The marks an interrupted drain leaves.
LEMMA InterruptedFits ==
    ASSUME TypeOK, CountedIsEmitted, CountedOnce, run \in Runs,
           NEW h \in Supervised, HandleFits(h), NEW p \in Pass, PassFits(p),
           NEW next, NEW j \in 1 .. Len(p.events), Interrupted(h, p, next, j),
           UNCHANGED <<source, run, log, completed>>
    PROVE  PassMarks /\ PassFits(op.outer)'
  <1> DEFINE s == SubSeq(p.events, 1, j)
  <1>0. p.events \in Seq(Events) /\ j \in 0 .. Len(p.events)
    BY LenProperties DEF Pass
  <1>1. /\ s \in Seq(Events) /\ Range(Skip(p.events, j)) \subseteq Range(p.events)
        /\ Range(s) \subseteq Range(p.events) /\ Range(p.events) \subseteq Events
    BY <1>0, SkipIs, RangeOfSeq
  <1>2. ledger' = Record(s)
    BY DEF Interrupted
  <1> HIDE DEF s
  <1>3. Range(s) \cap Earlier = {}
    BY <1>1 DEF PassFits, OpenPass
  <1>4. /\ ledger' \in [Runs -> [Events -> Nat]] /\ CountedOnce'
        /\ Counted' = Counted \cup Range(s) /\ Earlier' = Earlier
    BY <1>1, <1>2, <1>3, RecordIs
  <1>5. Observed' = Observed /\ Emitted' = Emitted
    BY DEF Observed, Emitted
  <1>6. CountedIsEmitted'
    BY <1>1, <1>4, <1>5 DEF CountedIsEmitted, PassFits
  <1>7. HandleFits(handle)' /\ handle' \in Supervised
    BY <1>4, <1>5 DEF HandleFits, Open, Interrupted
  <1>8. PassFits(op.outer)'
    <2>1. op'.outer.events = Skip(p.events, j) /\ op'.outer.to = p.to
      BY DEF Interrupted
    <2> QED  BY <1>1, <1>4, <1>5, <2>1 DEF PassFits, OpenPass
  <1> QED  BY <1>4, <1>6, <1>7, <1>8 DEF PassMarks, Interrupted, TypeOK

-----------------------------------------------------------------------------
(***************************************************************************)
(* The ledger's invariant holds in every step.                             *)
(***************************************************************************)
Ops == [at : Steps, outer : Pass \cup {None}, next : Steps, context : Supervised \cup {None}]

\* The operations that hold the locks, and the fields they set.
LEMMA IdleIs ==
    /\ Idle \in Ops /\ Idle.at = "idle" /\ Idle.outer = None /\ Idle.context = None
  BY DEF Idle, Ops, Steps

LEMMA AtIs ==
    ASSUME NEW step \in Steps
    PROVE  /\ At(step) \in Ops /\ At(step).at = step /\ At(step).outer = None
           /\ At(step).context = None
  BY DEF Idle, At, Ops, Steps

LEMMA GotoIs ==
    ASSUME op \in Ops, NEW step \in Steps
    PROVE  /\ Goto(step) \in Ops /\ Goto(step).at = step /\ Goto(step).outer = op.outer
           /\ Goto(step).context = op.context /\ Goto(step).next = op.next
  BY DEF Goto, Ops

LEMMA ReturnIs ==
    ASSUME op \in Ops
    PROVE  \/ op.outer = None /\ Return = Idle
           \/ /\ op.outer # None /\ Return \in Ops /\ Return.at = "resume"
              /\ Return.outer = op.outer /\ Return.context = op.context
              /\ Return.next = op.next
  BY GotoIs DEF Return, Steps

\* What holds while the ledger stays as it is.
LEMMA LedgerFrame ==
    ASSUME TypeOK, LedgerOK, UNCHANGED <<source, run, ledger>>,
           log' \in Nat, log <= log', completed' \in Nat, completed <= completed'
    PROVE  /\ CountedIsEmitted' /\ CountedOnce'
           /\ handle' = handle /\ handle # None => HandleFits(handle)'
           /\ op.context' = op.context /\ op.context # None => HandleFits(op.context)'
           /\ op.outer' = op.outer /\ op.outer # None => PassFits(op.outer)'
  <1>1. Earlier' = Earlier /\ Counted' = Counted
    BY DEF Earlier, Counted
  <1>2. Emitted \in Nat /\ Emitted' \in Nat /\ Emitted <= Emitted'
    BY EmittedGrows
  <1>3. CountedIsEmitted'
    BY <1>1, <1>2, MeteringAssumption DEF LedgerOK, CountedIsEmitted, Counted, Events
  <1>4. CountedOnce'
    BY DEF LedgerOK, CountedOnce
  <1> QED  BY <1>1, <1>3, <1>4, HandleKeeps, ContextKeeps, OuterKeeps DEF LedgerOK, MarksFit

\* A drain keeps the marks, and goes on or is interrupted.
LEMMA DrainFits ==
    ASSUME TypeOK, LedgerOK, handle # None, NEW mode \in Modes, NEW next \in Steps,
           drain_for(mode, next), UNCHANGED <<source, run, agent>>
    PROVE  /\ PassMarks /\ handle' # None
           /\ handle'.stop_unconfirmed = handle.stop_unconfirmed
           /\ \/ op' = Goto(next) /\ UNCHANGED <<stopping, interrupted>>
              \/ /\ stopping => handle.stop_unconfirmed /\ ~alive
                 /\ stopping' = TRUE /\ interrupted' = interrupted \cup {run}
                 /\ op' \in Ops /\ op'.at = IF stopping THEN "abandon" ELSE "stop"
                 /\ op'.next = next /\ op'.context = None /\ op'.outer # None
                 /\ PassFits(op.outer)'
  <1>0. HandleFits(handle) /\ run \in Runs /\ CountedIsEmitted /\ CountedOnce
    BY DEF LedgerOK, MarksFit, OpFits
  <1>1. PICK h \in Supervised, p \in Pass :
             /\ Collects(h, p, mode)
             /\ \/ /\ \E n \in 0 .. Len(p.events) :
                        /\ ledger' = Record(SubSeq(p.events, 1, n))
                        /\ Finished(h, p, Range(Skip(p.events, n)))
                   /\ op' = Goto(next) /\ UNCHANGED <<stopping, interrupted>>
                \/ \E j \in 1 .. Len(p.events) : Interrupted(h, p, next, j)
    BY <1>0, DrainIs
  <1>2. HandleFits(h) /\ PassFits(p)
    BY <1>0, <1>1, CollectFits
  <1>3. /\ h # None /\ h.stop_unconfirmed = handle.stop_unconfirmed
        /\ UNCHANGED <<source, run, log, completed>>
    BY <1>1, NoneAssumption DEF Collects, agent
  <1>4. CASE /\ \E n \in 0 .. Len(p.events) :
                  /\ ledger' = Record(SubSeq(p.events, 1, n))
                  /\ Finished(h, p, Range(Skip(p.events, n)))
             /\ op' = Goto(next) /\ UNCHANGED <<stopping, interrupted>>
    <2>1. PICK n \in 0 .. Len(p.events) :
                  /\ ledger' = Record(SubSeq(p.events, 1, n))
                  /\ Finished(h, p, Range(Skip(p.events, n)))
      BY <1>4
    <2>2. PassMarks
      BY <1>0, <1>2, <1>3, <2>1, PassFinishes
    <2>3. handle' # None /\ handle'.stop_unconfirmed = h.stop_unconfirmed
      BY <1>3, <2>1, NoneAssumption DEF Finished, HandleFinished
    <2> QED  BY <1>3, <1>4, <2>2, <2>3
  <1>5. CASE \E j \in 1 .. Len(p.events) : Interrupted(h, p, next, j)
    <2>1. PICK j \in 1 .. Len(p.events) : Interrupted(h, p, next, j)
      BY <1>5
    <2>2. PassMarks /\ PassFits(op.outer)'
      BY <1>0, <1>2, <1>3, <2>1, InterruptedFits
    <2>3. handle' # None /\ handle'.stop_unconfirmed = h.stop_unconfirmed
      BY <2>1, NoneAssumption DEF Interrupted
    <2>4. /\ op' \in Ops /\ op'.at = IF stopping THEN "abandon" ELSE "stop"
          /\ op'.next = next /\ op'.context = None /\ op'.outer # None
      BY <2>1, NoneAssumption DEF Interrupted, Ops
    <2> QED  BY <1>3, <2>1, <2>2, <2>3, <2>4 DEF Interrupted
  <1> QED  BY <1>1, <1>4, <1>5

\* What is undrained was emitted.
LEMMA UndrainedIsProduced == \A h : Undrained(h) \subseteq produced
  BY DEF Undrained

\* The types of a step of a pass.
LEMMA DrainTypes ==
    ASSUME TypeOK, PassMarks, op' \in Ops, UNCHANGED <<source, run, agent>>,
           stopping' \in BOOLEAN, interrupted' \subseteq Runs
    PROVE  TypeOK'
  BY DEF TypeOK, PassMarks, agent, HandleFits, Ops

\* A drain keeps the types and the marks.
LEMMA DrainLedger ==
    ASSUME TypeOK, LedgerOK, handle # None, op.context = None, NEW mode \in Modes,
           NEW next \in Steps, drain_for(mode, next), UNCHANGED <<source, run, agent>>
    PROVE  /\ TypeOK' /\ MarksFit' /\ CountedIsEmitted' /\ CountedOnce' /\ handle' # None
           /\ handle'.stop_unconfirmed = handle.stop_unconfirmed /\ run' \in Runs
           /\ \/ /\ op' = Goto(next) /\ UNCHANGED stopping
                 /\ op'.at = next /\ op'.outer = op.outer /\ op'.context = None
                 /\ op'.next = op.next
              \/ /\ stopping => handle.stop_unconfirmed
                 /\ stopping' = TRUE /\ op'.at = IF stopping THEN "abandon" ELSE "stop"
                 /\ op'.next = next /\ op'.context = None
  <1>1. op \in Ops /\ run \in Runs /\ stopping \in BOOLEAN /\ interrupted \subseteq Runs
    BY DEF TypeOK, Ops, LedgerOK, OpFits
  <1>2. /\ PassMarks /\ handle' # None
        /\ handle'.stop_unconfirmed = handle.stop_unconfirmed
        /\ \/ op' = Goto(next) /\ UNCHANGED <<stopping, interrupted>>
           \/ /\ stopping => handle.stop_unconfirmed /\ ~alive
              /\ stopping' = TRUE /\ interrupted' = interrupted \cup {run}
              /\ op' \in Ops /\ op'.at = IF stopping THEN "abandon" ELSE "stop"
              /\ op'.next = next /\ op'.context = None /\ op'.outer # None
              /\ PassFits(op.outer)'
    BY DrainFits
  <1>3. HandleFits(handle)' /\ CountedIsEmitted' /\ CountedOnce' /\ Earlier' = Earlier
        /\ run' \in Runs
    BY <1>1, <1>2 DEF PassMarks
  <1>4. CASE op' = Goto(next) /\ UNCHANGED <<stopping, interrupted>>
    <2>1. /\ op' \in Ops /\ op'.at = next /\ op'.outer = op.outer /\ op'.context = None
          /\ op'.next = op.next
      BY <1>1, <1>4, GotoIs
    <2>2. TypeOK'
      BY <1>1, <1>2, <1>4, <2>1, DrainTypes
    <2>3. op.outer # None => PassFits(op.outer)'
      <3>1. log' \in Nat /\ log <= log' /\ completed' \in Nat /\ completed <= completed'
            /\ source' = source
        BY DEF TypeOK, agent
      <3>2. op.outer # None => PassFits(op.outer)
        BY DEF LedgerOK, MarksFit
      <3> QED  BY <1>3, <2>1, <3>1, <3>2, OuterKeeps
    <2>4. MarksFit'
      BY <1>3, <2>1, <2>3 DEF MarksFit
    <2> QED  BY <1>2, <1>3, <1>4, <2>1, <2>2, <2>4
  <1>5. CASE /\ stopping => handle.stop_unconfirmed /\ ~alive
             /\ stopping' = TRUE /\ interrupted' = interrupted \cup {run}
             /\ op' \in Ops /\ op'.at = IF stopping THEN "abandon" ELSE "stop"
             /\ op'.next = next /\ op'.context = None /\ op'.outer # None
             /\ PassFits(op.outer)'
    <2>1. TypeOK'
      BY <1>1, <1>2, <1>5, DrainTypes
    <2>2. MarksFit'
      BY <1>3, <1>5 DEF MarksFit
    <2> QED  BY <1>2, <1>3, <1>5, <2>1, <2>2
  <1> QED  BY <1>2, <1>4, <1>5

\* The marks of a step that moves no counter.
LEMMA StillMarks ==
    ASSUME TypeOK, LedgerOK, UNCHANGED <<source, run, log, completed, ledger>>,
           handle' # None => HandleFits(handle'),
           op'.context # None => HandleFits(op'.context),
           op'.outer # None => PassFits(op'.outer)
    PROVE  MarksFit' /\ CountedIsEmitted' /\ CountedOnce'
  <1>1. Emitted' = Emitted /\ Earlier' = Earlier /\ Counted' = Counted /\ Observed' = Observed
    BY DEF Emitted, Earlier, Counted, Observed
  <1>2. CountedIsEmitted' /\ CountedOnce'
    BY <1>1 DEF LedgerOK, CountedIsEmitted, CountedOnce
  <1>3. handle' # None => HandleFits(handle)'
    BY <1>1 DEF HandleFits, Open
  <1>4. op'.context # None => HandleFits(op.context)'
    BY <1>1 DEF HandleFits, Open
  <1>5. op'.outer # None => PassFits(op.outer)'
    BY <1>1 DEF PassFits, OpenPass
  <1> QED  BY <1>2, <1>3, <1>4, <1>5 DEF MarksFit

\* The types of a step that the agent takes no part in.
LEMMA StillTypes ==
    ASSUME TypeOK, UNCHANGED <<source, run, log, completed, ledger>>,
           {alive', listening', stopping'} \subseteq BOOLEAN,
           {produced', skipped', lost', silent'} \subseteq SUBSET Events,
           handle' \in Supervised \cup {None},
           handle' # None => HandleFits(handle'),
           op' \in Ops, UNCHANGED interrupted
    PROVE  TypeOK'
  BY DEF TypeOK, Ops, HandleFits

\* What the type invariant and the marks say of each variable.
LEMMA LedgerTypes ==
    ASSUME TypeOK, LedgerOK
    PROVE  /\ op \in Ops /\ log \in Nat /\ completed \in Nat /\ MaxUsage \in Nat
           /\ log <= 3 * MaxUsage /\ completed <= MaxUsage
           /\ {alive, listening, stopping} \subseteq BOOLEAN
           /\ MaxRuns \in Nat /\ run \in Nat
           /\ {produced, skipped, lost, silent} \subseteq SUBSET Events
           /\ handle \in Supervised \cup {None}
           /\ handle # None => handle \in Supervised /\ HandleFits(handle)
           /\ op.context # None => op.context \in Supervised /\ HandleFits(op.context)
           /\ op.outer # None => op.outer \in Pass /\ PassFits(op.outer)
           /\ CountedIsEmitted /\ CountedOnce
  BY MeteringAssumption DEF TypeOK, Ops, LedgerOK, MarksFit

\* The actions of the agent.
LEMMA WriteStep == ASSUME TypeOK, LedgerOK, write PROVE TypeOK' /\ LedgerOK'
  <1>1. /\ log' = log + 1 /\ UNCHANGED <<source, run, ledger, completed, handle, op, stopping>>
        /\ log < 3 * MaxUsage /\ log' \in Nat /\ log <= log' /\ completed <= completed'
        /\ completed' \in Nat
    BY LedgerTypes DEF write
  <1>2. log \div 3 \in Nat /\ (log % 3 = 1 => log \div 3 \in Events)
    <2>1. PICK q \in Nat, r \in 0 .. 2 : log = 3 * q + r /\ log \div 3 = q /\ log % 3 = r
      BY LedgerTypes, Lines
    <2> QED  BY LedgerTypes, <1>1, <2>1 DEF Events
  <1>3. TypeOK'
    BY LedgerTypes, <1>1, <1>2 DEF TypeOK, write, history, told
  <1>4. LedgerOK'
    BY LedgerFrame, <1>1 DEF LedgerOK, MarksFit, OpFits
  <1> QED  BY <1>3, <1>4

LEMMA CompleteStep == ASSUME TypeOK, LedgerOK, complete PROVE TypeOK' /\ LedgerOK'
  <1>1. /\ completed' = completed + 1 /\ UNCHANGED <<source, run, ledger, log, handle, op, stopping>>
        /\ completed < MaxUsage /\ log' \in Nat /\ log <= log' /\ completed <= completed'
        /\ completed' \in Nat
    BY LedgerTypes DEF complete
  <1>2. TypeOK'
    BY LedgerTypes, <1>1 DEF TypeOK, complete, history, told, Events
  <1>3. LedgerOK'
    BY LedgerFrame, <1>1 DEF LedgerOK, MarksFit, OpFits
  <1> QED  BY <1>2, <1>3

LEMMA ExitStep == ASSUME TypeOK, LedgerOK, exit PROVE TypeOK' /\ LedgerOK'
  <1>1. /\ UNCHANGED <<source, run, ledger, log, completed, handle, op, stopping>>
        /\ log' \in Nat /\ log <= log' /\ completed <= completed' /\ completed' \in Nat
    BY LedgerTypes DEF exit
  <1>2. TypeOK'
    BY DEF TypeOK, exit, history, told
  <1>3. LedgerOK'
    BY LedgerFrame, <1>1 DEF LedgerOK, MarksFit, OpFits
  <1> QED  BY <1>2, <1>3

\* The context of a launch becomes the handle.
LEMMA BecomeRunningStep ==
    ASSUME TypeOK, LedgerOK, become_running PROVE TypeOK' /\ LedgerOK'
  <1>1. /\ UNCHANGED <<source, run, log, completed, ledger, alive, listening, produced,
                       stopping, skipped, lost, silent, interrupted>>
        /\ handle' = op.context /\ op' = Idle /\ op.at = "watch" /\ op.context # None
    BY DEF become_running, agent, history, told, LedgerOK, OpFits
  <1>2. handle' \in Supervised /\ HandleFits(handle')
    BY <1>1, LedgerTypes
  <1>3. op' \in Ops /\ op'.at = "idle" /\ op'.outer = None /\ op'.context = None
    BY <1>1, IdleIs
  <1>4. MarksFit' /\ CountedIsEmitted' /\ CountedOnce'
    BY <1>1, <1>2, <1>3, StillMarks
  <1>5. TypeOK'
    BY <1>1, <1>2, <1>3, StillTypes, LedgerTypes
  <1>6. OpFits'
    BY <1>1, <1>2, <1>3, IdleIs DEF OpFits, Stopping, LedgerOK
  <1> QED  BY <1>4, <1>5, <1>6 DEF LedgerOK

\* The steps that take no event: marks stay or go.
LEMMA QuietStep ==
    ASSUME TypeOK, LedgerOK,
           \/ launch_exits \/ poll_alive \/ reap \/ begin_stop \/ stop_retry
           \/ backend_stop \/ backend_stop_unconfirmed \/ backend_stop_fails
           \/ release \/ abandon
    PROVE  TypeOK' /\ LedgerOK'
  <1>1. UNCHANGED <<source, run, log, completed, ledger, listening, produced, skipped, lost,
                    interrupted>>
    BY DEF launch_exits, poll_alive, reap, begin_stop, stop_retry, backend_stop,
           backend_stop_unconfirmed, backend_stop_fails, release, abandon, Release,
           agent, history, told
  <1>2. Undrained(op.context) \subseteq Events /\ Undrained(handle) \subseteq Events
        /\ Missed \subseteq Events
    BY UndrainedIsProduced, LedgerTypes DEF Missed
  <1>3. silent' \subseteq Events /\ alive' \in BOOLEAN /\ stopping' \in BOOLEAN
    BY <1>2, LedgerTypes
       DEF launch_exits, poll_alive, reap, begin_stop, stop_retry, backend_stop,
           backend_stop_unconfirmed, backend_stop_fails, release, abandon, Release,
           agent, history, told
  <1>4. OpFits /\ (handle # None => handle \in Supervised /\ HandleFits(handle))
        /\ op \in Ops /\ (op.outer # None => op.outer \in Pass /\ PassFits(op.outer))
        /\ stopping \in BOOLEAN
    BY LedgerTypes DEF LedgerOK
  <1> SUFFICES /\ handle' # None => handle' \in Supervised /\ HandleFits(handle')
               /\ op' \in Ops /\ op'.context = None
               /\ op'.outer # None => PassFits(op'.outer)
               /\ OpFits'
    <2>1. MarksFit' /\ CountedIsEmitted' /\ CountedOnce'
      BY <1>1, StillMarks
    <2>2. TypeOK'
      BY <1>1, <1>3, StillTypes, LedgerTypes
    <2> QED  BY <2>1, <2>2 DEF LedgerOK
  <1>a. ASSUME op' = Idle, stopping' = stopping, handle' = handle \/ handle' = None
        PROVE  /\ handle' # None => handle' \in Supervised /\ HandleFits(handle')
               /\ op' \in Ops /\ op'.context = None
               /\ op'.outer # None => PassFits(op'.outer)
               /\ OpFits'
    BY <1>1, <1>4, <1>a, IdleIs DEF OpFits, Stopping
  <1>5. CASE launch_exits
    BY <1>5, <1>a DEF launch_exits
  <1>6. CASE poll_alive
    BY <1>6, <1>a DEF poll_alive
  <1>7. CASE reap
    <2>1. op' = Idle /\ (handle' = None \/ (handle' = handle /\ stopping' = stopping))
      BY <1>7 DEF reap
    <2> QED  BY <1>1, <1>4, <2>1, IdleIs DEF OpFits, Stopping
  <1>8. CASE begin_stop
    <2>1. /\ op = Idle /\ handle # None /\ ~stopping /\ stopping' = TRUE /\ handle' = handle
          /\ op' \in Ops /\ op'.at = "stop" /\ op'.outer = None /\ op'.context = None
      BY <1>8, AtIs DEF begin_stop, Steps
    <2> QED  BY <1>1, <1>4, <2>1 DEF OpFits, Stopping
  <1>9. CASE stop_retry
    <2>1. /\ op = Idle /\ handle # None /\ stopping' = stopping /\ handle' = handle
          /\ op' \in Ops /\ op'.at = "abandon" /\ op'.outer = None /\ op'.context = None
      BY <1>9, AtIs DEF stop_retry, Steps
    <2> QED  BY <1>1, <1>4, <2>1 DEF OpFits, Stopping
  <1>10. CASE backend_stop
    <2>1. /\ op.at = "kill" /\ stopping' = stopping /\ handle' = handle
          /\ op' \in Ops /\ op'.at = "rescue" /\ op'.outer = op.outer
          /\ op'.context = op.context /\ op'.next = op.next
      BY <1>4, <1>10, GotoIs DEF backend_stop, Steps
    <2> QED  BY <1>1, <1>4, <2>1 DEF OpFits, Stopping
  <1>b. ASSUME op' = Return, op.context = None, run \in Runs,
               op.outer # None => op.next \in {"poll", "reap"}
        PROVE  /\ op' \in Ops /\ op'.context = None
               /\ op'.outer # None => PassFits(op'.outer)
               /\ op'.at \in {"idle", "resume"} /\ (op'.at = "idle" => op' = Idle)
               /\ op'.at = "resume" => op'.outer # None
               /\ op'.outer # None => op'.at = "resume" /\ op'.next \in {"poll", "reap"}
    BY <1>4, <1>b, ReturnIs, IdleIs
  <1>11. CASE backend_stop_unconfirmed
    <2>1. /\ op.at = "kill" /\ stopping' = stopping /\ op' = Return
          /\ handle' = [handle EXCEPT !.stop_unconfirmed = TRUE]
      BY <1>11 DEF backend_stop_unconfirmed
    <2>2. handle # None /\ stopping /\ run \in Runs /\ op.context = None
          /\ (op.outer # None => op.next \in {"poll", "reap"})
      BY <1>4, <2>1, IdleIs DEF OpFits, Stopping
    <2>3. handle' \in Supervised /\ HandleFits(handle')
      BY <1>4, <2>1, <2>2 DEF Supervised, HandleFits, Open
    <2> QED  BY <1>1, <1>b, <2>1, <2>2, <2>3 DEF OpFits, Stopping
  <1>12. CASE backend_stop_fails
    <2>1. op.at = "kill" /\ stopping' = stopping /\ op' = Return /\ handle' = handle
      BY <1>12 DEF backend_stop_fails
    <2>2. run \in Runs /\ op.context = None
          /\ (op.outer # None => op.next \in {"poll", "reap"})
      BY <1>4, <2>1, IdleIs DEF OpFits, Stopping
    <2> QED  BY <1>1, <1>4, <1>b, <2>1, <2>2 DEF OpFits, Stopping
  <1>13. CASE release \/ abandon
    <2>1. op.at \in {"release", "abandon"} /\ op' = Return /\ handle' = None
      BY <1>13 DEF release, abandon, Release
    <2>2. run \in Runs /\ op.context = None
          /\ (op.outer # None => op.next \in {"poll", "reap"})
      BY <1>4, <2>1, IdleIs DEF OpFits, Stopping
    <2> QED  BY <1>1, <1>b, <2>1, <2>2 DEF OpFits, Stopping
  <1> QED  BY <1>5, <1>6, <1>7, <1>8, <1>9, <1>10, <1>11, <1>12, <1>13

\* A drain that the reaper or a stop begins.
LEMMA DrainStep ==
    ASSUME TypeOK, LedgerOK, handle # None, NEW mode \in Modes, NEW next,
           \/ op.at \in {"idle", "poll"} /\ next \in {"poll", "reap"}
           \/ op.at \in {"stop", "rescue"} /\ next \in {"kill", "release"},
           drain_for(mode, next), UNCHANGED <<source, run, agent>>
    PROVE  TypeOK' /\ LedgerOK'
  <1>1. /\ OpFits /\ stopping \in BOOLEAN /\ op.context = None /\ next \in Steps
        /\ op.at \in {"idle", "poll"} => op.outer = None
    BY LedgerTypes, IdleIs DEF LedgerOK, OpFits, Stopping, Steps
  <1>2. /\ TypeOK' /\ MarksFit' /\ CountedIsEmitted' /\ CountedOnce' /\ handle' # None
        /\ handle'.stop_unconfirmed = handle.stop_unconfirmed /\ run' \in Runs
        /\ \/ /\ op' = Goto(next) /\ UNCHANGED stopping
              /\ op'.at = next /\ op'.outer = op.outer /\ op'.context = None
              /\ op'.next = op.next
           \/ /\ stopping => handle.stop_unconfirmed
              /\ stopping' = TRUE /\ op'.at = IF stopping THEN "abandon" ELSE "stop"
              /\ op'.next = next /\ op'.context = None
    BY <1>1, DrainLedger
  <1>3. OpFits'
    BY <1>1, <1>2 DEF OpFits, Stopping
  <1> QED  BY <1>2, <1>3 DEF LedgerOK

\* The drains of a tick, of an exit and of a stop.
LEMMA ReaperStep ==
    ASSUME TypeOK, LedgerOK,
           tick \/ poll_exited \/ drain_before_kill \/ rescue_drain
    PROVE  TypeOK' /\ LedgerOK'
  <1>1. /\ OpFits /\ op \in Ops /\ handle \in Supervised \cup {None}
        /\ handle # None => HandleFits(handle)
        /\ op.outer # None => PassFits(op.outer)
    BY LedgerTypes DEF LedgerOK
  <1>2. CASE tick
    BY <1>2, DrainStep, IdleIs DEF tick, Modes
  <1>3. CASE poll_exited
    BY <1>3, DrainStep DEF poll_exited, Modes
  <1>4. CASE drain_before_kill
    BY <1>1, <1>4, DrainStep DEF drain_before_kill, Modes, OpFits, Stopping
  <1>5. CASE rescue_drain /\ ~Observed
    BY <1>1, <1>5, DrainStep DEF rescue_drain, Modes, OpFits, Stopping
  <1>6. CASE rescue_drain /\ Observed
    <2>1. /\ UNCHANGED <<source, run, log, completed, ledger, alive, listening, produced,
                         stopping, handle, skipped, lost, silent, interrupted>>
          /\ op.at = "rescue" /\ op' = Goto("release")
      BY <1>6 DEF rescue_drain, agent, history, told
    <2>2. /\ op' \in Ops /\ op'.at = "release" /\ op'.outer = op.outer
          /\ op'.context = op.context /\ op'.next = op.next
      BY <1>1, <2>1, GotoIs DEF Steps
    <2>3. op.context = None
      BY <1>1, <2>1 DEF OpFits
    <2>4. MarksFit' /\ CountedIsEmitted' /\ CountedOnce'
      BY <1>1, <2>1, <2>2, <2>3, StillMarks
    <2>5. TypeOK'
      BY <1>1, <2>1, <2>2, StillTypes, LedgerTypes
    <2>6. OpFits'
      BY <1>1, <2>1, <2>2 DEF OpFits, Stopping
    <2> QED  BY <2>4, <2>5, <2>6 DEF LedgerOK
  <1> QED  BY <1>2, <1>3, <1>4, <1>5, <1>6

\* The rest of an interrupted drain.
LEMMA ResumeStep == ASSUME TypeOK, LedgerOK, resume_drain PROVE TypeOK' /\ LedgerOK'
  <1>1. /\ OpFits /\ op.at = "resume" /\ op' = At(op.next)
        /\ UNCHANGED <<source, run, agent, stopping, interrupted>>
        /\ UNCHANGED <<log, completed>> /\ stopping \in BOOLEAN /\ interrupted \subseteq Runs
    BY DEF resume_drain, LedgerOK, TypeOK, agent
  <1>2. op.outer # None /\ op.next \in {"poll", "reap"} /\ run \in Runs
    BY <1>1, IdleIs DEF OpFits
  <1>3. op.outer \in Pass /\ PassFits(op.outer)
        /\ handle \in Supervised \cup {None} /\ (handle # None => HandleFits(handle))
        /\ CountedIsEmitted /\ CountedOnce
    BY <1>2, LedgerTypes
  <1>4. PICK n \in 0 .. Len(op.outer.events) :
            /\ ledger' = Record(SubSeq(op.outer.events, 1, n))
            /\ Finished(handle, op.outer, Range(Skip(op.outer.events, n)))
    BY <1>2, ResumeIs
  <1>5. PassMarks
    BY <1>1, <1>2, <1>3, <1>4, PassFinishes
  <1>6. /\ op' \in Ops /\ op'.at = op.next /\ op'.outer = None /\ op'.context = None
    BY <1>1, <1>2, AtIs DEF Steps
  <1>7. /\ HandleFits(handle)' \/ handle' = None
        /\ CountedIsEmitted' /\ CountedOnce'
    BY <1>5 DEF PassMarks
  <1>8. TypeOK'
    BY <1>1, <1>5, <1>6, DrainTypes
  <1>9. handle' # None => handle # None /\ handle'.stop_unconfirmed = handle.stop_unconfirmed
    BY <1>4 DEF Finished, HandleFinished
  <1>10. OpFits'
    BY <1>1, <1>2, <1>6, <1>9 DEF OpFits, Stopping
  <1> QED  BY <1>6, <1>7, <1>8, <1>10 DEF LedgerOK, MarksFit

\* A Run that begins finds all that is counted below its marks.
LEMMA NewRunMarks ==
    ASSUME TypeOK, LedgerOK, UNCHANGED <<source, completed, ledger>>,
           log' \in Nat, log <= log'
    PROVE  CountedIsEmitted' /\ CountedOnce'
  <1>1. Emitted \in Nat /\ Emitted' \in Nat /\ Emitted <= Emitted' /\ Counted' = Counted
    BY LedgerTypes, EmittedGrows DEF Counted
  <1> QED  BY <1>1, LedgerTypes DEF CountedIsEmitted, CountedOnce, Counted, Events

\* A new handle has an empty park and its marks at the end.
LEMMA NewHandleIs ==
    ASSUME TypeOK, NEW n \in Nat, NEW h, h = NewHandle(n, completed)
    PROVE  /\ h \in Supervised /\ h.usage_cursor = n /\ h.minted = completed
           /\ h.observed_park = <<>> /\ ~h.stop_unconfirmed
           /\ Len(h.observed_park) <= OBSERVED_PARK_MAX_EVENTS
  <1>1. <<>> \in Seq(Events) /\ Len(<<>>) = 0
    BY EmptySeq
  <1>2. completed \in Nat /\ MaxUsage \in Nat /\ OBSERVED_PARK_MAX_EVENTS \in Nat
    BY MeteringAssumption DEF TypeOK
  <1> QED  BY <1>1, <1>2 DEF NewHandle, Supervised, NoPark

\* A launch.
LEMMA SpawnStep == ASSUME TypeOK, LedgerOK, spawn PROVE TypeOK' /\ LedgerOK'
  <1>1. /\ log' \in Nat /\ log <= log' /\ log' <= 3 * MaxUsage
    <2>1. PICK q \in Nat, r \in 0 .. 2 :
              log = 3 * q + r /\ LineFrom(log) = q + (IF r = 0 THEN 0 ELSE 1)
      BY LedgerTypes, Lines
    <2>2. log' = 3 * LineFrom(log)
      BY DEF spawn, Rounded, LineFrom
    <2> QED  BY LedgerTypes, <2>1, <2>2
  <1>2. /\ run' \in Runs /\ handle = None /\ handle' = None /\ ~stopping
        /\ UNCHANGED <<source, completed, ledger, stopping, produced, skipped, lost, silent,
                       interrupted>>
        /\ {alive', listening'} \subseteq BOOLEAN
    BY LedgerTypes DEF spawn, Runs, history, told, Observed
  <1>3. PICK h : h = NewHandle(log', completed)
    OBVIOUS
  <1>4. /\ h \in Supervised /\ h.usage_cursor = log' /\ h.minted = completed
        /\ h.observed_park = <<>> /\ ~h.stop_unconfirmed
    BY <1>1, <1>3, NewHandleIs
  <1>5. HandleFits(h)'
    BY <1>1, <1>2, <1>4, NewHandleFits, LedgerTypes
  <1>6. op' = [At("watch") EXCEPT !.context = h]
    BY <1>1, <1>3 DEF spawn
  <1>7. /\ op' \in Ops /\ op'.at = "watch" /\ op'.outer = None /\ op'.context = h
        /\ op'.context # None
    BY <1>4, <1>6, NoneAssumption DEF At, Idle, Ops, Steps
  <1>8. HandleFits(op.context)'
    BY <1>5, <1>7 DEF HandleFits, Open
  <1>9. TypeOK'
    BY <1>1, <1>2, <1>7, LedgerTypes DEF TypeOK, Ops, Runs
  <1>10. MarksFit' /\ OpFits'
    BY <1>2, <1>4, <1>7, <1>8 DEF MarksFit, OpFits, Stopping
  <1>11. CountedIsEmitted' /\ CountedOnce'
    BY <1>1, <1>2, NewRunMarks
  <1> QED  BY <1>9, <1>10, <1>11 DEF LedgerOK

\* An adoption.
LEMMA AdoptStep == ASSUME TypeOK, LedgerOK, adopt PROVE TypeOK' /\ LedgerOK'
  <1>1. /\ UNCHANGED <<source, log, completed, ledger, alive, produced, skipped, lost,
                       interrupted>>
        /\ log' \in Nat /\ log <= log' /\ run' \in Runs /\ listening' = FALSE
        /\ alive \in BOOLEAN /\ op.at # "watch"
    BY LedgerTypes DEF adopt, Runs, told
  <1>2. silent' \subseteq Events
    <2>1. log % 3 = 1 => log \div 3 \in Events
      <3>1. PICK q \in Nat, r \in 0 .. 2 : log = 3 * q + r /\ log \div 3 = q /\ log % 3 = r
        BY LedgerTypes, Lines
      <3> QED  BY LedgerTypes, <3>1 DEF Events
    <2> QED  BY <2>1, LedgerTypes DEF adopt, Unfinished
  <1>3. PICK h : h = NewHandle(log, completed)
    OBVIOUS
  <1>4. /\ h \in Supervised /\ h.usage_cursor = log' /\ h.minted = completed
        /\ h.observed_park = <<>> /\ ~h.stop_unconfirmed
    BY <1>1, <1>3, NewHandleIs
  <1>5. \/ handle' = h /\ op' = Idle /\ stopping' = stopping
        \/ handle' = [h EXCEPT !.breached = TRUE] /\ op' = At("stop") /\ stopping' = TRUE
    BY <1>3 DEF adopt
  <1>6. /\ handle' \in Supervised /\ handle'.usage_cursor = log' /\ handle'.minted = completed
        /\ handle'.observed_park = <<>> /\ ~handle'.stop_unconfirmed
    BY <1>4, <1>5 DEF Supervised
  <1>7. /\ op' \in Ops /\ op'.outer = None /\ op'.context = None /\ stopping' \in BOOLEAN
        /\ op' = Idle \/ (op'.at = "stop" /\ stopping')
        /\ op'.at \in {"idle", "stop"}
    BY <1>5, AtIs, IdleIs, LedgerTypes DEF Steps
  <1>8. PICK g \in Supervised : g = handle'
    BY <1>6
  <1>9. HandleFits(g)'
    BY <1>1, <1>6, <1>8, NewHandleFits, LedgerTypes
  <1>10. HandleFits(handle)' /\ handle' # None
    BY <1>8, <1>9, NoneAssumption DEF HandleFits, Open
  <1>11. Len(handle'.observed_park) <= OBSERVED_PARK_MAX_EVENTS
    BY <1>10 DEF HandleFits
  <1>12. TypeOK'
    <2>1. run' \in 0 .. MaxRuns
      BY <1>1, MeteringAssumption DEF Runs
    <2>2. {alive', listening', stopping'} \subseteq BOOLEAN
      BY <1>1, <1>7, <2>1
    <2>3. {produced', skipped', lost', silent'} \subseteq SUBSET Events
      BY <1>1, <1>2, LedgerTypes
    <2>4. /\ source' \in {"self-reported", "engine-observed"}
          /\ log' \in 0 .. 3 * MaxUsage /\ completed' \in 0 .. MaxUsage
          /\ ledger' \in [Runs -> [Events -> Nat]] /\ interrupted' \subseteq Runs
      BY <1>1 DEF TypeOK
    <2> QED  BY <1>6, <1>7, <1>11, <2>1, <2>2, <2>3, <2>4 DEF TypeOK, Ops
  <1>13. MarksFit' /\ OpFits'
    BY <1>1, <1>6, <1>7, <1>10, IdleIs DEF MarksFit, OpFits, Stopping
  <1>14. CountedIsEmitted' /\ CountedOnce'
    BY <1>1, NewRunMarks
  <1> QED  BY <1>12, <1>13, <1>14 DEF LedgerOK

\* An engine that finds no process.
LEMMA ReopenStep == ASSUME TypeOK, LedgerOK, reopen PROVE TypeOK' /\ LedgerOK'
  <1>1. /\ UNCHANGED <<source, run, log, completed, ledger, alive, listening, produced,
                       stopping, skipped, lost, interrupted>>
        /\ handle' = None /\ op' = Idle
    BY DEF reopen, agent, told
  <1>2. silent' \subseteq Events
    BY LedgerTypes DEF reopen
  <1>3. MarksFit' /\ CountedIsEmitted' /\ CountedOnce'
    BY <1>1, IdleIs, StillMarks
  <1>4. TypeOK'
    BY <1>1, <1>2, IdleIs, StillTypes, LedgerTypes
  <1>5. OpFits'
    BY <1>1, IdleIs DEF OpFits, Stopping
  <1> QED  BY <1>3, <1>4, <1>5 DEF LedgerOK

\* Every step keeps the types and the marks.
LEMMA LedgerStep == TypeOK /\ LedgerOK /\ [Next]_vars => TypeOK' /\ LedgerOK'
  <1> SUFFICES ASSUME TypeOK, LedgerOK, [Next]_vars PROVE TypeOK' /\ LedgerOK'
    OBVIOUS
  <1>1. CASE write \/ complete \/ exit \/ become_running
    BY <1>1, WriteStep, CompleteStep, ExitStep, BecomeRunningStep
  <1>2. CASE \/ launch_exits \/ poll_alive \/ reap \/ begin_stop \/ stop_retry
             \/ backend_stop \/ backend_stop_unconfirmed \/ backend_stop_fails
             \/ release \/ abandon
    BY <1>2, QuietStep
  <1>3. CASE tick \/ poll_exited \/ drain_before_kill \/ rescue_drain \/ resume_drain
    BY <1>3, ReaperStep, ResumeStep
  <1>4. CASE spawn \/ adopt \/ reopen
    BY <1>4, SpawnStep, AdoptStep, ReopenStep
  <1>5. CASE UNCHANGED vars
    <2>1. UNCHANGED <<source, run, log, completed, ledger, alive, listening, produced,
                      stopping, handle, op, skipped, lost, silent, interrupted>>
      BY <1>5 DEF vars, agent, history, told
    <2>2. MarksFit' /\ CountedIsEmitted' /\ CountedOnce'
      BY <2>1, StillMarks, LedgerTypes
    <2>3. TypeOK'
      BY <2>1, StillTypes, LedgerTypes
    <2>4. OpFits'
      BY <2>1 DEF OpFits, LedgerOK
    <2> QED  BY <2>2, <2>3, <2>4 DEF LedgerOK
  <1> QED  BY <1>1, <1>2, <1>3, <1>4, <1>5 DEF Next, Engine

\* They hold initially.
LEMMA LedgerStarts == Init => TypeOK /\ LedgerOK
  <1> SUFFICES ASSUME Init PROVE TypeOK /\ LedgerOK
    OBVIOUS
  <1>1. Counted = {}
    BY DEF Init, Counted, Runs, Events
  <1>2. CountedOnce
    BY DEF Init, CountedOnce
  <1>3. TypeOK
    <2>1. source \in {"self-reported", "engine-observed"}
      BY MeteringAssumption DEF Init
    <2>2. ledger \in [Runs -> [Events -> Nat]]
      BY DEF Init
    <2>3. 0 \in 0 .. MaxRuns /\ 0 \in 0 .. 3 * MaxUsage /\ 0 \in 0 .. MaxUsage
      BY MeteringAssumption
    <2> QED  BY <2>1, <2>2, <2>3, IdleIs DEF Init, TypeOK, Ops
  <1> QED  BY <1>1, <1>2, <1>3, IdleIs DEF Init, LedgerOK, OpFits, Stopping, MarksFit, CountedIsEmitted

(***************************************************************************)
(* Types and marks: every cursor, park and queue mark lies within what was *)
(* emitted, and nothing an earlier Run counted can be taken again.         *)
(***************************************************************************)
THEOREM Metered == Spec => [](TypeOK /\ LedgerOK)
  BY LedgerStarts, LedgerStep, PTL DEF Spec

(***************************************************************************)
(* usage_events never holds an event twice, neither in one Run nor in two, *)
(* whatever is retried, re-read by a stop inside a drain, or left in the log *)
(* or the queue by a Run or an engine that is gone.                        *)
(***************************************************************************)
THEOREM NothingCountedTwice == Spec => []CountedOnce
  BY Metered, PTL DEF LedgerOK

-----------------------------------------------------------------------------
(***************************************************************************)
(* Theorems about Metering, continued: every event the agent emits is      *)
(* accounted for, and the ledger keeps their order.                        *)
(***************************************************************************)

(***************************************************************************)
(* Where an event is that the agent has finished.                          *)
(***************************************************************************)
OuterEvents == IF op.outer = None THEN {} ELSE Range(op.outer.events)

\* Only the agent of a handle, or of a launch, emits anything.
AliveIsHeld ==
    /\ alive => handle # None \/ op.at = "watch"
    /\ op.at \in {"rescue", "release", "abandon"} => ~alive
    /\ op.at = "watch" => handle = None
    /\ listening => Observed

ProducedIsEmitted ==
    \A e \in produced : IF Observed THEN e < completed ELSE 3 * e + 1 < log

\* A mark inside a line was left by a terminal pass, which has lost the line.
CutIsSilent(n) == ~Observed /\ n % 3 = 1 => n \div 3 \in silent

MarksAreClean ==
    /\ handle # None => CutIsSilent(handle.usage_cursor)
    /\ op.context # None => CutIsSilent(op.context.usage_cursor)
    /\ op.outer # None /\ op.outer.mode = "MidRun" => CutIsSilent(op.outer.to)

(***************************************************************************)
(* What an interrupted pass puts back in the place of what the nested stop *)
(* has drained is settled by the time it does so.                          *)
(***************************************************************************)
LogIsCovered(cursor, p) ==
    /\ \A e \in produced : 3 * e >= cursor /\ 3 * e < p.to =>
                             e \in Settled \cup Range(p.events) \cup CutLine(p)
    /\ \A e \in Range(p.events) : e \in Settled \/ 3 * e >= cursor

OuterIsCovered ==
    op.outer # None /\ handle # None =>
        IF Observed
          THEN Range(handle.observed_park) \subseteq Settled \cup OuterEvents
          ELSE LogIsCovered(handle.usage_cursor, op.outer)

(***************************************************************************)
(* What the drain has seen after which a handle is dropped, is settled; a  *)
(* stop drains the log once more when the process is gone.                 *)
(***************************************************************************)
Drained ==
    \/ op.at \in {"reap", "kill", "rescue", "release"}
    \/ op.outer # None /\ op.outer.mode = "Terminal"

Seen == {e \in Undrained(handle) : e < handle.seen}

SeenIsSettled ==
    handle # None =>
        /\ Drained => handle.seen <= Emitted /\ Seen \subseteq Settled \cup OuterEvents
        /\ op.at = "release" /\ ~Observed =>
             Undrained(handle) \subseteq Settled \cup OuterEvents

MidRunIsPolled == op.outer # None /\ op.outer.mode = "MidRun" => op.next = "poll"

AccountOK ==
    /\ AliveIsHeld /\ ProducedIsEmitted /\ MarksAreClean /\ OuterIsCovered
    /\ SeenIsSettled /\ MidRunIsPolled /\ Accounted

-----------------------------------------------------------------------------
(***************************************************************************)
(* The order of a park, and what was given up.                             *)
(***************************************************************************)
ParkIsAscending ==
    /\ handle # None => /\ Ascending(handle.observed_park)
                        /\ \A e \in Range(handle.observed_park) : e < handle.minted
    /\ op.context # None => op.context.observed_park = <<>>
    /\ op.outer # None => /\ Ascending(op.outer.events)
                          /\ handle # None /\ Observed =>
                               \A e \in OuterEvents : e < handle.minted

OuterIsInterrupted == op.outer # None => run \in interrupted

SkippedIsPassed ==
    /\ \A e \in skipped : e < Emitted
    /\ run \notin interrupted /\ handle # None => Open(handle) \cap skipped = {}
    /\ op.context # None => Open(op.context) \cap skipped = {}

OrderOK ==
    /\ ParkIsAscending /\ OuterIsInterrupted /\ SkippedIsPassed /\ NoLeapfrog

-----------------------------------------------------------------------------
(***************************************************************************)
(* One pass: what it takes is settled, or still open when it is over.      *)
(***************************************************************************)
LEMMA LineOf ==
    ASSUME NEW n \in Nat, NEW e \in Nat
    PROVE  /\ 3 * e >= n <=> e >= LineFrom(n)
           /\ e < WholeLines(n) <=> 3 * e + 1 < n
           /\ 3 * e < n /\ ~(e < WholeLines(n)) => n % 3 = 1 /\ n \div 3 = e
  <1>1. PICK q \in Nat, r \in 0 .. 2 :
            /\ n = 3 * q + r /\ n \div 3 = q /\ n % 3 = r
            /\ WholeLines(n) = q + (IF r = 2 THEN 1 ELSE 0)
            /\ LineFrom(n) = q + (IF r = 0 THEN 0 ELSE 1)
    BY Lines
  <1> QED  BY <1>1

\* Each event of a pass is settled, unless it is parked or its line is kept.
PassSettles(h, p) ==
    /\ Settled \subseteq Settled' /\ silent \subseteq silent'
    /\ h = None => handle' = None /\ Range(p.events) \subseteq Settled'
    /\ h # None => handle' # None /\ handle'.minted = h.minted /\ handle'.seen = h.seen
    /\ h # None /\ Observed =>
         /\ handle'.usage_cursor = h.usage_cursor
         /\ Range(p.events) \subseteq Settled' \cup Range(handle'.observed_park)
         /\ p.mode = "Terminal" => Range(handle'.observed_park) = {}
    /\ h # None /\ ~Observed =>
         \/ /\ handle'.usage_cursor = p.to
            /\ Range(p.events) \subseteq Settled' /\ CutLine(p) \subseteq silent'
         \/ /\ handle'.usage_cursor = h.usage_cursor
            /\ p.mode = "Terminal" => Range(p.events) \subseteq Settled'

\* A pass that is over has settled its events, or they are still open.
LEMMA FinishedSettles ==
    ASSUME TypeOK, run \in Runs, run' = run,
           NEW h \in Supervised \cup {None}, NEW p \in Pass, NEW n \in 0 .. Len(p.events),
           ledger' = Record(SubSeq(p.events, 1, n)),
           Finished(h, p, Range(Skip(p.events, n)))
    PROVE  PassSettles(h, p)
  <1> DEFINE s    == SubSeq(p.events, 1, n)
             rest == Range(Skip(p.events, n))
  <1>1. /\ s \in Seq(Events) /\ Range(p.events) = Range(s) \cup rest
    BY SkipIs DEF Pass
  <1>2. ledger' = Record(s) /\ Finished(h, p, rest)
    OBVIOUS
  <1> HIDE DEF s, rest
  <1>3. Counted' = Counted \cup Range(s)
    BY <1>1, <1>2, RecordIs
  <1>4. Settled \subseteq Settled' /\ silent \subseteq silent' /\ Range(s) \subseteq Settled'
    BY <1>2, <1>3 DEF Finished, Settled
  <1>5. skipped' \cup lost' \cup silent' \subseteq Settled'
    BY DEF Settled
  <1>6. CASE h = None
    BY <1>1, <1>2, <1>4, <1>5, <1>6 DEF Finished, PassSettles
  <1>7. CASE h # None
    <2>1. HandleFinished(h, p, rest) /\ handle' # None
      BY <1>2, <1>7, NoneAssumption DEF Finished, HandleFinished
    <2>2. CASE Observed
      <3>1. ParkFinished(h, p, rest)
        BY <2>1, <2>2 DEF HandleFinished
      <3>2. /\ handle'.usage_cursor = h.usage_cursor
            /\ rest \subseteq Settled' \cup Range(handle'.observed_park)
            /\ p.mode = "Terminal" => Range(handle'.observed_park) = {}
        BY <1>5, <3>1, EmptyRange DEF ParkFinished
      <3> QED  BY <1>1, <1>4, <1>7, <2>1, <2>2, <3>2 DEF PassSettles, HandleFinished
    <2>3. CASE ~Observed
      <3>1. CursorMoved(p, rest) \/ CursorStayed(h, p, rest)
        BY <2>1, <2>3 DEF HandleFinished
      <3> QED  BY <1>1, <1>4, <1>5, <1>7, <2>1, <2>3, <3>1
               DEF PassSettles, HandleFinished, CursorMoved, CursorStayed
    <2> QED  BY <2>2, <2>3
  <1> QED  BY <1>6, <1>7

\* What the agent has finished and a drain will take is among its events.
LEMMA TakenIs ==
    ASSUME TypeOK, LedgerOK, ProducedIsEmitted, handle # None, NEW mode \in Modes,
           NEW h, NEW p, Collects(h, p, mode), NEW e \in produced, e \in Undrained(handle)
    PROVE  \/ e \in Range(p.events)
           \/ ~Observed /\ 3 * e >= p.to
           \/ e \in CutLine(p)
  <1>0. /\ handle \in Supervised /\ p \in Pass /\ e \in Events /\ e \in Nat
        /\ handle.usage_cursor \in Nat /\ handle.minted \in Nat /\ p.to \in Nat
        /\ log \in Nat /\ completed \in Nat
    BY LedgerTypes DEF Collects, Supervised, Pass, Events
  <1>1. Range(p.events) = Taken(p.to) /\ p.mode = mode /\ p.from = handle.usage_cursor
    BY DEF Collects
  <1>2. CASE Observed
    <2>1. e < completed /\ (e >= handle.minted \/ e \in Range(handle.observed_park))
      BY <1>2 DEF ProducedIsEmitted, Undrained
    <2> QED  BY <1>0, <1>1, <1>2, <2>1 DEF Taken
  <1>3. CASE ~Observed /\ 3 * e < p.to
    <2>1. 3 * e >= handle.usage_cursor
      BY <1>3 DEF Undrained
    <2>2. e >= LineFrom(handle.usage_cursor) /\ LineFrom(handle.usage_cursor) \in Nat
          /\ WholeLines(p.to) \in Nat
      BY <1>0, <2>1, LineOf, Lines
    <2>3. CASE e < WholeLines(p.to)
      <3>1. e \in LineFrom(handle.usage_cursor) .. WholeLines(p.to) - 1
        BY <1>0, <2>2, <2>3
      <3> QED  BY <1>0, <1>1, <1>3, <3>1 DEF Taken
    <2>4. CASE ~(e < WholeLines(p.to))
      <3>1. p.to % 3 = 1 /\ p.to \div 3 = e
        BY <1>0, <1>3, <2>4, LineOf
      <3>2. mode = "Terminal"
        <4> SUFFICES ASSUME mode # "Terminal" PROVE FALSE
          OBVIOUS
        <4>1. p.to = IF 3 * (log \div 3) < p.from THEN p.from ELSE 3 * (log \div 3)
          BY DEF Collects
        <4>2. log \div 3 \in Nat
          BY <1>0, Lines
        <4>3. p.to = 3 * (log \div 3)
          BY <1>0, <1>1, <1>3, <2>1, <4>1, <4>2
        <4>4. PICK q \in Nat, r \in 0 .. 2 : p.to = 3 * q + r /\ p.to % 3 = r
          BY <1>0, Lines
        <4> QED  BY <3>1, <4>2, <4>3, <4>4
      <3> QED  BY <1>1, <1>3, <3>1, <3>2 DEF CutLine
    <2> QED  BY <2>3, <2>4
  <1> QED  BY <1>0, <1>2, <1>3

\* A drain that ends leaves what it did not settle in the handle.
DrainSettled(mode) ==
    /\ Settled \subseteq Settled' /\ silent \subseteq silent' /\ handle' # None
    /\ Undrained(handle) \subseteq Settled' \cup Undrained(handle)'
    /\ CutIsSilent(handle.usage_cursor)'
    /\ mode = "Terminal" =>
         /\ Undrained(handle)' \subseteq Settled' /\ handle'.seen = Emitted'
         /\ Observed => Range(handle'.observed_park) = {}
         /\ ~Observed =>
              /\ handle.usage_cursor <= handle'.usage_cursor
              /\ \A e \in Events : e < Emitted /\ 3 * e >= handle.usage_cursor =>
                                     e \in Settled' \/ 3 * e >= handle'.usage_cursor

\* A drain that ends settles as said.
LEMMA DrainSettles ==
    ASSUME TypeOK, LedgerOK, ProducedIsEmitted, MarksAreClean, handle # None,
           NEW mode \in Modes, NEW h \in Supervised, NEW p \in Pass, Collects(h, p, mode),
           NEW n \in 0 .. Len(p.events),
           ledger' = Record(SubSeq(p.events, 1, n)),
           Finished(h, p, Range(Skip(p.events, n))),
           UNCHANGED <<source, run, agent>>
    PROVE  DrainSettled(mode)
  <1>0. /\ handle \in Supervised /\ run \in Runs /\ run' = run
        /\ handle.usage_cursor \in Nat /\ handle.minted \in Nat /\ p.to \in Nat
        /\ log \in Nat /\ completed \in Nat /\ produced \subseteq Events
        /\ \A e \in Events : e \in Nat
        /\ h # None /\ h.minted \in Nat
        /\ UNCHANGED <<source, log, completed, produced>>
    <2>1. handle \in Supervised /\ run \in Runs /\ h # None
      BY LedgerTypes, NoneAssumption DEF LedgerOK, OpFits
    <2>2. handle.usage_cursor \in Nat /\ handle.minted \in Nat /\ h.minted \in Nat
      BY <2>1 DEF Supervised
    <2>3. p.to \in Nat
      BY DEF Pass
    <2>4. /\ log \in Nat /\ completed \in Nat /\ produced \subseteq Events
          /\ \A e \in Events : e \in Nat
      BY LedgerTypes DEF Events
    <2> QED  BY <2>1, <2>2, <2>3, <2>4 DEF agent
  <1>1. PassSettles(h, p)
    BY <1>0, FinishedSettles
  <1>2. /\ p.mode = mode /\ p.from = handle.usage_cursor /\ p.from <= p.to /\ p.to <= log
        /\ h.usage_cursor = handle.usage_cursor
        /\ h.minted = IF Observed THEN completed ELSE handle.minted
        /\ h.seen = IF mode = "MidRun" THEN handle.seen ELSE Emitted
        /\ p.to = IF mode = "Terminal" THEN log
                  ELSE IF 3 * (log \div 3) < p.from THEN p.from ELSE 3 * (log \div 3)
        /\ Range(p.events) = Taken(p.to)
    BY DEF Collects
  <1>3. /\ Settled \subseteq Settled' /\ silent \subseteq silent' /\ handle' # None
        /\ silent' \subseteq Settled'
        /\ handle'.minted = h.minted /\ handle'.seen = h.seen
    BY <1>0, <1>1 DEF PassSettles, Settled
  <1>4. Observed' = Observed /\ Emitted' = Emitted
    BY <1>0 DEF Observed, Emitted
  <1>5. Undrained(handle)' =
          {e \in produced : IF Observed
             THEN e >= handle'.minted \/ e \in Range(handle'.observed_park)
             ELSE 3 * e >= handle'.usage_cursor}
    BY <1>0, <1>4 DEF Undrained
  <1>6. \A e \in Undrained(handle) :
            e \in produced /\ (e \in Range(p.events) \/ (~Observed /\ 3 * e >= p.to)
                                \/ e \in CutLine(p))
    BY TakenIs, UndrainedIsProduced
  <1>7. CASE Observed
    <2>1. /\ handle'.usage_cursor = handle.usage_cursor
          /\ Range(p.events) \subseteq Settled' \cup Range(handle'.observed_park)
          /\ mode = "Terminal" => Range(handle'.observed_park) = {}
          /\ handle'.minted = completed
      BY <1>0, <1>1, <1>2, <1>3, <1>7 DEF PassSettles
    <2>2. CutLine(p) = {}
      BY <1>7 DEF CutLine
    <2>3. Undrained(handle) \subseteq Settled' \cup Undrained(handle)'
      BY <1>5, <1>6, <1>7, <2>1, <2>2
    <2>4. CutIsSilent(handle.usage_cursor)'
      BY <1>4, <1>7 DEF CutIsSilent
    <2>5. mode = "Terminal" => Undrained(handle)' = {}
      BY <1>0, <1>5, <1>7, <2>1 DEF ProducedIsEmitted
    <2> QED  BY <1>2, <1>3, <1>4, <1>7, <2>1, <2>3, <2>4, <2>5 DEF DrainSettled, Modes
  <1>8. CASE ~Observed
    <2>1. \/ /\ handle'.usage_cursor = p.to
             /\ Range(p.events) \subseteq Settled' /\ CutLine(p) \subseteq silent'
          \/ /\ handle'.usage_cursor = handle.usage_cursor
             /\ mode = "Terminal" => Range(p.events) \subseteq Settled'
      BY <1>0, <1>1, <1>2, <1>8 DEF PassSettles
    <2>2. Undrained(handle) \subseteq Settled' \cup Undrained(handle)'
      <3>1. \A e \in Undrained(handle) : 3 * e >= handle.usage_cursor
        BY <1>8 DEF Undrained
      <3> QED  BY <1>3, <1>5, <1>6, <1>8, <2>1, <3>1
    <2>3. CutIsSilent(handle.usage_cursor)'
      <3>1. CutIsSilent(handle.usage_cursor)
        BY DEF MarksAreClean
      <3>2. CASE handle'.usage_cursor = handle.usage_cursor
        BY <1>3, <1>4, <3>1, <3>2 DEF CutIsSilent
      <3>3. CASE handle'.usage_cursor = p.to /\ CutLine(p) \subseteq silent'
        <4>1. CASE mode = "Terminal"
          BY <1>2, <1>4, <3>3, <4>1 DEF CutIsSilent, CutLine
        <4>2. CASE mode # "Terminal" /\ p.to = p.from
          BY <1>2, <1>3, <1>4, <3>1, <3>3, <4>2 DEF CutIsSilent
        <4>3. CASE p.to = 3 * (log \div 3)
          <5>1. log \div 3 \in Nat
            BY <1>0, Lines
          <5>2. PICK q \in Nat, r \in 0 .. 2 : p.to = 3 * q + r /\ p.to % 3 = r
            BY <1>0, Lines
          <5>3. p.to % 3 = 0
            BY <4>3, <5>1, <5>2
          <5> QED  BY <3>3, <5>3 DEF CutIsSilent
        <4> QED  BY <1>2, <4>1, <4>2, <4>3
      <3> QED  BY <2>1, <3>2, <3>3
    <2>4. ASSUME mode = "Terminal"
          PROVE  /\ Undrained(handle)' \subseteq Settled'
                 /\ handle.usage_cursor <= handle'.usage_cursor
                 /\ \A e \in Events : e < Emitted /\ 3 * e >= handle.usage_cursor =>
                                        e \in Settled' \/ 3 * e >= handle'.usage_cursor
      <3>1. p.to = log /\ handle.usage_cursor <= log
        BY <1>2, <2>4
      <3>2. ASSUME NEW e \in Events, e < Emitted, 3 * e >= handle.usage_cursor
            PROVE  e \in Range(p.events)
        <4>1. e < WholeLines(p.to) /\ WholeLines(p.to) \in Nat /\ e \in Nat
          BY <1>0, <1>8, <3>1, <3>2, Lines DEF Emitted
        <4>2. e >= LineFrom(handle.usage_cursor) /\ LineFrom(handle.usage_cursor) \in Nat
          BY <1>0, <3>2, LineOf, Lines
        <4>3. e \in LineFrom(handle.usage_cursor) .. WholeLines(p.to) - 1
          BY <4>1, <4>2
        <4> QED  BY <1>2, <1>8, <4>3 DEF Taken
      <3>3. Range(p.events) \subseteq Settled'
        BY <2>1, <2>4
      <3>4. ASSUME NEW e \in produced, 3 * e >= handle'.usage_cursor PROVE e \in Settled'
        <4>1. e \in Nat /\ 3 * e + 1 < log /\ e \in Events
          BY <1>0, <1>8 DEF ProducedIsEmitted
        <4>2. e < Emitted
          BY <1>0, <1>8, <4>1, LineOf DEF Emitted
        <4>3. CASE handle'.usage_cursor = p.to
          BY <1>0, <3>1, <3>4, <4>1, <4>3
        <4>4. CASE handle'.usage_cursor = handle.usage_cursor
          BY <3>2, <3>3, <3>4, <4>1, <4>2, <4>4
        <4> QED  BY <2>1, <4>3, <4>4
      <3>5. handle.usage_cursor <= handle'.usage_cursor
        BY <1>0, <2>1, <3>1
      <3> QED  BY <1>5, <1>8, <3>2, <3>3, <3>4, <3>5
    <2> QED  BY <1>2, <1>3, <1>4, <1>8, <2>2, <2>3, <2>4 DEF DrainSettled, Modes
  <1> QED  BY <1>7, <1>8

\* A pass in mid-run ends where a line ends, or where it began.
LEMMA MidRunEnds ==
    ASSUME TypeOK, NEW h, NEW p, Collects(h, p, "MidRun")
    PROVE  p.to = handle.usage_cursor \/ p.to % 3 = 0
  <1>1. p.to = p.from \/ p.to = 3 * (log \div 3)
    BY DEF Collects
  <1>2. log \in Nat /\ log \div 3 \in Nat
    BY Lines DEF TypeOK
  <1>3. CASE p.to = 3 * (log \div 3)
    <2>1. PICK k \in Nat : p.to = 3 * k /\ p.to \in Nat
      BY <1>2, <1>3
    <2>2. PICK q \in Nat, r \in 0 .. 2 : p.to = 3 * q + r /\ p.to % 3 = r
      BY <2>1, Lines
    <2> QED  BY <2>1, <2>2
  <1> QED  BY <1>1, <1>3 DEF Collects

\* An interrupted drain keeps the account: its rest is the outer pass.
LEMMA InterruptSettles ==
    ASSUME TypeOK, LedgerOK, AccountOK, handle # None, op.outer = None, op.context = None,
           NEW mode \in Modes, NEW next, mode = "MidRun" => next = "poll",
           NEW h \in Supervised, NEW p \in Pass, Collects(h, p, mode),
           NEW j \in 1 .. Len(p.events), Interrupted(h, p, next, j),
           UNCHANGED <<source, run, agent>>
    PROVE  AccountOK'
  <1>0. /\ handle \in Supervised /\ run \in Runs /\ run' = run
        /\ handle.usage_cursor \in Nat /\ handle.minted \in Nat /\ p.to \in Nat
        /\ log \in Nat /\ completed \in Nat /\ produced \subseteq Events
        /\ \A e \in Events : e \in Nat
        /\ UNCHANGED <<source, log, completed, produced, alive, listening>>
    <2>1. handle \in Supervised /\ run \in Runs
      BY LedgerTypes DEF LedgerOK, OpFits
    <2>2. handle.usage_cursor \in Nat /\ handle.minted \in Nat
      BY <2>1 DEF Supervised
    <2>3. p.to \in Nat
      BY DEF Pass
    <2>4. /\ log \in Nat /\ completed \in Nat /\ produced \subseteq Events
          /\ \A e \in Events : e \in Nat
      BY LedgerTypes DEF Events
    <2> QED  BY <2>1, <2>2, <2>3, <2>4 DEF agent
  <1>1. /\ op'.at \in {"stop", "abandon"} /\ (op'.at = "abandon" => ~alive)
        /\ op'.next = next /\ op'.context = None /\ op'.outer \in Pass /\ op'.outer # None
        /\ op'.outer.events = Skip(p.events, j) /\ op'.outer.mode = p.mode
        /\ op'.outer.to = p.to
        /\ handle' \in Supervised /\ handle' # None
        /\ handle'.usage_cursor = h.usage_cursor
        /\ handle'.observed_park = h.observed_park
        /\ handle'.minted = h.minted /\ handle'.seen = h.seen
        /\ UNCHANGED <<skipped, lost, silent>> /\ ledger' = Record(SubSeq(p.events, 1, j))
    BY NoneAssumption DEF Interrupted
  <1>2. /\ p.mode = mode /\ p.from = handle.usage_cursor /\ p.from <= p.to /\ p.to <= log
        /\ h.usage_cursor = handle.usage_cursor /\ h.observed_park = handle.observed_park
        /\ h.minted = IF Observed THEN completed ELSE handle.minted
        /\ h.seen = IF mode = "MidRun" THEN handle.seen ELSE Emitted
        /\ p.to = IF mode = "Terminal" THEN log
                  ELSE IF 3 * (log \div 3) < p.from THEN p.from ELSE 3 * (log \div 3)
        /\ Range(p.events) = Taken(p.to)
    BY DEF Collects
  <1>3. /\ Settled \subseteq Settled' /\ silent' \subseteq Settled'
        /\ Range(p.events) \subseteq Settled' \cup OuterEvents'
        /\ OuterEvents' = Range(op'.outer.events) /\ OuterEvents' \subseteq Range(p.events)
    <2>1. p.events \in Seq(Events) /\ j \in 0 .. Len(p.events)
      BY LenProperties DEF Pass
    <2>2. /\ SubSeq(p.events, 1, j) \in Seq(Events)
          /\ Range(p.events) = Range(SubSeq(p.events, 1, j)) \cup Range(Skip(p.events, j))
      BY <2>1, SkipIs
    <2>3. Counted' = Counted \cup Range(SubSeq(p.events, 1, j))
      BY <1>0, <1>1, <2>2, RecordIs
    <2> QED  BY <1>1, <2>2, <2>3 DEF Settled, OuterEvents
  <1>4. Observed' = Observed /\ Emitted' = Emitted
    BY <1>0 DEF Observed, Emitted
  <1>5. Undrained(handle)' =
          {e \in produced : IF Observed
             THEN e >= handle'.minted \/ e \in Range(handle'.observed_park)
             ELSE 3 * e >= handle'.usage_cursor}
    BY <1>0, <1>4 DEF Undrained
  <1>6. \A e \in Undrained(handle) :
            e \in produced /\ (e \in Range(p.events) \/ (~Observed /\ 3 * e >= p.to)
                                \/ e \in CutLine(p))
    BY TakenIs, UndrainedIsProduced DEF AccountOK
  <1>7. AliveIsHeld' /\ ProducedIsEmitted' /\ MidRunIsPolled'
    BY <1>0, <1>1, <1>2, <1>4 DEF AccountOK, AliveIsHeld, ProducedIsEmitted, MidRunIsPolled
  <1>8. MarksAreClean'
    <2>1. CutIsSilent(handle.usage_cursor)
      BY DEF AccountOK, MarksAreClean
    <2>2. mode = "MidRun" => p.to = handle.usage_cursor \/ p.to % 3 = 0
      BY MidRunEnds
    <2> QED  BY <1>1, <1>2, <1>4, <2>1, <2>2 DEF MarksAreClean, CutIsSilent
  <1>9. OuterIsCovered'
    <2>1. CASE Observed
      <3>1. Range(handle.observed_park) \subseteq Taken(p.to)
        <4>1. handle.observed_park \in Seq(Events)
          BY <1>0 DEF Supervised
        <4> QED  BY <2>1, <4>1, RangeOfSeq DEF Taken
      <3> QED  BY <1>1, <1>2, <1>3, <1>4, <2>1, <3>1 DEF OuterIsCovered
    <2>2. CASE ~Observed
      <3>1. CutLine(p) = CutLine(op.outer)'
        BY <1>1, <1>4 DEF CutLine
      <3>2. ASSUME NEW e \in produced, 3 * e >= handle.usage_cursor, 3 * e < p.to
            PROVE  e \in Settled' \cup OuterEvents' \cup CutLine(p)
        <4>1. e \in Undrained(handle) /\ e \in Nat
          BY <1>0, <2>2, <3>2 DEF Undrained
        <4> QED  BY <1>0, <1>3, <1>6, <3>2, <4>1
      <3>3. ASSUME NEW e \in Range(p.events) PROVE 3 * e >= handle.usage_cursor
        <4>1. e \in Nat /\ e \in LineFrom(handle.usage_cursor) .. WholeLines(p.to) - 1
          BY <1>0, <1>2, <2>2 DEF Taken
        <4>2. LineFrom(handle.usage_cursor) \in Nat /\ WholeLines(p.to) \in Nat
          BY <1>0, Lines
        <4>3. e >= LineFrom(handle.usage_cursor)
          BY <4>1, <4>2
        <4> QED  BY <1>0, <4>1, <4>3, LineOf
      <3>4. LogIsCovered(handle.usage_cursor, op.outer)'
        BY <1>0, <1>1, <1>2, <1>3, <3>1, <3>2, <3>3 DEF LogIsCovered
      <3> QED  BY <1>4, <2>2, <3>4 DEF OuterIsCovered
    <2> QED  BY <2>1, <2>2
  <1>10. SeenIsSettled'
    <2>1. op'.at # "release" /\ (Drained' => mode = "Terminal")
      BY <1>1, <1>2 DEF Drained
    <2>2. ASSUME mode = "Terminal"
          PROVE  handle'.seen = Emitted /\ Seen' \subseteq Settled' \cup OuterEvents'
      <3>1. handle'.seen = Emitted
        BY <1>1, <1>2, <2>2
      <3>2. ASSUME NEW e \in Seen' PROVE e \in Range(p.events)
        <4>1. /\ e \in produced /\ e \in Nat /\ e \in Events /\ e < Emitted
              /\ e \in Undrained(handle)'
          BY <1>0, <1>5, <3>1, <3>2 DEF Seen
        <4>2. CASE Observed
          <5>1. e < completed
            BY <4>1, <4>2 DEF Emitted
          <5>2. e \in Range(handle.observed_park)
            BY <1>0, <1>1, <1>2, <1>5, <4>1, <4>2, <5>1
          <5> QED  BY <1>2, <4>1, <4>2, <5>2 DEF Taken
        <4>3. CASE ~Observed
          <5>1. 3 * e >= handle.usage_cursor
            BY <1>1, <1>2, <1>5, <4>1, <4>3
          <5>2. e \in Undrained(handle)
            BY <4>1, <4>3, <5>1 DEF Undrained
          <5>3. 3 * e + 1 < log /\ p.to = log
            BY <1>2, <2>2, <4>1, <4>3 DEF AccountOK, ProducedIsEmitted
          <5>4. e >= LineFrom(handle.usage_cursor) /\ e < WholeLines(p.to)
                /\ LineFrom(handle.usage_cursor) \in Nat /\ WholeLines(p.to) \in Nat
            BY <1>0, <4>1, <5>1, <5>3, LineOf, Lines
          <5>5. e \in LineFrom(handle.usage_cursor) .. WholeLines(p.to) - 1
            BY <4>1, <5>4
          <5> QED  BY <1>2, <4>1, <4>3, <5>5 DEF Taken
        <4> QED  BY <4>2, <4>3
      <3> QED  BY <1>3, <3>1, <3>2
    <2>3. Emitted \in Nat
      BY <1>0, Lines DEF Emitted
    <2> QED  BY <1>4, <2>1, <2>2, <2>3 DEF SeenIsSettled
  <1>11. Accounted'
    <2>1. produced \subseteq Settled \cup Undrained(handle)
      BY DEF AccountOK, Accounted, Pending
    <2>2. Undrained(handle) \subseteq Settled' \cup OuterEvents' \cup Undrained(handle)'
      <3>1. CASE Observed
        <4>1. CutLine(p) = {}
          BY <3>1 DEF CutLine
        <4> QED  BY <1>3, <1>6, <3>1, <4>1
      <3>2. CASE ~Observed
        BY <1>1, <1>2, <1>5, <3>2 DEF Undrained
      <3> QED  BY <3>1, <3>2
    <2>3. Pending' = Undrained(handle)' \cup OuterEvents'
      BY <1>1 DEF Pending, OuterEvents
    <2> QED  BY <1>0, <1>3, <2>1, <2>2, <2>3 DEF Accounted
  <1> QED  BY <1>7, <1>8, <1>9, <1>10, <1>11 DEF AccountOK

\* The rest of an interrupted drain keeps it.
LEMMA ResumeSettles ==
    ASSUME TypeOK, LedgerOK, AccountOK, resume_drain
    PROVE  AccountOK'
  <1>0. /\ op.at = "resume" /\ op' = At(op.next) /\ op.outer # None
        /\ op.next \in {"poll", "reap"} /\ run \in Runs /\ run' = run
        /\ UNCHANGED <<source, log, completed, produced, alive, listening>>
    BY IdleIs DEF resume_drain, agent, LedgerOK, OpFits
  <1>1. PICK p \in Pass : p = op.outer
    BY <1>0, LedgerTypes
  <1>2. PICK n \in 0 .. Len(p.events) :
            /\ ledger' = Record(SubSeq(p.events, 1, n))
            /\ Finished(handle, p, Range(Skip(p.events, n)))
    BY <1>0, <1>1, ResumeIs
  <1>3. PassSettles(handle, p)
    BY <1>0, <1>2, LedgerTypes, FinishedSettles
  <1>4. /\ op'.at = op.next /\ op'.outer = None /\ op'.context = None
        /\ OuterEvents' = {} /\ OuterEvents = Range(p.events)
    BY <1>0, <1>1, AtIs DEF Steps, OuterEvents
  <1>5. Observed' = Observed /\ Emitted' = Emitted
    BY <1>0 DEF Observed, Emitted
  <1>6. /\ Settled \subseteq Settled' /\ silent \subseteq silent' /\ silent' \subseteq Settled'
        /\ handle' # None <=> handle # None
    BY <1>3 DEF PassSettles, Settled
  <1>7. Undrained(handle)' =
          {e \in produced : IF Observed
             THEN e >= handle'.minted \/ e \in Range(handle'.observed_park)
             ELSE 3 * e >= handle'.usage_cursor}
    BY <1>0, <1>5 DEF Undrained
  <1>8. AliveIsHeld' /\ ProducedIsEmitted' /\ MidRunIsPolled' /\ OuterIsCovered'
    BY <1>0, <1>4, <1>5, <1>6
       DEF AccountOK, AliveIsHeld, ProducedIsEmitted, MidRunIsPolled, OuterIsCovered
  <1>9. p.mode \in {"MidRun", "Terminal"} /\ p.to \in Nat /\ produced \subseteq Events
        /\ \A e \in Events : e \in Nat
    BY LedgerTypes DEF Pass, Modes, Events
  <1>10. ASSUME handle # None, ~Observed
         PROVE  /\ Range(p.events) \subseteq Settled' \cup {e \in Events : 3 * e >= handle'.usage_cursor}
                /\ Undrained(handle) \subseteq Settled' \cup Undrained(handle)'
                /\ CutIsSilent(handle.usage_cursor)'
                /\ p.mode = "Terminal" => Range(p.events) \subseteq Settled'
    <2>1. LogIsCovered(handle.usage_cursor, p)
      BY <1>0, <1>1, <1>10 DEF AccountOK, OuterIsCovered
    <2>2. Range(p.events) \subseteq Events
      BY RangeOfSeq DEF Pass
    <2>3. handle \in Supervised /\ handle.usage_cursor \in Nat
      BY <1>10, LedgerTypes DEF Supervised
    <2>4. \/ /\ handle'.usage_cursor = p.to
             /\ Range(p.events) \subseteq Settled' /\ CutLine(p) \subseteq silent'
          \/ /\ handle'.usage_cursor = handle.usage_cursor
             /\ p.mode = "Terminal" => Range(p.events) \subseteq Settled'
      BY <1>3, <1>10 DEF PassSettles
    <2>5. Range(p.events) \subseteq Settled' \cup {e \in Events : 3 * e >= handle'.usage_cursor}
      BY <1>6, <2>1, <2>2, <2>4 DEF LogIsCovered
    <2>6. Undrained(handle) \subseteq Settled' \cup Undrained(handle)'
      <3> SUFFICES ASSUME NEW e \in Undrained(handle), ~(3 * e >= handle'.usage_cursor)
                   PROVE  e \in Settled'
        BY <1>7, <1>10, UndrainedIsProduced
      <3>1. e \in produced /\ e \in Nat /\ 3 * e >= handle.usage_cursor
        BY <1>9, <1>10 DEF Undrained
      <3>2. /\ handle'.usage_cursor = p.to /\ 3 * e < p.to
            /\ Range(p.events) \subseteq Settled' /\ CutLine(p) \subseteq silent'
        BY <1>9, <2>4, <3>1
      <3> QED  BY <1>6, <2>1, <3>1, <3>2 DEF LogIsCovered
    <2>7. CutIsSilent(handle.usage_cursor)'
      <3>1. /\ CutIsSilent(handle.usage_cursor)
            /\ p.mode = "MidRun" => CutIsSilent(p.to)
        BY <1>0, <1>1, <1>10 DEF AccountOK, MarksAreClean
      <3>2. CASE handle'.usage_cursor = handle.usage_cursor
        BY <1>5, <1>6, <3>1, <3>2 DEF CutIsSilent
      <3>3. CASE handle'.usage_cursor = p.to /\ CutLine(p) \subseteq silent'
        BY <1>5, <1>6, <1>9, <3>1, <3>3 DEF CutIsSilent, CutLine
      <3> QED  BY <2>4, <3>2, <3>3
    <2> QED  BY <2>4, <2>5, <2>6, <2>7
  <1>11. ASSUME handle # None, Observed
         PROVE  /\ Range(p.events) \subseteq Settled' \cup Range(handle'.observed_park)
                /\ Undrained(handle) \subseteq Settled' \cup Undrained(handle)'
                /\ p.mode = "Terminal" => Range(p.events) \subseteq Settled'
    <2>1. /\ Range(p.events) \subseteq Settled' \cup Range(handle'.observed_park)
          /\ p.mode = "Terminal" => Range(handle'.observed_park) = {}
          /\ handle'.minted = handle.minted
      BY <1>3, <1>11 DEF PassSettles
    <2>2. Range(handle.observed_park) \subseteq Settled \cup Range(p.events)
      BY <1>0, <1>1, <1>11, <1>4 DEF AccountOK, OuterIsCovered
    <2> QED  BY <1>6, <1>7, <1>11, <2>1, <2>2, UndrainedIsProduced DEF Undrained
  <1>12. MarksAreClean'
    <2>1. Observed => CutIsSilent(handle.usage_cursor)'
      BY <1>5 DEF CutIsSilent
    <2> QED  BY <1>4, <1>6, <1>10, <2>1 DEF MarksAreClean
  <1>13. Accounted'
    <2>1. produced \subseteq Settled \cup (IF handle = None THEN {} ELSE Undrained(handle))
                               \cup Range(p.events)
      <3>1. op.context = None
        BY <1>0 DEF LedgerOK, OpFits
      <3> QED  BY <1>0, <1>1, <3>1 DEF AccountOK, Accounted, Pending
    <2>2. CASE handle = None
      <3>1. Range(p.events) \subseteq Settled'
        BY <1>3, <2>2 DEF PassSettles
      <3> QED  BY <1>0, <1>6, <2>1, <2>2, <3>1 DEF Accounted
    <2>3. CASE handle # None
      <3>1. Undrained(handle)' \subseteq Pending'
        BY <1>6, <2>3 DEF Pending
      <3>2. Undrained(handle) \subseteq Settled' \cup Undrained(handle)'
        BY <1>10, <1>11, <2>3
      <3>3. \A e \in produced : e \in Range(p.events) => e \in Settled' \cup Undrained(handle)'
        BY <1>7, <1>10, <1>11, <2>3
      <3> QED  BY <1>0, <1>6, <2>1, <2>3, <3>1, <3>2, <3>3 DEF Accounted
    <2> QED  BY <2>2, <2>3
  <1>14. SeenIsSettled'
    <2> SUFFICES ASSUME handle' # None, Drained'
                 PROVE  handle'.seen <= Emitted /\ Seen' \subseteq Settled'
      BY <1>0, <1>4, <1>5 DEF SeenIsSettled
    <2>1. op.next = "reap" /\ p.mode = "Terminal" /\ handle # None
      BY <1>0, <1>1, <1>4, <1>6, <1>9 DEF Drained, AccountOK, MidRunIsPolled
    <2>2. handle.seen <= Emitted /\ Seen \subseteq Settled \cup Range(p.events)
      BY <1>0, <1>1, <1>4, <2>1 DEF Drained, AccountOK, SeenIsSettled
    <2>3. handle'.seen = handle.seen /\ handle'.minted = handle.minted
      BY <1>3, <2>1 DEF PassSettles
    <2>4. Range(p.events) \subseteq Settled'
      BY <1>10, <1>11, <2>1
    <2>5. ASSUME NEW e \in Seen' PROVE e \in Settled'
      <3>1. e \in produced /\ e < handle.seen /\ e \in Undrained(handle)'
        BY <1>7, <2>3, <2>5 DEF Seen
      <3>2. CASE e \in Undrained(handle)
        BY <1>6, <2>2, <2>4, <3>1, <3>2 DEF Seen
      <3>3. CASE e \notin Undrained(handle)
        <4>1. op.context = None
          BY <1>0 DEF LedgerOK, OpFits
        <4> QED  BY <1>0, <1>1, <1>6, <2>1, <2>4, <3>1, <3>3, <4>1
                 DEF AccountOK, Accounted, Pending
      <3> QED  BY <3>2, <3>3
    <2> QED  BY <2>2, <2>3, <2>5
  <1> QED  BY <1>8, <1>12, <1>13, <1>14 DEF AccountOK

-----------------------------------------------------------------------------
(***************************************************************************)
(* The account holds in every step.                                        *)
(***************************************************************************)
LEMMA WriteAccounts == ASSUME TypeOK, LedgerOK, AccountOK, write PROVE AccountOK'
  <1>0. /\ alive /\ ~Observed /\ log' = log + 1
        /\ produced' = IF log % 3 = 1 THEN produced \cup {log \div 3} ELSE produced
        /\ UNCHANGED <<source, run, ledger, completed, handle, op, alive, listening, skipped, lost,
                       silent>>
    BY DEF write, history, told
  <1>1. PICK q \in Nat, r \in 0 .. 2 :
            /\ log = 3 * q + r /\ log \div 3 = q /\ log % 3 = r
            /\ WholeLines(log) = q + (IF r = 2 THEN 1 ELSE 0)
    BY LedgerTypes, Lines
  <1>2. /\ log \in Nat /\ Observed' = Observed /\ Settled' = Settled
        /\ OuterEvents' = OuterEvents /\ Emitted \in Nat /\ Emitted' \in Nat
        /\ Emitted <= Emitted' /\ Emitted = WholeLines(log)
    <2>1. log' \in Nat /\ log <= log' /\ completed' \in Nat /\ completed <= completed'
      BY <1>0, LedgerTypes
    <2>2. Settled' = Settled /\ OuterEvents' = OuterEvents
      BY <1>0 DEF Settled, Counted, OuterEvents
    <2> QED  BY <1>0, <2>1, <2>2, LedgerTypes, EmittedGrows DEF Emitted
  <1>3. /\ \A e \in produced : e \in Nat
        /\ produced' \subseteq produced \cup {q}
        /\ produced' # produced => r = 1
    BY <1>0, <1>1, LedgerTypes DEF Events
  <1>4. AliveIsHeld' /\ MidRunIsPolled'
    BY <1>0, <1>2 DEF AccountOK, AliveIsHeld, MidRunIsPolled
  <1>5. ProducedIsEmitted'
    BY <1>0, <1>1, <1>2, <1>3 DEF AccountOK, ProducedIsEmitted
  <1>6. MarksAreClean'
    BY <1>0, <1>2 DEF AccountOK, MarksAreClean, CutIsSilent
  <1>7. OuterIsCovered'
    <2> SUFFICES ASSUME handle # None, op.outer # None
                 PROVE  LogIsCovered(handle.usage_cursor, op.outer)'
      BY <1>0, <1>2 DEF OuterIsCovered
    <2>1. PICK p \in Pass : p = op.outer
      BY LedgerTypes
    <2>2. LogIsCovered(handle.usage_cursor, p)
      BY <1>0, <2>1 DEF AccountOK, OuterIsCovered
    <2>3. p.to \in Nat /\ p.to <= log /\ p.mode \in {"MidRun", "Terminal"}
      BY <2>1, LedgerTypes DEF PassFits, Pass, Modes
    <2>4. ASSUME r = 1, 3 * q < p.to PROVE q \in Settled \cup CutLine(p)
      <3>1. p.to = log /\ p.to % 3 = 1 /\ p.to \div 3 = q
        BY <1>1, <2>3, <2>4
      <3>2. CASE p.mode = "Terminal"
        BY <1>0, <3>1, <3>2 DEF CutLine
      <3>3. CASE p.mode = "MidRun"
        BY <1>0, <2>1, <3>1, <3>3 DEF AccountOK, MarksAreClean, CutIsSilent, Settled
      <3> QED  BY <2>3, <3>2, <3>3
    <2>5. CutLine(p)' = CutLine(p)
      BY <1>2 DEF CutLine
    <2>6. LogIsCovered(handle.usage_cursor, p)'
      BY <1>0, <1>2, <1>3, <2>2, <2>4, <2>5 DEF LogIsCovered
    <2> QED  BY <1>0, <1>2, <2>1, <2>6, <2>5 DEF LogIsCovered, CutLine
  <1>8. \A e \in Undrained(handle)' : e \in Undrained(handle) \/ (r = 1 /\ e = q)
    BY <1>0, <1>2, <1>3 DEF Undrained
  <1>9. SeenIsSettled'
    <2> SUFFICES ASSUME handle # None
                 PROVE  /\ Drained => /\ handle.seen <= Emitted'
                                      /\ Seen' \subseteq Settled \cup OuterEvents
                        /\ op.at # "release"
      BY <1>0, <1>2 DEF SeenIsSettled, Drained
    <2>1. op.at # "release"
      BY <1>0 DEF AccountOK, AliveIsHeld
    <2>2. handle.seen \in Nat
      BY LedgerTypes DEF Supervised
    <2>3. ASSUME Drained PROVE handle.seen <= Emitted /\ Seen \subseteq Settled \cup OuterEvents
      BY <2>3 DEF AccountOK, SeenIsSettled
    <2>4. ASSUME Drained, NEW e \in Seen' PROVE e \in Seen
      <3>1. e \in Undrained(handle)' /\ e < handle.seen
        BY <1>0, <2>4 DEF Seen
      <3>2. ~(r = 1 /\ e = q)
        BY <1>1, <1>2, <2>2, <2>3, <2>4, <3>1
      <3> QED  BY <1>8, <3>1, <3>2 DEF Seen
    <2> QED  BY <1>2, <2>1, <2>2, <2>3, <2>4
  <1>10. Accounted'
    <2>1. OpFits /\ MarksFit
      BY DEF LedgerOK
    <2>2. Pending \subseteq Pending'
      BY <1>0, <1>2 DEF Pending, Undrained
    <2>3. ASSUME r = 1 PROVE q \in Settled' \cup Pending'
      <3>1. PICK h \in Supervised :
                       /\ h.usage_cursor <= log /\ CutIsSilent(h.usage_cursor)
                       /\ (handle # None /\ h = handle) \/ (op.context # None /\ h = op.context)
        <4>1. CASE handle # None
          <5>1. /\ handle \in Supervised /\ handle.usage_cursor <= log
                /\ CutIsSilent(handle.usage_cursor)
            BY <4>1, LedgerTypes DEF AccountOK, MarksAreClean, HandleFits
          <5> QED  BY <4>1, <5>1
        <4>2. CASE handle = None
          <5>1. op.context # None
            BY <1>0, <2>1, <4>2 DEF AccountOK, AliveIsHeld, OpFits
          <5>2. /\ op.context \in Supervised /\ op.context.usage_cursor <= log
                /\ CutIsSilent(op.context.usage_cursor)
            BY <5>1, LedgerTypes DEF AccountOK, MarksAreClean, HandleFits
          <5> QED  BY <5>1, <5>2
        <4> QED  BY <4>1, <4>2
      <3>2. h.usage_cursor \in Nat
        BY <3>1 DEF Supervised
      <3>3. q \in produced' /\ q \in Nat
        BY <1>0, <1>1, <2>3
      <3>4. CASE h.usage_cursor = log
        <4>1. q \in silent
          BY <1>0, <1>1, <2>3, <3>1, <3>4 DEF CutIsSilent
        <4> QED  BY <1>2, <4>1 DEF Settled
      <3>5. CASE h.usage_cursor # log
        <4>1. 3 * q >= h.usage_cursor
          BY <1>1, <2>3, <3>1, <3>2, <3>5
        <4> QED  BY <1>0, <1>2, <3>1, <3>3, <4>1 DEF Pending, Undrained
      <3> QED  BY <3>4, <3>5
    <2> QED  BY <1>2, <1>3, <2>2, <2>3 DEF AccountOK, Accounted
  <1> QED  BY <1>4, <1>5, <1>6, <1>7, <1>9, <1>10 DEF AccountOK

\* A completion is behind the mark of the handle or of the launch.
LEMMA CompleteAccounts == ASSUME TypeOK, LedgerOK, AccountOK, complete PROVE AccountOK'
  <1>0. /\ alive /\ Observed /\ completed' = completed + 1
        /\ produced' = produced \cup {completed}
        /\ UNCHANGED <<source, run, ledger, log, handle, op, alive, listening, skipped, lost,
                       silent>>
    BY DEF complete, history, told, AccountOK, AliveIsHeld
  <1>1. /\ completed \in Nat /\ Observed' = Observed /\ Settled' = Settled
        /\ OuterEvents' = OuterEvents /\ Emitted = completed /\ Emitted' = completed + 1
        /\ \A e \in produced : e \in Nat
    BY <1>0, LedgerTypes DEF Settled, Counted, OuterEvents, Emitted, Observed, Events
  <1>2. AliveIsHeld' /\ MidRunIsPolled'
    BY <1>0, <1>1 DEF AccountOK, AliveIsHeld, MidRunIsPolled
  <1>3. ProducedIsEmitted'
    BY <1>0, <1>1 DEF AccountOK, ProducedIsEmitted
  <1>4. MarksAreClean'
    BY <1>0, <1>1 DEF MarksAreClean, CutIsSilent
  <1>5. OuterIsCovered'
    BY <1>0, <1>1 DEF AccountOK, OuterIsCovered
  <1>6. \A e \in Undrained(handle)' : e \in Undrained(handle) \/ e = completed
    BY <1>0, <1>1 DEF Undrained
  <1>7. SeenIsSettled'
    <2> SUFFICES ASSUME handle # None, Drained
                 PROVE  handle.seen <= Emitted' /\ Seen' \subseteq Settled \cup OuterEvents
      BY <1>0, <1>1 DEF SeenIsSettled, Drained
    <2>1. handle.seen \in Nat
      BY LedgerTypes DEF Supervised
    <2>2. handle.seen <= Emitted /\ Seen \subseteq Settled \cup OuterEvents
      BY DEF AccountOK, SeenIsSettled
    <2>3. ASSUME NEW e \in Seen' PROVE e \in Seen
      <3>1. e \in Undrained(handle)' /\ e < handle.seen
        BY <1>0, <2>3 DEF Seen
      <3>2. e # completed
        BY <1>1, <2>1, <2>2, <3>1
      <3> QED  BY <1>6, <3>1, <3>2 DEF Seen
    <2> QED  BY <1>1, <2>1, <2>2, <2>3
  <1>8. Accounted'
    <2>1. Pending \subseteq Pending'
      BY <1>0, <1>1 DEF Pending, Undrained
    <2>2. completed \in Pending'
      <3>1. CASE handle # None
        <4>1. handle.minted <= completed
          BY <3>1, LedgerTypes DEF HandleFits
        <4> QED  BY <1>0, <1>1, <3>1, <4>1 DEF Pending, Undrained
      <3>2. CASE handle = None
        <4>1. op.context # None
          BY <1>0, <3>2 DEF AccountOK, AliveIsHeld, OpFits, LedgerOK
        <4>2. op.context.minted <= completed
          BY <4>1, LedgerTypes DEF HandleFits
        <4> QED  BY <1>0, <1>1, <4>1, <4>2 DEF Pending, Undrained
      <3> QED  BY <3>1, <3>2
    <2> QED  BY <1>0, <1>1, <2>1, <2>2 DEF AccountOK, Accounted
  <1> QED  BY <1>2, <1>3, <1>4, <1>5, <1>7, <1>8 DEF AccountOK

\* A step that moves no mark: it may add to what is settled, or drop marks.
LEMMA SameMarks ==
    ASSUME AccountOK, UNCHANGED <<source, log, completed, produced>>,
           Settled \subseteq Settled', silent \subseteq silent',
           handle' # None => /\ handle # None
                             /\ handle'.usage_cursor = handle.usage_cursor
                             /\ handle'.observed_park = handle.observed_park
                             /\ handle'.minted = handle.minted /\ handle'.seen = handle.seen,
           op'.outer = op.outer \/ op'.outer = None, op'.context = None
    PROVE  /\ ProducedIsEmitted' /\ MarksAreClean' /\ OuterIsCovered' /\ Emitted' = Emitted
           /\ Observed' = Observed /\ (op'.outer = op.outer => OuterEvents' = OuterEvents)
           /\ handle' # None => Undrained(handle)' = Undrained(handle) /\ Seen' = Seen
  <1>1. Observed' = Observed /\ Emitted' = Emitted
    BY DEF Observed, Emitted
  <1>2. ProducedIsEmitted' /\ MarksAreClean'
    BY <1>1 DEF AccountOK, ProducedIsEmitted, MarksAreClean, CutIsSilent
  <1>3. op'.outer = op.outer => OuterEvents' = OuterEvents
    BY DEF OuterEvents
  <1>4. handle' # None => Undrained(handle)' = Undrained(handle)
    BY <1>1 DEF Undrained
  <1>5. OuterIsCovered'
    BY <1>1, <1>3 DEF AccountOK, OuterIsCovered, LogIsCovered, CutLine
  <1> QED  BY <1>1, <1>2, <1>3, <1>4, <1>5 DEF Seen

\* The steps that take no event: what goes with a handle is settled.
LEMMA QuietAccounts ==
    ASSUME TypeOK, LedgerOK, AccountOK,
           \/ launch_exits \/ poll_alive \/ reap \/ begin_stop \/ stop_retry
           \/ backend_stop \/ backend_stop_unconfirmed \/ backend_stop_fails
           \/ release \/ abandon
    PROVE  AccountOK'
  <1>1. UNCHANGED <<source, run, log, completed, ledger, listening, produced, skipped, lost>>
    BY DEF launch_exits, poll_alive, reap, begin_stop, stop_retry, backend_stop,
           backend_stop_unconfirmed, backend_stop_fails, release, abandon, Release,
           agent, history, told
  <1>2. silent \subseteq silent'
    BY DEF launch_exits, poll_alive, reap, begin_stop, stop_retry, backend_stop,
           backend_stop_unconfirmed, backend_stop_fails, release, abandon, Release,
           agent, history, told
  <1>3. Settled \subseteq Settled' /\ silent' \subseteq Settled'
    BY <1>1, <1>2 DEF Settled, Counted
  <1>4. /\ OpFits /\ op \in Ops /\ handle \in Supervised \cup {None}
        /\ AliveIsHeld /\ SeenIsSettled /\ MidRunIsPolled /\ Accounted
    BY LedgerTypes DEF LedgerOK, AccountOK
  \* Every mark stays, or goes with the handle or the pass.
  <1>a. ASSUME op'.context = None, op'.outer = op.outer \/ op'.outer = None,
               handle' # None => /\ handle # None
                                 /\ handle'.usage_cursor = handle.usage_cursor
                                 /\ handle'.observed_park = handle.observed_park
                                 /\ handle'.minted = handle.minted
                                 /\ handle'.seen = handle.seen,
               op'.outer = op.outer => op'.next = op.next \/ op.outer = None,
               AliveIsHeld',
               Drained' => Drained /\ OuterEvents' = OuterEvents,
               op'.at # "release",
               produced \subseteq Settled' \cup OuterEvents'
                            \cup (IF handle' = None THEN {} ELSE Undrained(handle))
        PROVE  AccountOK'
    <2>1. /\ ProducedIsEmitted' /\ MarksAreClean' /\ OuterIsCovered' /\ Emitted' = Emitted
          /\ Observed' = Observed /\ (op'.outer = op.outer => OuterEvents' = OuterEvents)
          /\ handle' # None => Undrained(handle)' = Undrained(handle) /\ Seen' = Seen
      BY <1>1, <1>2, <1>3, <1>a, SameMarks
    <2>2. MidRunIsPolled'
      BY <1>4, <1>a DEF MidRunIsPolled
    <2>3. SeenIsSettled'
      BY <1>3, <1>4, <1>a, <2>1 DEF SeenIsSettled
    <2>4. Accounted'
      BY <1>1, <1>a, <2>1 DEF Accounted, Pending, OuterEvents
    <2> QED  BY <1>a, <2>1, <2>2, <2>3, <2>4 DEF AccountOK
  <1>b. op.outer = None => OuterEvents = {}
    BY DEF OuterEvents
  <1>c. produced \subseteq Settled' \cup OuterEvents
                    \cup (IF handle = None THEN {} ELSE Undrained(handle))
                    \cup (IF op.context = None THEN {} ELSE Undrained(op.context))
    BY <1>3, <1>4 DEF Accounted, Pending, OuterEvents
  <1>5. CASE launch_exits
    <2>1. /\ op.at = "watch" /\ ~alive /\ alive' = alive /\ op' = Idle /\ handle' = handle
          /\ silent' = silent \cup Undrained(op.context)
      BY <1>5 DEF launch_exits, agent
    <2>2. op.outer = None /\ handle = None
      BY <1>4, <2>1 DEF OpFits, Stopping, AliveIsHeld
    <2>3. AliveIsHeld' /\ ~Drained' /\ OuterEvents' = {}
      BY <1>1, <1>4, <2>1, IdleIs DEF AliveIsHeld, Drained, OuterEvents, Observed
    <2>4. produced \subseteq Settled'
      BY <1>3, <1>b, <1>c, <2>1, <2>2
    <2> QED  BY <1>a, <2>1, <2>2, <2>3, <2>4, IdleIs
  <1>6. CASE poll_alive
    <2>1. /\ op.at = "poll" /\ (handle = None \/ alive) /\ alive' = alive /\ op' = Idle
          /\ handle' = handle
      BY <1>6 DEF poll_alive, agent
    <2>2. op.outer = None /\ op.context = None
      BY <1>4, <2>1 DEF OpFits, Stopping
    <2>3. AliveIsHeld' /\ ~Drained' /\ OuterEvents' = {}
      BY <1>1, <1>4, <2>1, IdleIs DEF AliveIsHeld, Drained, OuterEvents, Observed
    <2> QED  BY <1>a, <1>b, <1>c, <2>1, <2>2, <2>3, IdleIs
  <1>7. CASE reap
    <2>1. /\ op.at = "reap" /\ op' = Idle /\ handle' = None
          /\ handle = None => alive' = alive
          /\ handle # None => alive' = FALSE /\ silent' = silent \cup Missed
      BY <1>7 DEF reap
    <2>2. op.outer = None /\ op.context = None
      BY <1>4, <2>1 DEF OpFits, Stopping
    <2>3. ~alive'
      BY <1>4, <2>1 DEF AliveIsHeld
    <2>4. AliveIsHeld' /\ ~Drained' /\ OuterEvents' = {}
      BY <1>1, <1>4, <2>1, <2>3, IdleIs DEF AliveIsHeld, Drained, OuterEvents, Observed
    <2>5. handle # None => Undrained(handle) \subseteq Settled'
      <3> SUFFICES ASSUME handle # None, NEW e \in Undrained(handle) PROVE e \in Settled'
        OBVIOUS
      <3>1. Seen \subseteq Settled
        BY <1>4, <1>b, <2>1, <2>2 DEF SeenIsSettled, Drained
      <3>2. e \in Nat /\ handle.seen \in Nat
        BY <1>4, LedgerTypes, UndrainedIsProduced DEF Supervised, Events
      <3>3. e \in Seen \/ e \in Missed
        BY <3>2 DEF Seen, Missed
      <3> QED  BY <1>3, <2>1, <3>1, <3>3
    <2>6. produced \subseteq Settled'
      BY <1>b, <1>c, <2>2, <2>5
    <2> QED  BY <1>a, <2>1, <2>2, <2>4, <2>6, IdleIs
  <1>8. CASE begin_stop \/ stop_retry
    <2>1. /\ op = Idle /\ handle # None /\ handle' = handle /\ alive' = alive
          /\ \/ op' = At("stop")
             \/ op' = At("abandon") /\ ~alive
      BY <1>8 DEF begin_stop, stop_retry, agent
    <2>2. op.outer = None /\ op.context = None
      BY <2>1, IdleIs
    <2>3. op'.at \in {"stop", "abandon"} /\ op'.outer = None /\ op'.context = None
      BY <2>1, AtIs DEF Steps
    <2>4. AliveIsHeld'
      <3>1. op'.at = "abandon" => ~alive
        BY <2>1, AtIs DEF Steps
      <3> QED  BY <1>1, <1>4, <2>1, <2>3, <3>1 DEF AliveIsHeld, Observed
    <2>5. ~Drained' /\ OuterEvents' = {}
      BY <2>3 DEF Drained, OuterEvents
    <2> QED  BY <1>a, <1>b, <1>c, <2>1, <2>2, <2>3, <2>4, <2>5
  <1>9. CASE backend_stop
    <2>1. /\ op.at = "kill" /\ handle' = handle /\ alive' = FALSE /\ op' = Goto("rescue")
      BY <1>9 DEF backend_stop
    <2>2. /\ op'.at = "rescue" /\ op'.outer = op.outer /\ op'.context = op.context
          /\ op'.next = op.next /\ op.context = None
      BY <1>4, <2>1, GotoIs DEF Steps, OpFits
    <2>3. AliveIsHeld' /\ Drained /\ OuterEvents' = OuterEvents
      BY <1>1, <1>4, <2>1, <2>2 DEF AliveIsHeld, Observed, Drained, OuterEvents
    <2> QED  BY <1>a, <1>c, <2>1, <2>2, <2>3
  \* What the operation returns to.
  <1>d. ASSUME op' = Return, op.context = None
        PROVE  /\ op'.context = None /\ op'.outer = op.outer
               /\ op'.at \in {"idle", "resume"} /\ (op.outer # None => op'.next = op.next)
               /\ OuterEvents' = OuterEvents /\ (Drained' => Drained)
    BY <1>4, <1>d, ReturnIs, IdleIs DEF OuterEvents, Drained
  <1>10. CASE backend_stop_unconfirmed \/ backend_stop_fails
    <2>1. /\ op.at = "kill" /\ alive' = alive /\ op' = Return
          /\ handle' = handle \/ handle' = [handle EXCEPT !.stop_unconfirmed = TRUE]
      BY <1>10 DEF backend_stop_unconfirmed, backend_stop_fails, agent
    <2>2. handle # None /\ handle \in Supervised /\ op.context = None
      BY <1>4, <2>1 DEF OpFits, Stopping
    <2>3. /\ handle' # None
          /\ handle'.usage_cursor = handle.usage_cursor
          /\ handle'.observed_park = handle.observed_park
          /\ handle'.minted = handle.minted /\ handle'.seen = handle.seen
      <3>1. handle' \in Supervised
        BY <2>1, <2>2 DEF Supervised
      <3>2. handle' # None
        BY <3>1, NoneAssumption
      <3> QED  BY <2>1, <2>2, <3>2 DEF Supervised
    <2>4. AliveIsHeld'
      BY <1>1, <1>4, <1>d, <2>1, <2>2, <2>3 DEF AliveIsHeld, Observed
    <2> QED  BY <1>a, <1>c, <1>d, <2>1, <2>2, <2>3, <2>4
  <1>11. CASE release \/ abandon
    <2>1. /\ op.at \in {"release", "abandon"} /\ op' = Return /\ handle' = None
          /\ alive' = alive
          /\ \/ op.at = "release" /\ silent' = silent \cup (IF Observed THEN Missed ELSE {})
             \/ silent' = silent \cup Undrained(handle)
      BY <1>11 DEF release, abandon, Release, agent
    <2>2. handle # None /\ handle \in Supervised /\ op.context = None
      BY <1>4, <2>1 DEF OpFits, Stopping
    <2>3. AliveIsHeld'
      BY <1>1, <1>4, <1>d, <2>1, <2>2 DEF AliveIsHeld, Observed
    <2>4. Undrained(handle) \subseteq Settled' \cup OuterEvents
      <3>1. CASE silent' = silent \cup Undrained(handle)
        BY <1>3, <3>1
      <3>2. CASE op.at = "release" /\ ~Observed
        BY <1>3, <1>4, <2>2, <3>2 DEF SeenIsSettled
      <3>3. CASE op.at = "release" /\ Observed /\ silent' = silent \cup Missed
        <4> SUFFICES ASSUME NEW e \in Undrained(handle) PROVE e \in Settled' \cup OuterEvents
          OBVIOUS
        <4>1. Seen \subseteq Settled \cup OuterEvents
          BY <1>4, <2>2, <3>3 DEF SeenIsSettled, Drained
        <4>2. e \in Nat /\ handle.seen \in Nat
          BY <2>2, LedgerTypes, UndrainedIsProduced DEF Supervised, Events
        <4>3. e \in Seen \/ e \in Missed
          BY <4>2 DEF Seen, Missed
        <4> QED  BY <1>3, <3>3, <4>1, <4>3
      <3> QED  BY <2>1, <3>1, <3>2, <3>3
    <2>5. produced \subseteq Settled' \cup OuterEvents'
      BY <1>c, <1>d, <2>1, <2>2, <2>4
    <2> QED  BY <1>a, <1>d, <2>1, <2>2, <2>3, <2>5
  <1> QED  BY <1>5, <1>6, <1>7, <1>8, <1>9, <1>10, <1>11

\* A drain that the reaper or a stop begins.
LEMMA DrainAccounts ==
    ASSUME TypeOK, LedgerOK, AccountOK, handle # None, NEW mode \in Modes, NEW next,
           \/ op.at = "idle" /\ mode = "MidRun" /\ next = "poll"
           \/ op.at = "poll" /\ mode = "Terminal" /\ next = "reap"
           \/ op.at = "stop" /\ mode = "Terminal" /\ next = "kill"
           \/ op.at = "rescue" /\ mode = "Terminal" /\ next = "release",
           drain_for(mode, next), UNCHANGED <<source, run, agent>>
    PROVE  AccountOK'
  <1>1. /\ OpFits /\ op \in Ops /\ HandleFits(handle) /\ op.context = None /\ next \in Steps
        /\ op.at \in {"idle", "poll"} => op.outer = None
        /\ op.at \in {"stop", "rescue"} => stopping /\ ~handle.stop_unconfirmed
    BY LedgerTypes, IdleIs DEF LedgerOK, OpFits, Stopping, Steps
  <1>2. PICK h \in Supervised, p \in Pass :
             /\ Collects(h, p, mode)
             /\ \/ /\ \E n \in 0 .. Len(p.events) :
                        /\ ledger' = Record(SubSeq(p.events, 1, n))
                        /\ Finished(h, p, Range(Skip(p.events, n)))
                   /\ op' = Goto(next) /\ UNCHANGED <<stopping, interrupted>>
                \/ \E j \in 1 .. Len(p.events) : Interrupted(h, p, next, j)
    BY <1>1, DrainIs
  <1>3. CASE \E j \in 1 .. Len(p.events) : Interrupted(h, p, next, j)
    <2>1. PICK j \in 1 .. Len(p.events) : Interrupted(h, p, next, j)
      BY <1>3
    <2>2. op.outer = None /\ (mode = "MidRun" => next = "poll")
      BY <1>1, <1>2, <2>1 DEF Interrupted, Collects
    <2> QED  BY <1>1, <1>2, <2>1, <2>2, InterruptSettles
  <1>4. CASE /\ \E n \in 0 .. Len(p.events) :
                  /\ ledger' = Record(SubSeq(p.events, 1, n))
                  /\ Finished(h, p, Range(Skip(p.events, n)))
             /\ op' = Goto(next)
    <2>1. DrainSettled(mode)
      BY <1>2, <1>4, DrainSettles DEF AccountOK
    <2>2. /\ UNCHANGED <<source, log, completed, produced, alive, listening>>
          /\ op'.at = next /\ op'.outer = op.outer /\ op'.context = None /\ op'.next = op.next
      BY <1>1, <1>4, GotoIs DEF agent
    <2>3. Observed' = Observed /\ Emitted' = Emitted /\ OuterEvents' = OuterEvents
      BY <2>2 DEF Observed, Emitted, OuterEvents
    <2>4. Settled \subseteq Settled' /\ silent \subseteq silent' /\ handle' # None
      BY <2>1 DEF DrainSettled
    <2>5. AliveIsHeld' /\ ProducedIsEmitted' /\ MidRunIsPolled'
      BY <2>2, <2>3, <2>4 DEF AccountOK, AliveIsHeld, ProducedIsEmitted, MidRunIsPolled
    <2>6. MarksAreClean'
      BY <2>1, <2>2, <2>3, <2>4 DEF AccountOK, MarksAreClean, CutIsSilent, DrainSettled
    <2>7. OuterIsCovered'
      <3> SUFFICES ASSUME op.outer # None PROVE OuterIsCovered'
        BY <2>2 DEF OuterIsCovered
      <3>1. PICK q \in Pass : q = op.outer /\ PassFits(q) /\ OuterEvents = Range(q.events)
        BY LedgerTypes DEF OuterEvents
      <3>2. mode = "Terminal"
        BY <1>1
      <3>3. CASE Observed
        BY <2>1, <2>3, <3>2, <3>3 DEF OuterIsCovered, DrainSettled
      <3>4. CASE ~Observed
        <4>1. LogIsCovered(handle.usage_cursor, q)
          BY <3>1, <3>4 DEF AccountOK, OuterIsCovered
        <4>2. /\ handle.usage_cursor <= handle'.usage_cursor
              /\ \A e \in Events : e < Emitted /\ 3 * e >= handle.usage_cursor =>
                                     e \in Settled' \/ 3 * e >= handle'.usage_cursor
          BY <2>1, <3>2, <3>4 DEF DrainSettled
        <4>3. handle.usage_cursor \in Nat /\ handle'.usage_cursor \in Nat
          <5>1. TypeOK'
            BY <1>1, DrainLedger
          <5> QED  BY <2>4, <5>1, LedgerTypes DEF TypeOK, Supervised
        <4>4. \A e \in Range(q.events) : e \in Events /\ e < Emitted
          BY <3>1, RangeOfSeq DEF Pass, PassFits
        <4>5. /\ \A e \in produced : 3 * e >= handle'.usage_cursor /\ 3 * e < q.to =>
                                       e \in Settled' \cup Range(q.events) \cup CutLine(q)
              /\ \A e \in Range(q.events) : e \in Settled' \/ 3 * e >= handle'.usage_cursor
          <5>1. \A e \in produced : e \in Nat
            BY LedgerTypes DEF Events
          <5> QED  BY <2>4, <4>1, <4>2, <4>3, <4>4, <5>1 DEF LogIsCovered
        <4>6. CutLine(op.outer)' = CutLine(q)
          BY <2>2, <2>3, <3>1 DEF CutLine
        <4> QED  BY <2>2, <2>3, <3>1, <3>4, <4>5, <4>6 DEF OuterIsCovered, LogIsCovered
      <3> QED  BY <3>3, <3>4
    <2>8. SeenIsSettled'
      <3>1. Emitted \in Nat
        BY LedgerTypes, Lines DEF Emitted
      <3>2. mode = "MidRun" => ~Drained' /\ op'.at # "release"
        BY <1>1, <2>2 DEF Drained
      <3>3. mode = "Terminal" => handle'.seen <= Emitted' /\ Undrained(handle)' \subseteq Settled'
        BY <2>1, <2>3, <3>1 DEF DrainSettled
      <3>4. Seen' \subseteq Undrained(handle)'
        BY DEF Seen
      <3> QED  BY <3>2, <3>3, <3>4 DEF SeenIsSettled, Modes
    <2>9. Accounted'
      <3>1. produced \subseteq Settled \cup Undrained(handle) \cup OuterEvents
        BY <1>1 DEF AccountOK, Accounted, Pending, OuterEvents
      <3>2. Undrained(handle) \subseteq Settled' \cup Undrained(handle)'
        BY <2>1 DEF DrainSettled
      <3>3. Pending' = Undrained(handle)' \cup OuterEvents
        BY <2>2, <2>3, <2>4 DEF Pending, OuterEvents
      <3> QED  BY <2>2, <2>4, <3>1, <3>2, <3>3 DEF Accounted
    <2> QED  BY <2>5, <2>6, <2>7, <2>8, <2>9 DEF AccountOK
  <1> QED  BY <1>2, <1>3, <1>4

\* The drains of a tick, of an exit and of a stop.
LEMMA ReaperAccounts ==
    ASSUME TypeOK, LedgerOK, AccountOK,
           tick \/ poll_exited \/ drain_before_kill \/ rescue_drain
    PROVE  AccountOK'
  <1>1. OpFits /\ op \in Ops /\ MidRunIsPolled /\ AliveIsHeld /\ SeenIsSettled /\ Accounted
    BY LedgerTypes DEF LedgerOK, AccountOK
  <1>2. CASE tick
    BY <1>2, DrainAccounts, IdleIs DEF tick, Modes
  <1>3. CASE poll_exited
    BY <1>3, DrainAccounts DEF poll_exited, Modes
  <1>4. CASE drain_before_kill
    BY <1>1, <1>4, DrainAccounts DEF drain_before_kill, Modes, OpFits, Stopping
  <1>5. CASE rescue_drain /\ ~Observed
    BY <1>1, <1>5, DrainAccounts DEF rescue_drain, Modes, OpFits, Stopping
  <1>6. CASE rescue_drain /\ Observed
    <2>1. /\ UNCHANGED <<source, log, completed, produced, alive, listening, handle, ledger,
                         skipped, lost, silent>>
          /\ op.at = "rescue" /\ op' = Goto("release")
      BY <1>6 DEF rescue_drain, agent, history, told
    <2>2. /\ op'.at = "release" /\ op'.outer = op.outer /\ op'.context = None
          /\ op'.next = op.next /\ op.context = None
      BY <1>1, <2>1, GotoIs DEF Steps, OpFits
    <2>3. Settled' = Settled
      BY <2>1 DEF Settled, Counted
    <2>4. /\ ProducedIsEmitted' /\ MarksAreClean' /\ OuterIsCovered' /\ Emitted' = Emitted
          /\ Observed' = Observed /\ OuterEvents' = OuterEvents
          /\ handle' # None => Undrained(handle)' = Undrained(handle) /\ Seen' = Seen
      BY <2>1, <2>2, <2>3, SameMarks
    <2>5. AliveIsHeld' /\ MidRunIsPolled'
      BY <1>1, <2>1, <2>2, <2>4 DEF AliveIsHeld, MidRunIsPolled
    <2>6. SeenIsSettled'
      BY <1>1, <1>6, <2>1, <2>2, <2>3, <2>4 DEF SeenIsSettled, Drained
    <2>7. Accounted'
      BY <1>1, <2>1, <2>2, <2>3, <2>4 DEF Accounted, Pending
    <2> QED  BY <2>4, <2>5, <2>6, <2>7 DEF AccountOK
  <1> QED  BY <1>2, <1>3, <1>4, <1>5, <1>6

\* An exit changes no mark.
LEMMA ExitAccounts ==
    ASSUME AccountOK, exit \/ UNCHANGED vars
    PROVE  AccountOK'
  <1>1. /\ UNCHANGED <<source, log, completed, produced, listening, handle, op, ledger,
                       skipped, lost, silent>>
        /\ alive' = FALSE \/ alive' = alive
    BY DEF exit, vars, agent, history, told
  <1>2. /\ Settled' = Settled /\ Observed' = Observed /\ Emitted' = Emitted
        /\ OuterEvents' = OuterEvents /\ Pending' = Pending
        /\ Undrained(handle)' = Undrained(handle)
    BY <1>1 DEF Settled, Counted, Observed, Emitted, OuterEvents, Pending, Undrained
  <1>3. AliveIsHeld' /\ ProducedIsEmitted' /\ MidRunIsPolled' /\ Accounted' /\ MarksAreClean'
    BY <1>1, <1>2 DEF AccountOK, AliveIsHeld, ProducedIsEmitted, MidRunIsPolled, Accounted,
                      MarksAreClean, CutIsSilent
  <1>4. OuterIsCovered'
    BY <1>1, <1>2 DEF AccountOK, OuterIsCovered, LogIsCovered, CutLine
  <1>5. SeenIsSettled'
    BY <1>1, <1>2 DEF AccountOK, SeenIsSettled, Seen, Drained
  <1> QED  BY <1>3, <1>4, <1>5 DEF AccountOK

\* The context of a launch becomes the handle.
LEMMA BecomeRunningAccounts ==
    ASSUME TypeOK, LedgerOK, AccountOK, become_running
    PROVE  AccountOK'
  <1>1. /\ UNCHANGED <<source, log, completed, produced, alive, listening, ledger,
                       skipped, lost, silent>>
        /\ op.at = "watch" /\ handle' = op.context /\ op' = Idle
        /\ op.context # None /\ op.outer = None /\ handle = None
    BY DEF become_running, agent, history, told, LedgerOK, OpFits, Stopping, AccountOK,
           AliveIsHeld
  <1>2. op'.at = "idle" /\ op'.outer = None /\ op'.context = None /\ ~Drained'
    BY <1>1, IdleIs DEF Drained
  <1>3. Settled' = Settled /\ Observed' = Observed
    BY <1>1 DEF Settled, Counted, Observed
  <1>4. AliveIsHeld' /\ ProducedIsEmitted' /\ MidRunIsPolled' /\ OuterIsCovered' /\ SeenIsSettled'
    BY <1>1, <1>2, <1>3 DEF AccountOK, AliveIsHeld, ProducedIsEmitted, MidRunIsPolled,
                            OuterIsCovered, SeenIsSettled
  <1>5. MarksAreClean'
    BY <1>1, <1>2, <1>3 DEF AccountOK, MarksAreClean, CutIsSilent
  <1>6. Accounted'
    BY <1>1, <1>2, <1>3 DEF AccountOK, Accounted, Pending, Undrained
  <1> QED  BY <1>4, <1>5, <1>6 DEF AccountOK

\* A launch starts at a line, with nothing behind its marks.
LEMMA SpawnAccounts == ASSUME TypeOK, LedgerOK, AccountOK, spawn PROVE AccountOK'
  <1>1. /\ UNCHANGED <<source, completed, produced, handle, ledger, skipped, lost, silent>>
        /\ op = Idle /\ handle = None /\ log' = Rounded
        /\ listening' = Observed
        /\ op' = [At("watch") EXCEPT !.context = NewHandle(Rounded, completed)]
    BY DEF spawn, history, told
  <1>2. /\ log \in Nat /\ log <= log' /\ log' \in Nat /\ log' % 3 = 0
    <2>1. PICK q \in Nat, r \in 0 .. 2 :
              log = 3 * q + r /\ LineFrom(log) = q + (IF r = 0 THEN 0 ELSE 1)
      BY LedgerTypes, Lines
    <2>2. log' = 3 * LineFrom(log)
      BY <1>1 DEF Rounded, LineFrom
    <2>3. PICK k \in Nat : log' = 3 * k /\ log' \in Nat
      BY <2>1, <2>2
    <2>4. PICK q1 \in Nat, r1 \in 0 .. 2 : log' = 3 * q1 + r1 /\ log' % 3 = r1
      BY <2>3, Lines
    <2>5. r1 = 0
      BY <2>3, <2>4
    <2>6. log <= log'
      BY <2>1, <2>2
    <2> QED  BY <2>3, <2>4, <2>5, <2>6, LedgerTypes
  <1>3. PICK h : h = NewHandle(log', completed)
    OBVIOUS
  <1>4. h \in Supervised /\ h.usage_cursor = log'
    BY <1>2, <1>3, NewHandleIs
  <1>5. op' = [At("watch") EXCEPT !.context = h]
    BY <1>1, <1>3
  <1>6. op'.at = "watch" /\ op'.outer = None /\ op'.context = h /\ ~Drained'
    BY <1>5 DEF At, Idle, Drained
  <1>7. Settled' = Settled /\ Observed' = Observed
    BY <1>1 DEF Settled, Counted, Observed
  <1>8. AliveIsHeld' /\ MidRunIsPolled' /\ OuterIsCovered' /\ SeenIsSettled'
    BY <1>1, <1>6, <1>7 DEF AliveIsHeld, MidRunIsPolled, OuterIsCovered, SeenIsSettled
  <1>9. ProducedIsEmitted'
    <2>1. \A e \in produced : e \in Nat
      BY LedgerTypes DEF Events
    <2> QED  BY <1>1, <1>2, <1>7, <2>1 DEF AccountOK, ProducedIsEmitted
  <1>10. MarksAreClean'
    BY <1>1, <1>2, <1>4, <1>6 DEF MarksAreClean, CutIsSilent
  <1>11. Accounted'
    <2>1. op.outer = None /\ op.context = None
      BY <1>1, IdleIs
    <2> QED  BY <1>1, <1>7, <2>1 DEF AccountOK, Accounted, Pending
  <1> QED  BY <1>8, <1>9, <1>10, <1>11 DEF AccountOK

\* An adoption gives up what was not drained.
LEMMA AdoptAccounts == ASSUME TypeOK, LedgerOK, AccountOK, adopt PROVE AccountOK'
  <1>1. /\ UNCHANGED <<source, log, completed, produced, alive, ledger, skipped, lost>>
        /\ listening' = FALSE
        /\ silent' = silent \cup (produced \ Settled) \cup Unfinished
    BY DEF adopt, told
  <1>2. PICK h : h = NewHandle(log, completed)
    OBVIOUS
  <1>3. h \in Supervised /\ h.usage_cursor = log
    BY <1>2, NewHandleIs, LedgerTypes
  <1>4. \/ handle' = h /\ op' = Idle
        \/ handle' = [h EXCEPT !.breached = TRUE] /\ op' = At("stop")
    BY <1>2 DEF adopt
  <1>5. handle' \in Supervised /\ handle'.usage_cursor = log
    BY <1>3, <1>4 DEF Supervised
  <1>6. handle' # None
    BY <1>5, NoneAssumption
  <1>7. op'.at \in {"idle", "stop"} /\ op'.outer = None /\ op'.context = None /\ ~Drained'
    BY <1>4, AtIs, IdleIs DEF Steps, Drained
  <1>8. Observed' = Observed /\ produced \subseteq Settled'
    BY <1>1 DEF Observed, Settled, Counted
  <1>9. /\ AliveIsHeld' /\ ProducedIsEmitted' /\ MidRunIsPolled' /\ OuterIsCovered'
        /\ SeenIsSettled' /\ Accounted'
    BY <1>1, <1>6, <1>7, <1>8 DEF AccountOK, AliveIsHeld, ProducedIsEmitted, MidRunIsPolled,
                                  OuterIsCovered, SeenIsSettled, Accounted
  <1>10. MarksAreClean'
    BY <1>1, <1>5, <1>7, <1>8 DEF MarksAreClean, CutIsSilent, Unfinished
  <1> QED  BY <1>9, <1>10 DEF AccountOK

\* So does an engine that finds no process.
LEMMA ReopenAccounts == ASSUME TypeOK, LedgerOK, AccountOK, reopen PROVE AccountOK'
  <1>1. /\ UNCHANGED <<source, log, completed, produced, alive, listening, ledger,
                       skipped, lost>>
        /\ ~alive /\ handle' = None /\ op' = Idle
        /\ silent' = silent \cup (produced \ Settled)
    BY DEF reopen, agent, told
  <1>2. op'.at = "idle" /\ op'.outer = None /\ op'.context = None
    BY <1>1, IdleIs
  <1>3. Observed' = Observed /\ produced \subseteq Settled'
    BY <1>1 DEF Observed, Settled, Counted
  <1> QED  BY <1>1, <1>2, <1>3 DEF AccountOK, AliveIsHeld, ProducedIsEmitted, MidRunIsPolled,
                                  OuterIsCovered, SeenIsSettled, Accounted, MarksAreClean

\* Every step keeps the account.
LEMMA AccountStep == TypeOK /\ LedgerOK /\ AccountOK /\ [Next]_vars => AccountOK'
  <1> SUFFICES ASSUME TypeOK, LedgerOK, AccountOK, [Next]_vars PROVE AccountOK'
    OBVIOUS
  <1>1. CASE write \/ complete \/ exit \/ UNCHANGED vars
    BY <1>1, WriteAccounts, CompleteAccounts, ExitAccounts
  <1>2. CASE \/ launch_exits \/ poll_alive \/ reap \/ begin_stop \/ stop_retry
             \/ backend_stop \/ backend_stop_unconfirmed \/ backend_stop_fails
             \/ release \/ abandon
    BY <1>2, QuietAccounts
  <1>3. CASE tick \/ poll_exited \/ drain_before_kill \/ rescue_drain \/ resume_drain
    BY <1>3, ReaperAccounts, ResumeSettles
  <1>4. CASE become_running \/ spawn \/ adopt \/ reopen
    BY <1>4, BecomeRunningAccounts, SpawnAccounts, AdoptAccounts, ReopenAccounts
  <1> QED  BY <1>1, <1>2, <1>3, <1>4 DEF Next, Engine

\* It holds initially.
LEMMA AccountStarts == Init => AccountOK
  BY IdleIs DEF Init, AccountOK, AliveIsHeld, ProducedIsEmitted, MidRunIsPolled, OuterIsCovered,
                SeenIsSettled, Accounted, MarksAreClean

(***************************************************************************)
(* An event the agent has emitted is counted, announced as not counted,    *)
(* lost in one of the six silent ways the code has, or can still be drained: *)
(* no other path of the drains, of a stop or of a crash drops one.         *)
(***************************************************************************)
THEOREM EveryEventAccounted == Spec => []Accounted
  <1>1. Spec => []AccountOK
    BY AccountStarts, AccountStep, Metered, PTL DEF Spec
  <1>2. AccountOK => Accounted
    BY DEF AccountOK
  <1> QED  BY <1>1, <1>2, PTL

-----------------------------------------------------------------------------
(***************************************************************************)
(* What a drain takes is in order, open, and was not given up.             *)
(***************************************************************************)
LEMMA TakenIsOpen ==
    ASSUME TypeOK, LedgerOK, handle # None, NEW mode \in Modes, NEW h, NEW p,
           Collects(h, p, mode)
    PROVE  /\ Range(p.events) \subseteq Open(handle)
           /\ \A e \in Range(p.events) : e \in Nat /\ e < Emitted
           /\ ~Observed => \A e \in Range(p.events) : 3 * e + 1 < p.to
  <1>1. /\ handle \in Supervised /\ p \in Pass /\ HandleFits(handle)
        /\ handle.usage_cursor \in Nat /\ handle.minted \in Nat /\ p.to \in Nat
        /\ completed \in Nat
    BY LedgerTypes DEF Collects, Supervised, Pass
  <1>2. LineFrom(handle.usage_cursor) \in Nat /\ WholeLines(p.to) \in Nat
    BY <1>1, Lines
  <1>3. Range(p.events) = Taken(p.to)
    BY DEF Collects
  <1>4. PassFits(p)
    BY <1>1, CollectFits
  <1>5. \A e \in Range(p.events) : e \in Nat /\ e \in Events /\ e < Emitted
    BY <1>3, <1>4, LedgerTypes DEF Taken, Events, PassFits
  <1>6. ASSUME NEW e \in Range(p.events), ~Observed
        PROVE  e >= LineFrom(handle.usage_cursor) /\ 3 * e + 1 < p.to
    <2>1. e \in LineFrom(handle.usage_cursor) .. WholeLines(p.to) - 1 /\ e \in Nat
      BY <1>3, <1>5, <1>6 DEF Taken
    <2>2. e >= LineFrom(handle.usage_cursor) /\ e < WholeLines(p.to)
      BY <1>2, <2>1
    <2> QED  BY <1>1, <2>1, <2>2, LineOf
  <1>7. ASSUME NEW e \in Range(p.events), Observed
        PROVE  e >= handle.minted \/ e \in Range(handle.observed_park)
    BY <1>1, <1>3, <1>7 DEF Taken
  <1> QED  BY <1>5, <1>6, <1>7 DEF Open

\* A pass takes its events in the order they were emitted.
LEMMA TakenAscends ==
    ASSUME OrderOK, handle # None, NEW mode, NEW h, NEW p, Collects(h, p, mode)
    PROVE  Ascending(p.events)
  BY DEF OrderOK, ParkIsAscending, Collects

\* A later event of a drain that ended is counted only with the earlier ones.
LEMMA PassIsInOrder ==
    ASSUME TypeOK, LedgerOK, AccountOK, handle # None, op.context = None, op.outer = None,
           NEW mode \in Modes, NEW h, NEW p, Collects(h, p, mode), Ascending(p.events),
           NEW n \in 0 .. Len(p.events), NEW c \in Range(SubSeq(p.events, 1, n)),
           NEW e \in produced, e < c
    PROVE  e \in Settled \cup Range(SubSeq(p.events, 1, n))
  <1> DEFINE s    == SubSeq(p.events, 1, n)
             rest == Skip(p.events, n)
  <1>1. p \in Pass /\ p.events \in Seq(Events) /\ p.to \in Nat
    BY DEF Collects, Pass
  <1>2. /\ Range(p.events) = Range(s) \cup Range(rest)
        /\ \A d \in Range(s), f \in Range(rest) : d < f
    BY <1>1, SkipIs
  <1>3. /\ e \in Nat /\ c \in Nat /\ c \in Range(p.events)
        /\ ~Observed => 3 * c + 1 < p.to
    BY <1>2, TakenIsOpen, LedgerTypes DEF Events
  <1>4. e \in Settled \cup Undrained(handle)
    BY DEF AccountOK, Accounted, Pending
  <1>5. CASE e \in Undrained(handle)
    <2>1. \/ e \in Range(p.events)
          \/ ~Observed /\ 3 * e >= p.to
          \/ e \in CutLine(p)
      BY <1>5, TakenIs DEF AccountOK
    <2>2. CASE e \in Range(p.events)
      <3>1. e \notin Range(rest)
        BY <1>2, <1>3
      <3> QED  BY <1>2, <2>2, <3>1
    <2>3. CASE ~Observed /\ 3 * e >= p.to
      BY <1>1, <1>3, <2>3
    <2>4. CASE e \in CutLine(p)
      <3>1. ~Observed /\ p.to % 3 = 1 /\ p.to \div 3 = e
        BY <2>4 DEF CutLine
      <3>2. PICK q \in Nat, r \in 0 .. 2 : p.to = 3 * q + r /\ p.to \div 3 = q /\ p.to % 3 = r
        BY <1>1, Lines
      <3> QED  BY <1>3, <3>1, <3>2
    <2> QED  BY <2>1, <2>2, <2>3, <2>4
  <1> QED  BY <1>4, <1>5

\* A row that is added belongs to the current Run.
LEMMA RowIsOfRun ==
    ASSUME TypeOK, run \in Runs, NEW s \in Seq(Events), ledger' = Record(s),
           NEW r \in Runs, NEW c \in Events, ledger'[r][c] > 0
    PROVE  ledger[r][c] > 0 \/ (r = run /\ c \in Range(s))
  <1>1. ledger \in [Runs -> [Events -> Nat]]
    BY DEF TypeOK
  <1> QED  BY <1>1 DEF Record, IsFresh

\* A drain that ends keeps the order.
LEMMA DrainInOrder ==
    ASSUME TypeOK, LedgerOK, AccountOK, OrderOK, handle # None, op.context = None,
           NEW mode \in Modes, NEW h \in Supervised, NEW p \in Pass, Collects(h, p, mode),
           NEW n \in 0 .. Len(p.events),
           ledger' = Record(SubSeq(p.events, 1, n)),
           Finished(h, p, Range(Skip(p.events, n))),
           UNCHANGED <<source, run, agent, interrupted>>,
           op'.outer = op.outer, op'.context = None
    PROVE  OrderOK' /\ SkipIsFinal
  <1> DEFINE s    == SubSeq(p.events, 1, n)
             rest == Range(Skip(p.events, n))
  <1>0. /\ handle \in Supervised /\ run \in Runs /\ run' = run
        /\ HandleFits(handle) /\ PassFits(p) /\ h # None
        /\ handle.minted \in Nat /\ completed \in Nat
        /\ UNCHANGED <<source, log, completed, produced, interrupted>>
    BY LedgerTypes, NoneAssumption, CollectFits DEF LedgerOK, OpFits, Supervised, agent
  <1>1. /\ s \in Seq(Events) /\ Range(p.events) = Range(s) \cup rest
        /\ Range(p.events) \subseteq Events
    BY SkipIs, RangeOfSeq DEF Pass
  <1>2. ledger' = Record(s) /\ Finished(h, p, rest)
    OBVIOUS
  <1>3. Ascending(p.events)
    BY TakenAscends
  <1>4. PassSettles(h, p)
    BY <1>0, FinishedSettles
  <1>5. run \notin interrupted =>
          \A c \in Range(s), e \in produced : e < c => e \in Settled \cup Range(s)
    <2>1. run \notin interrupted => op.outer = None
      BY DEF OrderOK, OuterIsInterrupted
    <2> QED  BY <1>3, <2>1, PassIsInOrder
  <1> HIDE DEF s, rest
  <1>6. Counted' = Counted \cup Range(s)
    BY <1>0, <1>1, <1>2, RecordIs
  <1>7. Settled \subseteq Settled' /\ Range(s) \subseteq Settled'
    BY <1>4, <1>6 DEF PassSettles, Settled
  <1>8. Observed' = Observed /\ Emitted' = Emitted /\ OuterEvents' = OuterEvents
    BY <1>0 DEF Observed, Emitted, OuterEvents
  <1>9. /\ Range(p.events) \subseteq Open(handle)
        /\ \A e \in Range(p.events) : e \in Nat /\ e < Emitted
        /\ ~Observed => \A e \in Range(p.events) : 3 * e + 1 < p.to
    BY TakenIsOpen
  <1>10. /\ skipped \subseteq skipped' /\ skipped' \subseteq skipped \cup rest
         /\ HandleFinished(h, p, rest) /\ handle' # None
    BY <1>0, <1>2, NoneAssumption DEF Finished, HandleFinished
  <1>11. /\ h.usage_cursor = handle.usage_cursor /\ h.observed_park = handle.observed_park
         /\ h.minted = IF Observed THEN completed ELSE handle.minted
         /\ p.from = handle.usage_cursor /\ p.from <= p.to
         /\ handle'.minted = h.minted
    BY <1>10 DEF Collects, HandleFinished
  <1>12. ParkIsAscending'
    <2>1. CASE Observed
      <3>1. /\ Range(handle'.observed_park) \subseteq rest /\ Ascending(handle'.observed_park)
        BY <1>3, <1>10, <2>1 DEF HandleFinished, ParkFinished
      <3>2. handle'.minted = completed /\ Emitted = completed /\ handle.minted <= completed
        BY <1>0, <1>11, <2>1 DEF Emitted, HandleFits
      <3>3. \A e \in Range(handle'.observed_park) : e < handle'.minted
        BY <1>1, <1>9, <3>1, <3>2
      <3>4. op.outer # None => \A e \in OuterEvents : e < handle'.minted
        <4>1. op.outer # None => \A e \in OuterEvents : e < handle.minted /\ e \in Nat
          <5>1. op.outer # None => op.outer \in Pass /\ OuterEvents = Range(op.outer.events)
            BY LedgerTypes DEF OuterEvents
          <5>2. op.outer # None => OuterEvents \subseteq Events
            BY <5>1, RangeOfSeq DEF Pass
          <5> QED  BY <2>1, <5>2, LedgerTypes DEF OrderOK, ParkIsAscending, Events
        <4> QED  BY <1>0, <3>2, <4>1
      <3> QED  BY <1>8, <3>1, <3>3, <3>4 DEF OrderOK, ParkIsAscending
    <2>2. CASE ~Observed
      BY <1>8, <1>10, <1>11, <2>2 DEF OrderOK, ParkIsAscending, HandleFinished
    <2> QED  BY <2>1, <2>2
  <1>13. OuterIsInterrupted'
    BY <1>0 DEF OrderOK, OuterIsInterrupted
  <1>14. SkippedIsPassed'
    <2>1. \A e \in skipped' : e < Emitted'
      BY <1>1, <1>8, <1>9, <1>10 DEF OrderOK, SkippedIsPassed
    <2> SUFFICES ASSUME run \notin interrupted, NEW e \in Open(handle)', e \in skipped'
                 PROVE  FALSE
      BY <1>0, <1>10, <2>1 DEF SkippedIsPassed
    <2>2. Open(handle) \cap skipped = {}
      BY DEF OrderOK, SkippedIsPassed
    <2>3. e \in Events /\ e \in Nat
      BY LedgerTypes DEF Open, Events
    <2>4. CASE Observed
      <3>1. e >= completed \/ e \in Range(handle'.observed_park)
        BY <1>8, <1>11, <2>4 DEF Open
      <3>2. e < completed
        BY <1>8, <2>1, <2>4 DEF Emitted
      <3>3. e \in Range(handle'.observed_park)
        BY <1>0, <2>3, <3>1, <3>2
      <3>4. /\ Range(handle'.observed_park) \subseteq rest
            /\ Range(handle'.observed_park) \cap (skipped' \ skipped) = {}
        BY <1>3, <1>10, <2>4 DEF HandleFinished, ParkFinished
      <3> QED  BY <1>1, <1>9, <2>2, <3>3, <3>4
    <2>5. CASE ~Observed
      <3>1. e >= LineFrom(handle'.usage_cursor)
        BY <1>8, <2>5 DEF Open
      <3>2. CASE handle'.usage_cursor = p.to
        <4>1. p.to \in Nat /\ handle.usage_cursor \in Nat
          BY <1>0 DEF Pass, Supervised
        <4>2. 3 * e >= p.to
          BY <2>3, <3>1, <3>2, <4>1, LineOf
        <4>3. e \notin rest
          BY <1>1, <1>9, <2>3, <2>5, <4>1, <4>2
        <4>4. e >= LineFrom(handle.usage_cursor)
          BY <1>11, <2>3, <4>1, <4>2, LineOf
        <4> QED  BY <1>10, <2>2, <2>3, <2>5, <4>3, <4>4 DEF Open
      <3>3. CASE handle'.usage_cursor = h.usage_cursor /\ skipped' = skipped
        BY <1>11, <2>2, <2>3, <2>5, <3>1, <3>3 DEF Open
      <3> QED  BY <1>10, <2>5, <3>2, <3>3 DEF HandleFinished, CursorMoved, CursorStayed
    <2> QED  BY <2>4, <2>5
  <1>15. NoLeapfrog'
    <2> SUFFICES ASSUME NEW r \in Runs \ interrupted, NEW c \in Events, NEW e \in produced,
                        ledger'[r][c] > 0, e < c
                 PROVE  e \in Settled'
      BY <1>0 DEF NoLeapfrog
    <2>1. CASE ledger[r][c] > 0
      BY <1>7, <2>1 DEF OrderOK, NoLeapfrog
    <2>2. CASE r = run /\ c \in Range(s)
      BY <1>5, <1>7, <2>2
    <2> QED  BY <1>0, <1>1, <1>2, <2>1, <2>2, RowIsOfRun
  <1>16. SkipIsFinal
    BY <1>0, <1>1, <1>6, <1>9 DEF SkipIsFinal, OrderOK, SkippedIsPassed
  <1> QED  BY <1>12, <1>13, <1>14, <1>15, <1>16 DEF OrderOK

\* A drain that is interrupted leaves the order to the other Runs.
LEMMA InterruptedOrder ==
    ASSUME TypeOK, LedgerOK, OrderOK, handle # None, op.outer = None, op.context = None,
           NEW mode \in Modes, NEW next, NEW h \in Supervised, NEW p \in Pass,
           Collects(h, p, mode), NEW j \in 1 .. Len(p.events), Interrupted(h, p, next, j),
           UNCHANGED <<source, run, agent>>
    PROVE  OrderOK' /\ SkipIsFinal
  <1>0. /\ handle \in Supervised /\ run \in Runs /\ run' = run
        /\ UNCHANGED <<source, log, completed, produced>>
        /\ completed \in Nat /\ \A e \in Events : e \in Nat
    BY LedgerTypes DEF LedgerOK, OpFits, agent, Events
  <1>1. /\ op'.context = None /\ op'.outer # None
        /\ op'.outer.events = Skip(p.events, j)
        /\ handle' # None
        /\ handle'.observed_park = h.observed_park /\ handle'.minted = h.minted
        /\ UNCHANGED <<skipped, lost, silent>> /\ ledger' = Record(SubSeq(p.events, 1, j))
        /\ interrupted' = interrupted \cup {run}
    BY NoneAssumption DEF Interrupted
  <1>2. /\ h.observed_park = handle.observed_park
        /\ h.minted = IF Observed THEN completed ELSE handle.minted
    BY DEF Collects
  <1>3. Observed' = Observed /\ Emitted' = Emitted
    BY <1>0 DEF Observed, Emitted
  <1>4. /\ SubSeq(p.events, 1, j) \in Seq(Events)
        /\ Range(p.events) = Range(SubSeq(p.events, 1, j)) \cup Range(Skip(p.events, j))
        /\ Ascending(Skip(p.events, j))
        /\ Counted' = Counted \cup Range(SubSeq(p.events, 1, j))
    <2>1. p.events \in Seq(Events) /\ j \in 0 .. Len(p.events)
      BY LenProperties DEF Pass
    <2>2. Ascending(p.events)
      BY TakenAscends
    <2>3. /\ SubSeq(p.events, 1, j) \in Seq(Events)
          /\ Range(p.events) = Range(SubSeq(p.events, 1, j)) \cup Range(Skip(p.events, j))
          /\ Ascending(Skip(p.events, j))
      BY <2>1, <2>2, SkipIs
    <2> QED  BY <1>0, <1>1, <2>3, RecordIs
  <1>5. \A e \in Range(p.events) : e \in Nat /\ e < Emitted
    BY TakenIsOpen
  <1>6. ParkIsAscending'
    <2>1. Ascending(handle'.observed_park)
      BY <1>1, <1>2 DEF OrderOK, ParkIsAscending
    <2>2. \A e \in Range(handle.observed_park) : e < handle'.minted
      <3>1. CASE Observed
        <4>1. \A e \in Range(handle.observed_park) : e < completed
          BY <3>1, LedgerTypes DEF HandleFits, Emitted
        <4> QED  BY <1>1, <1>2, <3>1, <4>1
      <3>2. CASE ~Observed
        BY <1>1, <1>2, <3>2 DEF OrderOK, ParkIsAscending
      <3> QED  BY <3>1, <3>2
    <2>3. Observed => \A e \in OuterEvents' : e < handle'.minted
      <3>1. OuterEvents' = Range(Skip(p.events, j))
        BY <1>1 DEF OuterEvents
      <3>2. Observed => handle'.minted = Emitted
        BY <1>1, <1>2 DEF Emitted
      <3> QED  BY <1>4, <1>5, <3>1, <3>2
    <2> QED  BY <1>1, <1>2, <1>3, <1>4, <2>1, <2>2, <2>3 DEF ParkIsAscending
  <1>7. OuterIsInterrupted' /\ SkippedIsPassed' /\ SkipIsFinal
    BY <1>0, <1>1, <1>3 DEF OrderOK, OuterIsInterrupted, SkippedIsPassed, SkipIsFinal
  <1>8. NoLeapfrog'
    <2> SUFFICES ASSUME NEW r \in Runs \ interrupted', NEW c \in Events, NEW e \in produced,
                        ledger'[r][c] > 0, e < c
                 PROVE  e \in Settled'
      BY <1>0 DEF NoLeapfrog
    <2>1. ledger[r][c] > 0 /\ r \in Runs \ interrupted
      BY <1>0, <1>1, <1>4, RowIsOfRun
    <2>2. e \in Settled
      BY <2>1 DEF OrderOK, NoLeapfrog
    <2> QED  BY <1>1, <1>4, <2>2 DEF Settled
  <1> QED  BY <1>6, <1>7, <1>8 DEF OrderOK

\* So does the rest of it.
LEMMA ResumeInOrder ==
    ASSUME TypeOK, LedgerOK, OrderOK, resume_drain
    PROVE  OrderOK' /\ SkipIsFinal
  <1>0. /\ op.at = "resume" /\ op' = At(op.next) /\ op.outer # None /\ op.context = None
        /\ op.next \in {"poll", "reap"} /\ run \in Runs /\ run' = run
        /\ UNCHANGED <<source, log, completed, produced, interrupted>>
        /\ run \in interrupted
    BY IdleIs DEF resume_drain, agent, LedgerOK, OpFits, OrderOK, OuterIsInterrupted
  <1>1. PICK p \in Pass : p = op.outer
    BY <1>0, LedgerTypes
  <1>2. PICK n \in 0 .. Len(p.events) :
            /\ ledger' = Record(SubSeq(p.events, 1, n))
            /\ Finished(handle, p, Range(Skip(p.events, n)))
    BY <1>0, <1>1, ResumeIs
  <1>3. op'.outer = None /\ op'.context = None
    BY <1>0, AtIs DEF Steps
  <1>4. Observed' = Observed /\ Emitted' = Emitted
    BY <1>0 DEF Observed, Emitted
  <1>5. /\ SubSeq(p.events, 1, n) \in Seq(Events)
        /\ Range(p.events) = Range(SubSeq(p.events, 1, n)) \cup Range(Skip(p.events, n))
        /\ Counted' = Counted \cup Range(SubSeq(p.events, 1, n))
    <2>1. p.events \in Seq(Events)
      BY DEF Pass
    <2>2. /\ SubSeq(p.events, 1, n) \in Seq(Events)
          /\ Range(p.events) = Range(SubSeq(p.events, 1, n)) \cup Range(Skip(p.events, n))
      BY <2>1, SkipIs
    <2> QED  BY <1>0, <1>2, <2>2, RecordIs
  <1>6. Settled \subseteq Settled'
    <2>1. PassSettles(handle, p)
      BY <1>0, <1>2, LedgerTypes, FinishedSettles
    <2> QED  BY <2>1 DEF PassSettles
  <1>7. Ascending(p.events) /\ OuterEvents = Range(p.events)
    BY <1>0, <1>1 DEF OrderOK, ParkIsAscending, OuterEvents
  <1>8. \A e \in Range(p.events) : e < Emitted
    BY <1>0, <1>1, LedgerTypes DEF PassFits
  <1>9. skipped' \subseteq skipped \cup Range(Skip(p.events, n))
    BY <1>2 DEF Finished, HandleFinished
  <1>10. ParkIsAscending'
    <2> SUFFICES ASSUME handle' # None
                 PROVE  /\ Ascending(handle'.observed_park)
                        /\ \A e \in Range(handle'.observed_park) : e < handle'.minted
      BY <1>3 DEF ParkIsAscending
    <2>1. /\ handle # None /\ handle'.minted = handle.minted
          /\ HandleFinished(handle, p, Range(Skip(p.events, n)))
      BY <1>2 DEF Finished, HandleFinished
    <2>2. CASE Observed
      <3>1. /\ Range(handle'.observed_park) \subseteq Range(p.events)
            /\ Ascending(handle'.observed_park)
        BY <1>5, <1>7, <2>1, <2>2 DEF HandleFinished, ParkFinished
      <3>2. \A e \in Range(p.events) : e < handle.minted
        BY <1>0, <1>7, <2>1, <2>2 DEF OrderOK, ParkIsAscending
      <3> QED  BY <2>1, <3>1, <3>2
    <2>3. CASE ~Observed
      BY <2>1, <2>3 DEF OrderOK, ParkIsAscending, HandleFinished
    <2> QED  BY <2>2, <2>3
  <1>11. OuterIsInterrupted' /\ SkipIsFinal
    BY <1>0, <1>3 DEF OuterIsInterrupted, SkipIsFinal
  <1>12. SkippedIsPassed'
    BY <1>0, <1>3, <1>4, <1>5, <1>8, <1>9 DEF OrderOK, SkippedIsPassed
  <1>13. NoLeapfrog'
    <2> SUFFICES ASSUME NEW r \in Runs \ interrupted, NEW c \in Events, NEW e \in produced,
                        ledger'[r][c] > 0, e < c
                 PROVE  e \in Settled'
      BY <1>0 DEF NoLeapfrog
    <2>1. ledger[r][c] > 0
      BY <1>0, <1>2, <1>5, RowIsOfRun
    <2> QED  BY <1>6, <2>1 DEF OrderOK, NoLeapfrog
  <1> QED  BY <1>10, <1>11, <1>12, <1>13 DEF OrderOK

\* A step that adds no row, skips nothing, and moves no mark back.
LEMMA NothingSettled ==
    ASSUME TypeOK, LedgerOK, OrderOK, UNCHANGED <<source, ledger, skipped, interrupted>>,
           Settled \subseteq Settled',
           log' \in Nat, log <= log', completed' \in Nat, completed <= completed',
           produced' \subseteq produced \cup {e \in Events : e >= Emitted}
    PROVE  /\ NoLeapfrog' /\ SkipIsFinal /\ Observed' = Observed
           /\ \A e \in skipped' : e < Emitted'
           /\ \A h : Open(h)' = Open(h)
  <1>1. Observed' = Observed /\ Emitted \in Nat /\ Emitted' \in Nat /\ Emitted <= Emitted'
    BY EmittedGrows
  <1>2. Counted' = Counted /\ \A e \in Events : e \in Nat
    BY LedgerTypes DEF Counted, Events
  <1>3. SkipIsFinal
    BY <1>2 DEF SkipIsFinal
  <1>4. NoLeapfrog'
    <2> SUFFICES ASSUME NEW r \in Runs \ interrupted, NEW c \in Events, NEW e \in produced',
                        ledger[r][c] > 0, e < c
                 PROVE  e \in Settled'
      BY DEF NoLeapfrog
    <2>1. c \in Counted /\ c < Emitted
      BY LedgerTypes DEF CountedIsEmitted, Counted
    <2>2. e \in produced
      BY <1>1, <1>2, <2>1
    <2> QED  BY <2>2 DEF OrderOK, NoLeapfrog
  <1>5. \A e \in skipped' : e < Emitted'
    BY <1>1, <1>2, LedgerTypes DEF OrderOK, SkippedIsPassed
  <1> QED  BY <1>1, <1>3, <1>4, <1>5 DEF Open

\* Such a step keeps the order if it leaves the marks or drops them.
LEMMA MarksInOrder ==
    ASSUME TypeOK, LedgerOK, OrderOK, UNCHANGED <<source, run, ledger, skipped, interrupted>>,
           Settled \subseteq Settled',
           log' \in Nat, log <= log', completed' \in Nat, completed <= completed',
           produced' \subseteq produced \cup {e \in Events : e >= Emitted},
           handle' # None => /\ handle # None
                             /\ handle'.usage_cursor = handle.usage_cursor
                             /\ handle'.observed_park = handle.observed_park
                             /\ handle'.minted = handle.minted,
           op'.outer = op.outer \/ op'.outer = None,
           op'.context = op.context \/ op'.context = None
    PROVE  OrderOK' /\ SkipIsFinal
  <1>1. /\ NoLeapfrog' /\ SkipIsFinal /\ Observed' = Observed
        /\ \A e \in skipped' : e < Emitted'
        /\ \A h : Open(h)' = Open(h)
    BY NothingSettled
  <1>2. op'.outer # None => OuterEvents' = OuterEvents
    BY DEF OuterEvents
  <1>3. ParkIsAscending' /\ OuterIsInterrupted'
    BY <1>1, <1>2 DEF OrderOK, ParkIsAscending, OuterIsInterrupted
  <1>4. handle' # None => Open(handle)' = Open(handle)
    BY <1>1 DEF Open
  <1>5. op'.context # None => Open(op.context)' = Open(op.context)
    BY <1>1 DEF Open
  <1>6. SkippedIsPassed'
    BY <1>1, <1>4, <1>5 DEF OrderOK, SkippedIsPassed
  <1> QED  BY <1>1, <1>3, <1>6 DEF OrderOK

\* The actions of the agent.
LEMMA AgentInOrder ==
    ASSUME TypeOK, LedgerOK, AccountOK, OrderOK,
           write \/ complete \/ exit \/ UNCHANGED vars
    PROVE  OrderOK' /\ SkipIsFinal
  <1>1. UNCHANGED <<source, run, handle, op, ledger, skipped, lost, silent, interrupted>>
    BY DEF write, complete, exit, vars, agent, history, told
  <1>2. Settled' = Settled /\ log \in Nat /\ completed \in Nat
    BY <1>1, LedgerTypes DEF Settled, Counted
  <1>3. CASE write
    <2>1. /\ ~Observed /\ log' = log + 1 /\ completed' = completed /\ log < 3 * MaxUsage
          /\ produced' = IF log % 3 = 1 THEN produced \cup {log \div 3} ELSE produced
      BY <1>3 DEF write
    <2>2. log % 3 = 1 => log \div 3 \in Events /\ log \div 3 >= WholeLines(log)
      <3>1. PICK q \in Nat, r \in 0 .. 2 :
                /\ log = 3 * q + r /\ log \div 3 = q /\ log % 3 = r
                /\ WholeLines(log) = q + (IF r = 2 THEN 1 ELSE 0)
        BY <1>2, Lines
      <3> QED  BY <2>1, <3>1, LedgerTypes DEF Events
    <2>3. produced' \subseteq produced \cup {e \in Events : e >= Emitted}
      BY <2>1, <2>2 DEF Emitted
    <2> QED  BY <1>1, <1>2, <2>1, <2>3, MarksInOrder
  <1>4. CASE complete
    <2>1. /\ listening /\ log' = log /\ completed' = completed + 1 /\ completed < MaxUsage
          /\ produced' = produced \cup {completed}
      BY <1>4 DEF complete
    <2>2. Observed
      BY <2>1 DEF AccountOK, AliveIsHeld
    <2>3. produced' \subseteq produced \cup {e \in Events : e >= Emitted}
      BY <1>2, <2>1, <2>2, LedgerTypes DEF Emitted, Events
    <2> QED  BY <1>1, <1>2, <2>1, <2>3, MarksInOrder
  <1>5. CASE exit \/ UNCHANGED vars
    <2>1. UNCHANGED <<log, completed, produced>>
      BY <1>5 DEF exit, vars, agent
    <2> QED  BY <1>1, <1>2, <2>1, MarksInOrder
  <1> QED  BY <1>3, <1>4, <1>5

\* The steps that take no event.
LEMMA QuietInOrder ==
    ASSUME TypeOK, LedgerOK, OrderOK,
           \/ launch_exits \/ poll_alive \/ reap \/ begin_stop \/ stop_retry
           \/ backend_stop \/ backend_stop_unconfirmed \/ backend_stop_fails
           \/ release \/ abandon \/ reopen \/ (rescue_drain /\ Observed)
    PROVE  OrderOK' /\ SkipIsFinal
  <1>1. /\ UNCHANGED <<source, run, log, completed, ledger, produced, skipped, lost,
                       interrupted>>
        /\ silent \subseteq silent'
    BY DEF launch_exits, poll_alive, reap, begin_stop, stop_retry, backend_stop,
           backend_stop_unconfirmed, backend_stop_fails, release, abandon, Release,
           reopen, rescue_drain, agent, history, told
  <1>2. Settled \subseteq Settled' /\ log \in Nat /\ completed \in Nat
    BY <1>1, LedgerTypes DEF Settled, Counted
  <1>3. \/ handle' \in {handle, None}
        \/ op.at = "kill" /\ handle' = [handle EXCEPT !.stop_unconfirmed = TRUE]
    BY DEF launch_exits, poll_alive, reap, begin_stop, stop_retry, backend_stop,
           backend_stop_unconfirmed, backend_stop_fails, release, abandon, Release,
           reopen, rescue_drain
  <1>4. \/ op' \in {Idle, Return, At("stop"), At("abandon")}
        \/ op' \in {Goto("rescue"), Goto("release")}
    BY DEF launch_exits, poll_alive, reap, begin_stop, stop_retry, backend_stop,
           backend_stop_unconfirmed, backend_stop_fails, release, abandon, Release,
           reopen, rescue_drain
  <1>5. /\ op'.outer = op.outer \/ op'.outer = None
        /\ op'.context = op.context \/ op'.context = None
    <2>1. op \in Ops
      BY LedgerTypes
    <2> QED  BY <1>4, <2>1, IdleIs, AtIs, GotoIs, ReturnIs DEF Steps
  <1>6. handle' # None => /\ handle # None
                          /\ handle'.usage_cursor = handle.usage_cursor
                          /\ handle'.observed_park = handle.observed_park
                          /\ handle'.minted = handle.minted
    <2>1. CASE handle' \in {handle, None}
      BY <2>1
    <2>2. CASE op.at = "kill" /\ handle' = [handle EXCEPT !.stop_unconfirmed = TRUE]
      <3>1. handle # None /\ handle \in Supervised
        BY <2>2, LedgerTypes DEF LedgerOK, OpFits, Stopping
      <3> QED  BY <2>2, <3>1 DEF Supervised
    <2> QED  BY <1>3, <2>1, <2>2
  <1> QED  BY <1>1, <1>2, <1>5, <1>6, MarksInOrder

\* The context of a launch becomes the handle.
LEMMA BecomeRunningInOrder ==
    ASSUME TypeOK, LedgerOK, OrderOK, become_running
    PROVE  OrderOK' /\ SkipIsFinal
  <1>1. /\ UNCHANGED <<source, run, log, completed, produced, ledger,
                       skipped, lost, silent, interrupted>>
        /\ handle' = op.context /\ op' = Idle /\ op.context # None
    BY DEF become_running, agent, history, told, LedgerOK, OpFits
  <1>2. Settled' = Settled /\ log \in Nat /\ completed \in Nat
    BY <1>1, LedgerTypes DEF Settled, Counted
  <1>3. /\ NoLeapfrog' /\ SkipIsFinal /\ Observed' = Observed
        /\ \A e \in skipped' : e < Emitted'
        /\ \A h : Open(h)' = Open(h)
    BY <1>1, <1>2, NothingSettled
  <1>4. op'.outer = None /\ op'.context = None
    BY <1>1, IdleIs
  <1>5. ParkIsAscending' /\ OuterIsInterrupted'
    BY <1>1, <1>4, EmptyRange DEF OrderOK, ParkIsAscending, OuterIsInterrupted
  <1>6. Open(handle)' = Open(op.context)
    BY <1>1, <1>3 DEF Open
  <1>7. SkippedIsPassed'
    BY <1>1, <1>3, <1>4, <1>6 DEF OrderOK, SkippedIsPassed
  <1> QED  BY <1>3, <1>5, <1>7 DEF OrderOK

\* What was given up is below every mark of a Run that begins.
LEMMA NewRunIsPast ==
    ASSUME TypeOK, LedgerOK, OrderOK, UNCHANGED <<source, completed, skipped>>,
           log' \in Nat, log <= log',
           NEW h, h.usage_cursor = log', h.minted = completed, h.observed_park = <<>>
    PROVE  Open(h)' \cap skipped' = {}
  <1>1. /\ log \in Nat /\ completed \in Nat /\ completed' \in Nat
        /\ \A e \in Events : e \in Nat
    BY LedgerTypes DEF Events
  <1>2. Observed' = Observed /\ Emitted \in Nat /\ Emitted' \in Nat /\ Emitted <= Emitted'
    BY <1>1, EmittedGrows
  <1>3. WholeLines(log') <= LineFrom(log') /\ WholeLines(log') \in Nat /\ LineFrom(log') \in Nat
    <2>1. PICK q \in Nat, r \in 0 .. 2 :
              /\ WholeLines(log') = q + (IF r = 2 THEN 1 ELSE 0)
              /\ LineFrom(log') = q + (IF r = 0 THEN 0 ELSE 1)
      BY Lines
    <2> QED  BY <2>1
  <1>4. \A e \in Open(h)' : e \in Nat /\ e >= Emitted'
    BY <1>1, <1>2, <1>3, EmptyRange DEF Open, Emitted
  <1>5. \A e \in skipped' : e < Emitted
    BY DEF OrderOK, SkippedIsPassed
  <1> QED  BY <1>2, <1>4, <1>5

\* A launch.
LEMMA SpawnInOrder ==
    ASSUME TypeOK, LedgerOK, OrderOK, spawn
    PROVE  OrderOK' /\ SkipIsFinal
  <1>1. /\ UNCHANGED <<source, completed, produced, handle, ledger, skipped, lost, silent,
                       interrupted>>
        /\ handle = None /\ log' = Rounded
        /\ op' = [At("watch") EXCEPT !.context = NewHandle(Rounded, completed)]
    BY DEF spawn, history, told
  <1>2. log' \in Nat /\ log <= log' /\ completed \in Nat
    <2>1. PICK q \in Nat, r \in 0 .. 2 :
              log = 3 * q + r /\ LineFrom(log) = q + (IF r = 0 THEN 0 ELSE 1)
      BY LedgerTypes, Lines
    <2>2. log' = 3 * LineFrom(log)
      BY <1>1 DEF Rounded, LineFrom
    <2> QED  BY <2>1, <2>2, LedgerTypes
  <1>3. PICK h : h = NewHandle(log', completed)
    OBVIOUS
  <1>4. h.usage_cursor = log' /\ h.minted = completed /\ h.observed_park = <<>>
    BY <1>2, <1>3, NewHandleIs
  <1>5. op'.outer = None /\ op'.context = h
    BY <1>1, <1>3 DEF At, Idle
  <1>6. Settled' = Settled
    BY <1>1 DEF Settled, Counted
  <1>7. /\ NoLeapfrog' /\ SkipIsFinal /\ \A e \in skipped' : e < Emitted'
        /\ \A g : Open(g)' = Open(g)
    BY <1>1, <1>2, <1>6, NothingSettled
  <1>8. Open(h)' \cap skipped' = {}
    BY <1>1, <1>2, <1>4, NewRunIsPast
  <1>9. Open(op.context)' = Open(h)'
    BY <1>5 DEF Open
  <1>10. SkippedIsPassed'
    BY <1>1, <1>7, <1>8, <1>9 DEF SkippedIsPassed
  <1>11. ParkIsAscending' /\ OuterIsInterrupted'
    BY <1>1, <1>4, <1>5 DEF ParkIsAscending, OuterIsInterrupted
  <1> QED  BY <1>7, <1>10, <1>11 DEF OrderOK

\* An adoption.
LEMMA AdoptInOrder ==
    ASSUME TypeOK, LedgerOK, OrderOK, adopt
    PROVE  OrderOK' /\ SkipIsFinal
  <1>1. /\ UNCHANGED <<source, log, completed, produced, ledger, skipped, lost, interrupted>>
        /\ silent \subseteq silent'
    BY DEF adopt, told
  <1>2. log \in Nat /\ completed \in Nat
    BY LedgerTypes
  <1>3. PICK h : h = NewHandle(log, completed)
    OBVIOUS
  <1>4. /\ h \in Supervised /\ h.usage_cursor = log /\ h.minted = completed
        /\ h.observed_park = <<>>
    BY <1>2, <1>3, NewHandleIs
  <1>5. \/ handle' = h /\ op' = Idle
        \/ handle' = [h EXCEPT !.breached = TRUE] /\ op' = At("stop")
    BY <1>3 DEF adopt
  <1>6. /\ handle'.usage_cursor = log /\ handle'.minted = completed
        /\ handle'.observed_park = <<>>
    BY <1>4, <1>5 DEF Supervised
  <1>7. op'.outer = None /\ op'.context = None
    BY <1>5, AtIs, IdleIs DEF Steps
  <1>8. Settled \subseteq Settled'
    BY <1>1 DEF Settled, Counted
  <1>9. NoLeapfrog' /\ SkipIsFinal /\ \A e \in skipped' : e < Emitted'
    BY <1>1, <1>2, <1>8, NothingSettled
  <1>10. PICK g : g = handle'
    OBVIOUS
  <1>11. Open(g)' \cap skipped' = {}
    BY <1>1, <1>2, <1>6, <1>10, NewRunIsPast
  <1>12. Open(handle)' = Open(g)'
    BY <1>10 DEF Open
  <1>13. SkippedIsPassed'
    BY <1>7, <1>9, <1>11, <1>12 DEF SkippedIsPassed
  <1>14. ParkIsAscending' /\ OuterIsInterrupted'
    BY <1>6, <1>7, EmptyRange DEF ParkIsAscending, OuterIsInterrupted
  <1> QED  BY <1>9, <1>13, <1>14 DEF OrderOK

\* A drain that the reaper or a stop begins.
LEMMA DrainsInOrder ==
    ASSUME TypeOK, LedgerOK, AccountOK, OrderOK, handle # None, NEW mode \in Modes, NEW next,
           \/ op.at = "idle" /\ mode = "MidRun" /\ next = "poll"
           \/ op.at = "poll" /\ mode = "Terminal" /\ next = "reap"
           \/ op.at = "stop" /\ mode = "Terminal" /\ next = "kill"
           \/ op.at = "rescue" /\ mode = "Terminal" /\ next = "release",
           drain_for(mode, next), UNCHANGED <<source, run, agent>>
    PROVE  OrderOK' /\ SkipIsFinal
  <1>1. /\ OpFits /\ op \in Ops /\ HandleFits(handle) /\ op.context = None /\ next \in Steps
        /\ op.at \in {"idle", "poll"} => op.outer = None
        /\ op.at \in {"stop", "rescue"} => stopping /\ ~handle.stop_unconfirmed
    BY LedgerTypes, IdleIs DEF LedgerOK, OpFits, Stopping, Steps
  <1>2. PICK h \in Supervised, p \in Pass :
             /\ Collects(h, p, mode)
             /\ \/ /\ \E n \in 0 .. Len(p.events) :
                        /\ ledger' = Record(SubSeq(p.events, 1, n))
                        /\ Finished(h, p, Range(Skip(p.events, n)))
                   /\ op' = Goto(next) /\ UNCHANGED <<stopping, interrupted>>
                \/ \E j \in 1 .. Len(p.events) : Interrupted(h, p, next, j)
    BY <1>1, DrainIs
  <1>3. CASE \E j \in 1 .. Len(p.events) : Interrupted(h, p, next, j)
    <2>1. PICK j \in 1 .. Len(p.events) : Interrupted(h, p, next, j)
      BY <1>3
    <2>2. op.outer = None
      BY <1>1, <1>2, <2>1 DEF Interrupted, Collects
    <2> QED  BY <1>1, <1>2, <2>1, <2>2, InterruptedOrder
  <1>4. CASE /\ \E n \in 0 .. Len(p.events) :
                  /\ ledger' = Record(SubSeq(p.events, 1, n))
                  /\ Finished(h, p, Range(Skip(p.events, n)))
             /\ op' = Goto(next) /\ UNCHANGED <<stopping, interrupted>>
    <2>1. PICK n \in 0 .. Len(p.events) :
                  /\ ledger' = Record(SubSeq(p.events, 1, n))
                  /\ Finished(h, p, Range(Skip(p.events, n)))
      BY <1>4
    <2>2. op'.outer = op.outer /\ op'.context = None
      BY <1>1, <1>4, GotoIs
    <2> QED  BY <1>1, <1>2, <1>4, <2>1, <2>2, DrainInOrder
  <1> QED  BY <1>2, <1>3, <1>4

\* The drains of a tick, of an exit and of a stop.
LEMMA ReaperInOrder ==
    ASSUME TypeOK, LedgerOK, AccountOK, OrderOK,
           tick \/ poll_exited \/ drain_before_kill \/ rescue_drain
    PROVE  OrderOK' /\ SkipIsFinal
  <1>1. OpFits
    BY DEF LedgerOK
  <1>2. CASE tick
    BY <1>2, DrainsInOrder, IdleIs DEF tick, Modes
  <1>3. CASE poll_exited
    BY <1>3, DrainsInOrder DEF poll_exited, Modes
  <1>4. CASE drain_before_kill
    BY <1>1, <1>4, DrainsInOrder DEF drain_before_kill, Modes, OpFits, Stopping
  <1>5. CASE rescue_drain /\ ~Observed
    BY <1>1, <1>5, DrainsInOrder DEF rescue_drain, Modes, OpFits, Stopping
  <1>6. CASE rescue_drain /\ Observed
    BY <1>6, QuietInOrder
  <1> QED  BY <1>2, <1>3, <1>4, <1>5, <1>6

\* Every step keeps the order.
LEMMA OrderStep ==
    TypeOK /\ LedgerOK /\ AccountOK /\ OrderOK /\ [Next]_vars => OrderOK' /\ SkipIsFinal
  <1> SUFFICES ASSUME TypeOK, LedgerOK, AccountOK, OrderOK, [Next]_vars
               PROVE  OrderOK' /\ SkipIsFinal
    OBVIOUS
  <1>1. CASE write \/ complete \/ exit \/ UNCHANGED vars
    BY <1>1, AgentInOrder
  <1>2. CASE \/ launch_exits \/ poll_alive \/ reap \/ begin_stop \/ stop_retry
             \/ backend_stop \/ backend_stop_unconfirmed \/ backend_stop_fails
             \/ release \/ abandon \/ reopen
    BY <1>2, QuietInOrder
  <1>3. CASE tick \/ poll_exited \/ drain_before_kill \/ rescue_drain \/ resume_drain
    BY <1>3, ReaperInOrder, ResumeInOrder
  <1>4. CASE become_running \/ spawn \/ adopt
    BY <1>4, BecomeRunningInOrder, SpawnInOrder, AdoptInOrder
  <1> QED  BY <1>1, <1>2, <1>3, <1>4 DEF Next, Engine

\* It holds initially.
LEMMA OrderStarts == Init => OrderOK
  <1> SUFFICES ASSUME Init PROVE OrderOK
    OBVIOUS
  <1>1. op.outer = None /\ op.context = None /\ handle = None /\ skipped = {} /\ produced = {}
    BY IdleIs DEF Init
  <1> QED  BY <1>1 DEF OrderOK, ParkIsAscending, OuterIsInterrupted, SkippedIsPassed, NoLeapfrog

(***************************************************************************)
(* No drain counts an event past an earlier one that is neither counted nor *)
(* given up, and one that was given up is never counted afterwards, unless a *)
(* Breach Action stopped the Run inside one of its drains.                 *)
(***************************************************************************)
THEOREM SkipsStayInOrder == Spec => SkipsInOrder
  <1>1. Spec => []AccountOK
    BY AccountStarts, AccountStep, Metered, PTL DEF Spec
  <1>2. Spec => []OrderOK /\ [][SkipIsFinal]_vars
    <2>1. OrderOK => NoLeapfrog
      BY DEF OrderOK
    <2> QED  BY <1>1, OrderStarts, OrderStep, Metered, PTL DEF Spec
  <1>3. OrderOK => NoLeapfrog
    BY DEF OrderOK
  <1> QED  BY <1>2, <1>3, PTL DEF SkipsInOrder
=============================================================================
