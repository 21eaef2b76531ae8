--------------------------- MODULE ServiceProofs ---------------------------
(***************************************************************************)
(* Theorems about JobHandles, for any pids the system gives away: the      *)
(* backend calls no living agent gone, a recorded detached agent is found, *)
(* nobody else is terminated, an escalated stop reaches all that runs in   *)
(* the job, and an attached agent does not outlive its engine.             *)
(*                                                                         *)
(* And about SelfUpdate, for any number of commands and of releases: the   *)
(* executable is whole at all times, and a notice is of a newer release    *)
(* and not older than an interval.                                         *)
(***************************************************************************)
EXTENDS JobHandles, SelfUpdate, TLAPS

-----------------------------------------------------------------------------
(***************************************************************************)
(* Jobs.                                                                   *)
(***************************************************************************)
JobSlots ==
    [who : {"nobody", "agent", "stranger", "exited"}, born : Nat,
     job : {"none", "kill", "plain"}, stuck : BOOLEAN, doomed : BOOLEAN]

JobHolders ==
    [child : BOOLEAN, pid : Pids, born : Nat, job : {"none", "kill", "plain"}]

JobRecords == [pid : Pids, born : Nat, detached : BOOLEAN]

Is(p) == slots[p].who # "nobody"

\* A creation time is given once, and names one process.
BirthsAreCounted == \A p \in Pids : Is(p) => slots[p].born \in 1 .. births

OneBirthOneProcess ==
    \A p, q \in Pids : Is(p) /\ Is(q) /\ slots[p].born = slots[q].born => p = q

\* A pid and a creation time are an agent's, or nobody's any more.
Names(x) ==
    /\ x.born \in 1 .. births
    /\ \A p \in Pids : Is(p) /\ slots[p].born = x.born
                          => p = x.pid /\ slots[p].who # "stranger"

RecordNamesAgent == record # NoRecord => Names(record)

\* While a handle is open, nobody else gets its pid.
HandleHolds ==
    process # NoHandle => /\ slots[process.pid].who \in {"agent", "exited"}
                         /\ slots[process.pid].born = process.born

ExitedIsHeld ==
    \A p \in Pids : slots[p].who = "exited" => process # NoHandle /\ process.pid = p

RecordIsOfHandle ==
    process # NoHandle /\ record # NoRecord =>
        record.pid = process.pid /\ record.born = process.born

\* A termination waits for nothing but the kernel.
DoomedIsStuck ==
    \A p \in Pids : slots[p].who = "agent" /\ slots[p].doomed => slots[p].stuck

\* The last handle of a job that kills on close is the engine's.
KillJobIsHeld ==
    \A p \in Pids :
        slots[p].who = "agent" /\ slots[p].job = "kill" /\ ~slots[p].doomed
            => process # NoHandle /\ process.pid = p /\ process.job = "kill"

DetachedIsRecorded ==
    \A p \in Pids :
        slots[p].who = "agent" /\ slots[p].job = "plain" /\ slots[p].born \in known \ missed
            => record # NoRecord /\ record.pid = p /\ record.born = slots[p].born

\* A call in progress has its handle, in an open engine; a spawn has no record yet.
CallsHoldHandle ==
    /\ engine # "open" => step = "idle" /\ process = NoHandle
    /\ step # "idle" => process # NoHandle
    /\ step \in {"created", "assigned", "spawned"} =>
          record = NoRecord /\ process.born \notin known
    /\ step = "created" => slots[process.pid].job = "none"

\* A job terminated leaves nothing that could start anything in it.
TerminatedIsOver ==
    step = "confirm" /\ process.job # "none" =>
        /\ slots[process.pid].who = "agent" => slots[process.pid].doomed
        /\ <<process.born, "inside">> \notin kin

JobInv ==
    /\ JobTypeOK
    /\ BirthsAreCounted /\ OneBirthOneProcess
    /\ RecordNamesAgent /\ HandleHolds /\ ExitedIsHeld /\ RecordIsOfHandle
    /\ DoomedIsStuck /\ KillJobIsHeld /\ DetachedIsRecorded
    /\ CallsHoldHandle /\ TerminatedIsOver
    /\ GoneIsGone /\ NoStrangerHarmed /\ EscalationReachesAll

-----------------------------------------------------------------------------
(* What the system may do to the processes.                                *)

JobSteps == {"idle", "created", "assigned", "spawned", "window", "terminate", "confirm"}

LEMMA JobTypes ==
    ASSUME JobInv
    PROVE  /\ slots \in [Pids -> JobSlots] /\ births \in Nat /\ births <= births
           /\ kin \subseteq (1 .. births) \X {"inside", "outside"}
           /\ process # NoHandle => process \in JobHolders /\ process.pid \in Pids
                                   /\ process.born \in Nat
                                   /\ process.job \in {"none", "kill", "plain"}
           /\ record # NoRecord => record \in JobRecords /\ record.pid \in Pids
                                   /\ record.born \in Nat
           /\ step \in JobSteps
           /\ step # "idle" => process # NoHandle /\ engine = "open"
           /\ harmed = FALSE
  BY DEF JobInv, JobTypeOK, JobSlots, JobHolders, JobRecords, JobSteps, CallsHoldHandle,
         NoStrangerHarmed

LEMMA FreeIsFree == Free \in JobSlots /\ Free.who = "nobody"
  BY DEF Free, JobSlots

\* What becomes of a process: it runs on, it has exited, or it is forgotten.
Outlives(old, new) ==
    new.who # "nobody" =>
        /\ old.who # "nobody" /\ new.who \in {old.who, "exited"}
        /\ new.born = old.born /\ new.job = old.job
        /\ new.who = "agent" => (old.doomed => new.doomed) /\ (new.doomed => new.stuck)

SlotsOutlived(s) ==
    s \in [Pids -> JobSlots] /\ \A p \in Pids : Outlives(slots[p], s[p])

LEMMA AllOutlive ==
    ASSUME JobInv PROVE SlotsOutlived(slots)
  BY JobTypes DEF JobInv, DoomedIsStuck, SlotsOutlived, Outlives

LEMMA OneOutlives ==
    ASSUME JobInv, NEW p \in Pids, NEW slot \in JobSlots, Outlives(slots[p], slot)
    PROVE  SlotsOutlived([slots EXCEPT ![p] = slot])
  BY JobTypes, AllOutlive DEF SlotsOutlived

LEMMA EndedOutlives ==
    ASSUME NEW slot \in JobSlots, NEW held \in BOOLEAN, held => slot.who # "nobody"
    PROVE  /\ Ended(slot, held) \in JobSlots /\ Outlives(slot, Ended(slot, held))
           /\ Ended(slot, held).who \in {"nobody", "exited"}
           /\ held => Ended(slot, held).who # "nobody"
           /\ ~held => Ended(slot, held).who # "exited"
<1>1. CASE held
  <2>1. Ended(slot, held) = [slot EXCEPT !.who = "exited"]
    BY <1>1 DEF Ended
  <2>2. /\ Ended(slot, held) \in JobSlots /\ Ended(slot, held).who = "exited"
        /\ Ended(slot, held).born = slot.born /\ Ended(slot, held).job = slot.job
    BY <2>1 DEF JobSlots
  <2> QED BY <1>1, <2>2 DEF Outlives
<1>2. CASE ~held
  <2>1. Ended(slot, held) = Free
    BY <1>2 DEF Ended
  <2> QED BY <1>2, <2>1, FreeIsFree DEF Outlives
<1> QED BY <1>1, <1>2

\* A terminated agent is gone, or goes when it leaves the kernel.
LEMMA TerminatedOutlives ==
    ASSUME NEW slot \in JobSlots, NEW held \in BOOLEAN
    PROVE  /\ Terminated(slot, held) \in JobSlots
           /\ Outlives(slot, Terminated(slot, held))
           /\ Terminated(slot, held).who = "agent" => Terminated(slot, held).doomed
           /\ held => (slot.who # "nobody" => Terminated(slot, held).who # "nobody")
           /\ ~held => (slot.who # "exited" => Terminated(slot, held).who # "exited")
<1>1. CASE slot.who \in {"nobody", "exited"}
  <2>1. Terminated(slot, held) = slot
    BY <1>1 DEF Terminated
  <2> QED BY <1>1, <2>1 DEF Outlives
<1>2. CASE slot.who \notin {"nobody", "exited"} /\ slot.stuck
  <2>1. Terminated(slot, held) = [slot EXCEPT !.doomed = TRUE]
    BY <1>2 DEF Terminated
  <2>2. /\ Terminated(slot, held) \in JobSlots /\ Terminated(slot, held).who = slot.who
        /\ Terminated(slot, held).born = slot.born /\ Terminated(slot, held).job = slot.job
        /\ Terminated(slot, held).doomed /\ Terminated(slot, held).stuck
    BY <1>2, <2>1 DEF JobSlots
  <2> QED BY <1>2, <2>2 DEF Outlives
<1>3. CASE slot.who \notin {"nobody", "exited"} /\ ~slot.stuck
  <2>1. Terminated(slot, held) = Ended(slot, held)
    BY <1>3 DEF Terminated
  <2> QED BY <1>3, <2>1, EndedOutlives
<1> QED BY <1>1, <1>2, <1>3

\* What was said of processes stays true of those that outlive a step.
LEMMA NamesAreKept ==
    ASSUME JobInv, SlotsOutlived(slots'), births' \in Nat, births <= births'
    PROVE  /\ BirthsAreCounted' /\ OneBirthOneProcess' /\ DoomedIsStuck'
           /\ \A x : Names(x) => Names(x)'
           /\ \A t : ~StillRuns(t) => ~StillRuns(t)'
           /\ \A p \in Pids : slots'[p].who = "agent" =>
                 /\ slots[p].who = "agent" /\ slots'[p].born = slots[p].born
                 /\ slots'[p].job = slots[p].job
                 /\ slots[p].doomed => slots'[p].doomed
<1>1. births \in Nat /\ slots \in [Pids -> JobSlots]
  BY JobTypes
<1>2. \A p \in Pids : slots'[p].who # "nobody" =>
         /\ slots[p].who # "nobody" /\ slots'[p].who \in {slots[p].who, "exited"}
         /\ slots'[p].born = slots[p].born /\ slots'[p].job = slots[p].job
         /\ slots'[p].who = "agent" =>
               /\ slots[p].doomed => slots'[p].doomed
               /\ slots'[p].doomed => slots'[p].stuck
  BY DEF SlotsOutlived, Outlives
<1>3. BirthsAreCounted'
  BY <1>1, <1>2 DEF JobInv, BirthsAreCounted, Is
<1>4. OneBirthOneProcess'
  BY <1>2 DEF JobInv, OneBirthOneProcess, Is
<1>5. DoomedIsStuck'
  BY <1>2 DEF DoomedIsStuck
<1>6. ASSUME NEW x, Names(x) PROVE Names(x)'
  <2>1. x.born \in 1 .. births'
    BY <1>1, <1>6 DEF Names
  <2>2. ASSUME NEW p \in Pids, slots'[p].who # "nobody", slots'[p].born = x.born
        PROVE  p = x.pid /\ slots'[p].who # "stranger"
    BY <1>2, <1>6, <2>2 DEF Names, Is
  <2> QED BY <2>1, <2>2 DEF Names, Is
<1>7. \A p \in Pids : slots'[p].who = "agent" =>
         /\ slots[p].who = "agent" /\ slots'[p].born = slots[p].born
         /\ slots'[p].job = slots[p].job /\ (slots[p].doomed => slots'[p].doomed)
  BY <1>2
<1>8. \A t : ~StillRuns(t) => ~StillRuns(t)'
  BY <1>7 DEF StillRuns
<1> QED BY <1>3, <1>4, <1>5, <1>6, <1>7, <1>8

-----------------------------------------------------------------------------
(* Steps that keep the handle.                                             *)

\* Who starts something runs, and not in the kernel.
KinStarted ==
    \A k \in kin' : \/ k \in kin
                    \/ \E p \in Pids, w \in {"inside", "outside"} :
                          /\ slots[p].who = "agent" /\ ~slots[p].stuck
                          /\ k = <<slots[p].born, w>>

StepIsGrounded(s) ==
    \/ s = step \/ s = "idle"
    \/ s = "spawned" /\ step = "assigned"
    \/ /\ s \in {"window", "terminate", "confirm"}
       /\ process # NoHandle /\ engine = "open"
       /\ s = "confirm" /\ process.job # "none" =>
             /\ slots'[process.pid].who = "agent" => slots'[process.pid].doomed
             /\ <<process.born, "inside">> \notin kin'

\* A step in which the engine keeps what it holds.
LEMMA HoldingKeepsInvariant ==
    ASSUME JobInv, SlotsOutlived(slots'), births' \in Nat, births <= births', KinStarted,
           StepIsGrounded(step'),
           process # NoHandle => slots'[process.pid].who # "nobody",
           \A p \in Pids : slots'[p].who = "exited" =>
              slots[p].who = "exited" \/ (process # NoHandle /\ process.pid = p),
           UNCHANGED <<record, engine, process, gone, known, stopped, escalated, missed,
                       harmed>>
    PROVE  JobInv'
<1>1. /\ BirthsAreCounted' /\ OneBirthOneProcess' /\ DoomedIsStuck'
      /\ \A x : Names(x) => Names(x)'
      /\ \A t : ~StillRuns(t) => ~StillRuns(t)'
      /\ \A p \in Pids : slots'[p].who = "agent" =>
            /\ slots[p].who = "agent" /\ slots'[p].born = slots[p].born
            /\ slots'[p].job = slots[p].job /\ (slots[p].doomed => slots'[p].doomed)
  BY NamesAreKept
<1>2. JobTypeOK'
  <2>1. step' \in JobSteps
    BY JobTypes DEF StepIsGrounded, JobSteps
  <2>2. kin' \subseteq (1 .. births') \X {"inside", "outside"}
    <3> SUFFICES ASSUME NEW k \in kin' PROVE k \in (1 .. births') \X {"inside", "outside"}
      OBVIOUS
    <3>1. \A b \in 1 .. births : b \in 1 .. births'
      BY JobTypes
    <3>2. CASE k \in kin
      BY <3>1, <3>2, JobTypes
    <3>3. ASSUME NEW p \in Pids, NEW w \in {"inside", "outside"},
                 slots[p].who = "agent", k = <<slots[p].born, w>>
          PROVE  k \in (1 .. births') \X {"inside", "outside"}
      BY <3>1, <3>3 DEF JobInv, BirthsAreCounted, Is
    <3> QED BY <3>2, <3>3 DEF KinStarted
  <2>3. \A S : S \subseteq 1 .. births => S \subseteq 1 .. births'
    BY JobTypes
  <2> QED BY <2>1, <2>2, <2>3 DEF JobInv, JobTypeOK, SlotsOutlived, JobSlots, JobSteps
<1>3. RecordNamesAgent'
  BY <1>1 DEF JobInv, RecordNamesAgent, Names, Is
<1>4. HandleHolds'
  <2> SUFFICES ASSUME process # NoHandle
               PROVE  /\ slots'[process.pid].who \in {"agent", "exited"}
                      /\ slots'[process.pid].born = process.born
    BY DEF HandleHolds
  <2>1. process.pid \in Pids
    BY JobTypes
  <2> QED BY <2>1 DEF JobInv, HandleHolds, SlotsOutlived, Outlives
<1>5. ExitedIsHeld' /\ RecordIsOfHandle'
  BY DEF JobInv, ExitedIsHeld, RecordIsOfHandle
<1>6. KillJobIsHeld'
  BY <1>1 DEF JobInv, KillJobIsHeld
<1>7. DetachedIsRecorded'
  BY <1>1 DEF JobInv, DetachedIsRecorded
<1>8. CallsHoldHandle'
  <2>1. /\ engine' # "open" => step' = "idle" /\ process' = NoHandle
        /\ step' # "idle" => process' # NoHandle
        /\ step' \in {"created", "assigned", "spawned"} =>
              record' = NoRecord /\ process'.born \notin known'
    BY DEF JobInv, CallsHoldHandle, StepIsGrounded
  <2>2. ASSUME step' = "created" PROVE slots'[process.pid].job = "none"
    <3>1. step = "created" /\ process # NoHandle /\ process.pid \in Pids
      BY <2>2, JobTypes DEF StepIsGrounded
    <3> QED BY <3>1 DEF JobInv, CallsHoldHandle, SlotsOutlived, Outlives
  <2> QED BY <2>1, <2>2 DEF CallsHoldHandle
<1>9. TerminatedIsOver'
  <2> SUFFICES ASSUME step' = "confirm", process.job # "none"
               PROVE  /\ slots'[process.pid].who = "agent" => slots'[process.pid].doomed
                      /\ <<process.born, "inside">> \notin kin'
    BY DEF TerminatedIsOver
  <2>1. CASE step = "confirm"
    <3>1. process # NoHandle /\ process.pid \in Pids
      BY <2>1, JobTypes
    <3>2. /\ slots[process.pid].who = "agent" => slots[process.pid].doomed
          /\ <<process.born, "inside">> \notin kin
      BY <2>1 DEF JobInv, TerminatedIsOver
    <3>3. ASSUME NEW p \in Pids, slots[p].who = "agent", ~slots[p].stuck
          PROVE  slots[p].born # process.born
      BY <3>1, <3>2, <3>3
         DEF JobInv, HandleHolds, OneBirthOneProcess, Is, DoomedIsStuck
    <3> QED BY <1>1, <3>1, <3>2, <3>3 DEF KinStarted
  <2>2. CASE step # "confirm"
    BY <2>2 DEF StepIsGrounded
  <2> QED BY <2>1, <2>2
<1>10. GoneIsGone' /\ NoStrangerHarmed'
  BY <1>1 DEF JobInv, GoneIsGone, NoStrangerHarmed
<1>11. EscalationReachesAll'
  <2> SUFFICES ASSUME NEW t \in escalated
               PROVE  ~StillRuns(t)' /\ <<t, "inside">> \notin kin'
    BY DEF EscalationReachesAll, StillRuns
  <2>1. ~StillRuns(t) /\ <<t, "inside">> \notin kin
    BY DEF JobInv, EscalationReachesAll
  <2> QED BY <1>1, <2>1 DEF KinStarted, StillRuns
<1> QED BY <1>1, <1>2, <1>3, <1>4, <1>5, <1>6, <1>7, <1>8, <1>9, <1>10, <1>11 DEF JobInv

-----------------------------------------------------------------------------
(* Steps that let the handle go.                                           *)

\* The process at the pid of a handle is the only one of its creation time.
LEMMA HandleIsNamed ==
    ASSUME JobInv, process # NoHandle
    PROVE  /\ Names(process) /\ process.pid \in Pids /\ process.born \in 1 .. births
           /\ slots[process.pid] \in JobSlots
           /\ slots[process.pid].who \in {"agent", "exited"}
           /\ slots[process.pid].born = process.born
           /\ slots[process.pid].who = "exited" => ~StillRuns(process.born)
<1>1. /\ process.pid \in Pids /\ slots[process.pid].who \in {"agent", "exited"}
      /\ slots[process.pid].born = process.born /\ slots[process.pid] \in JobSlots
  BY JobTypes DEF JobInv, HandleHolds
<1>2. process.born \in 1 .. births
  BY <1>1 DEF JobInv, BirthsAreCounted, Is
<1>3. Names(process)
  BY <1>1, <1>2 DEF JobInv, OneBirthOneProcess, Names, Is
<1>4. slots[process.pid].who = "exited" => ~StillRuns(process.born)
  BY <1>1, <1>3 DEF StillRuns, Names, Is
<1> QED BY <1>1, <1>2, <1>3, <1>4

\* What is left of the process let go is nobody, or runs on; the rest is as it was.
LEMMA LettingGoKeepsInvariant ==
    ASSUME JobInv, process # NoHandle, process' = NoHandle, step' = "idle",
           NEW slot \in JobSlots, Outlives(slots[process.pid], slot),
           slots' = [slots EXCEPT ![process.pid] = slot], slot.who # "exited",
           slot.who = "agent" /\ slot.job = "kill" => slot.doomed,
           kin' \subseteq kin, engine' \in {"open", "closed", "crashed"},
           \/ record' = record /\ gone' = gone
           \/ /\ slots[process.pid].who = "exited" /\ record' = NoRecord
              /\ gone' = gone \cup {process.born},
           stopped' \subseteq stopped \cup {process.born}, escalated' \subseteq stopped',
           EscalationReachesAll', UNCHANGED <<births, known, missed, harmed>>
    PROVE  JobInv'
<1>1. /\ process.pid \in Pids /\ process.born \in 1 .. births
      /\ slots[process.pid].who = "exited" => ~StillRuns(process.born)
  BY HandleIsNamed
<1>2. SlotsOutlived(slots') /\ births' \in Nat /\ births <= births'
  BY <1>1, JobTypes, OneOutlives
<1>3. /\ BirthsAreCounted' /\ OneBirthOneProcess' /\ DoomedIsStuck'
      /\ \A x : Names(x) => Names(x)'
      /\ \A t : ~StillRuns(t) => ~StillRuns(t)'
      /\ \A p \in Pids : slots'[p].who = "agent" =>
            /\ slots[p].who = "agent" /\ slots'[p].born = slots[p].born
            /\ slots'[p].job = slots[p].job /\ (slots[p].doomed => slots'[p].doomed)
  BY <1>2, NamesAreKept
<1>4. /\ slots'[process.pid] = slot
      /\ \A p \in Pids : p # process.pid => slots'[p] = slots[p]
  BY <1>1, JobTypes
<1>5. JobTypeOK'
  <2>1. /\ gone' \subseteq 1 .. births' /\ known' \subseteq 1 .. births'
        /\ missed' \subseteq 1 .. births'
        /\ stopped' \subseteq 1 .. births' /\ escalated' \subseteq stopped'
        /\ kin' \subseteq (1 .. births') \X {"inside", "outside"}
        /\ record' \in {NoRecord} \cup JobRecords
    BY <1>1 DEF JobInv, JobTypeOK, JobRecords
  <2> QED BY <1>2, <2>1 DEF JobInv, JobTypeOK, SlotsOutlived, JobSlots, JobRecords
<1>6. RecordNamesAgent'
  BY <1>3 DEF JobInv, RecordNamesAgent, Names, Is
<1>7. HandleHolds' /\ RecordIsOfHandle' /\ CallsHoldHandle' /\ TerminatedIsOver'
  BY DEF HandleHolds, RecordIsOfHandle, CallsHoldHandle, TerminatedIsOver
<1>8. ExitedIsHeld'
  BY <1>4 DEF JobInv, ExitedIsHeld
<1>9. KillJobIsHeld'
  BY <1>4 DEF JobInv, KillJobIsHeld
<1>10. DetachedIsRecorded'
  <2>1. CASE record' = record
    BY <1>3, <2>1 DEF JobInv, DetachedIsRecorded
  <2>2. CASE slots[process.pid].who = "exited" /\ record' = NoRecord
    <3> SUFFICES ASSUME NEW p \in Pids, slots'[p].who = "agent", slots'[p].job = "plain",
                        slots'[p].born \in known \ missed
                 PROVE  FALSE
      BY DEF DetachedIsRecorded
    <3>1. slots[p].who = "agent" /\ record # NoRecord /\ record.pid = p
      BY <1>3 DEF JobInv, DetachedIsRecorded
    <3> QED BY <2>2, <3>1 DEF JobInv, RecordIsOfHandle
  <2> QED BY <2>1, <2>2
<1>11. GoneIsGone'
  BY <1>1, <1>3 DEF JobInv, GoneIsGone
<1>12. NoStrangerHarmed'
  BY DEF JobInv, NoStrangerHarmed
<1> QED BY <1>3, <1>5, <1>6, <1>7, <1>8, <1>9, <1>10, <1>11, <1>12 DEF JobInv

\* The handles of a process that has exited are closed.
LEMMA ClosedIsFree ==
    ASSUME JobInv, process # NoHandle, Closed(process)
    PROVE  \E slot \in JobSlots :
              /\ slots' = [slots EXCEPT ![process.pid] = slot]
              /\ Outlives(slots[process.pid], slot) /\ slot.who # "exited"
              /\ slot.who = "agent" /\ slot.job = "kill" => slot.doomed
              /\ kin' \subseteq kin
<1>1. /\ process.pid \in Pids /\ slots[process.pid] \in JobSlots
      /\ Outlives(slots[process.pid], slots[process.pid])
  BY HandleIsNamed, AllOutlive DEF SlotsOutlived
<1> DEFINE left == IF slots[process.pid].who = "exited" THEN Free ELSE slots[process.pid]
<1>2. left \in JobSlots /\ Outlives(slots[process.pid], left) /\ left.who # "exited"
  BY <1>1, FreeIsFree DEF Outlives
<1>3. CASE process.job = "kill"
  <2>1. slots' = [slots EXCEPT ![process.pid] = Terminated(left, FALSE)]
        /\ kin' \subseteq kin
    BY <1>3 DEF Closed
  <2> HIDE DEF left
  <2>2. /\ Terminated(left, FALSE) \in JobSlots
        /\ Outlives(left, Terminated(left, FALSE))
        /\ Terminated(left, FALSE).who = "agent" => Terminated(left, FALSE).doomed
        /\ Terminated(left, FALSE).who # "exited"
    BY <1>2, TerminatedOutlives
  <2>3. Outlives(slots[process.pid], Terminated(left, FALSE))
    BY <1>2, <2>2 DEF Outlives
  <2> QED BY <2>1, <2>2, <2>3
<1>4. CASE process.job # "kill"
  <2>1. slots' = [slots EXCEPT ![process.pid] = left] /\ kin' \subseteq kin
    BY <1>4 DEF Closed
  <2>2. left.who = "agent" /\ left.job = "kill" => left.doomed
    BY <1>1, <1>4, FreeIsFree DEF JobInv, KillJobIsHeld
  <2> HIDE DEF left
  <2> QED BY <1>2, <2>1, <2>2
<1> QED BY <1>3, <1>4

\* A look said that the process has exited, and it is forgotten.
LEMMA ForgettingKeepsInvariant ==
    ASSUME JobInv, process # NoHandle, reap_if_exited, Forget,
           engine' = engine, engine = "open",
           stopped' \subseteq stopped \cup {process.born}, escalated' \subseteq stopped',
           \A t \in escalated' : t \in escalated \/ (t = process.born /\ <<t, "inside">> \notin kin),
           UNCHANGED <<births, known, missed, harmed>>
    PROVE  JobInv'
<1>1. /\ gone' = gone \cup {process.born} /\ Closed(process)
      /\ process' = NoHandle /\ record' = NoRecord /\ step' = "idle"
      /\ slots[process.pid].who = "exited"
  BY DEF Forget, drop, reap_if_exited
<1>2. PICK slot \in JobSlots :
         /\ slots' = [slots EXCEPT ![process.pid] = slot]
         /\ Outlives(slots[process.pid], slot) /\ slot.who # "exited"
         /\ slot.who = "agent" /\ slot.job = "kill" => slot.doomed
         /\ kin' \subseteq kin
  BY <1>1, ClosedIsFree
<1>3. process.pid \in Pids /\ ~StillRuns(process.born)
  BY <1>1, HandleIsNamed
<1>4. \A t : ~StillRuns(t) => ~StillRuns(t)'
  BY <1>2, <1>3, JobTypes, OneOutlives, NamesAreKept
<1>5. EscalationReachesAll'
  BY <1>2, <1>3, <1>4 DEF JobInv, EscalationReachesAll
<1> QED BY <1>1, <1>2, <1>5, LettingGoKeepsInvariant

-----------------------------------------------------------------------------
(* spawn.                                                                  *)

\* A new process has a creation time nobody had.
LEMMA BornKeeps ==
    ASSUME JobInv, NEW p \in Pids, slots[p] = Free, NEW slot \in JobSlots,
           slot.who \in {"agent", "stranger"}, slot.born = births + 1, ~slot.doomed,
           slots' = [slots EXCEPT ![p] = slot], births' = births + 1
    PROVE  /\ slots' \in [Pids -> JobSlots] /\ slots'[p] = slot /\ births' \in Nat
           /\ \A q \in Pids : q # p => slots'[q] = slots[q]
           /\ BirthsAreCounted' /\ OneBirthOneProcess' /\ DoomedIsStuck'
           /\ \A x : Names(x) => Names(x)'
           /\ \A t \in 1 .. births : t # births + 1 /\ (~StillRuns(t) => ~StillRuns(t)')
           /\ \A S : S \subseteq 1 .. births => S \subseteq 1 .. births'
<1>1. slots \in [Pids -> JobSlots] /\ births \in Nat /\ births + 1 \in Nat
  BY JobTypes
<1>2. /\ slots' \in [Pids -> JobSlots] /\ slots'[p] = slot
      /\ \A q \in Pids : q # p => slots'[q] = slots[q]
  BY <1>1
<1>3. \A t \in 1 .. births : t # births + 1 /\ t \in 1 .. births'
  BY <1>1
<1>4. births + 1 \in 1 .. births'
  BY <1>1
<1>5. BirthsAreCounted'
  BY <1>2, <1>3, <1>4 DEF JobInv, BirthsAreCounted, Is
<1>6. OneBirthOneProcess'
  BY <1>2, <1>3 DEF JobInv, BirthsAreCounted, OneBirthOneProcess, Is
<1>7. DoomedIsStuck'
  BY <1>2 DEF JobInv, DoomedIsStuck
<1>8. ASSUME NEW x, Names(x) PROVE Names(x)'
  <2>1. x.born \in 1 .. births' /\ x.born # births + 1
    BY <1>3, <1>8 DEF Names
  <2>2. ASSUME NEW q \in Pids, slots'[q].who # "nobody", slots'[q].born = x.born
        PROVE  q = x.pid /\ slots'[q].who # "stranger"
    BY <1>2, <1>8, <2>1, <2>2 DEF Names, Is
  <2> QED BY <2>1, <2>2 DEF Names, Is
<1>9. \A t \in 1 .. births : ~StillRuns(t) => ~StillRuns(t)'
  BY <1>2, <1>3 DEF StillRuns
<1> QED BY <1>1, <1>2, <1>3, <1>5, <1>6, <1>7, <1>8, <1>9

LEMMA CreateStep ==
    ASSUME JobInv, NEW p \in Pids, NEW detach \in BOOLEAN, create_process(p, detach)
    PROVE  JobInv'
<1> DEFINE slot == [Free EXCEPT !.who = "agent", !.born = births + 1]
           h    == [child |-> TRUE, pid |-> p, born |-> births + 1,
                    job |-> IF detach THEN "plain" ELSE "kill"]
<1>1. /\ engine = "open" /\ process = NoHandle /\ record = NoRecord /\ slots[p] = Free
      /\ births' = births + 1 /\ slots' = [slots EXCEPT ![p] = slot]
      /\ process' = h /\ step' = "created"
      /\ UNCHANGED <<kin, record, engine, gone, stopped, escalated, known, missed, harmed>>
  BY DEF create_process
<1>2. births \in Nat /\ births + 1 \in Nat
  BY JobTypes
<1>3. /\ slot \in JobSlots /\ slot.who = "agent" /\ slot.born = births + 1
      /\ slot.job = "none" /\ ~slot.doomed
  BY <1>2, FreeIsFree DEF JobSlots, Free
<1>4. /\ h \in JobHolders /\ h.pid = p /\ h.born = births + 1
  BY <1>2 DEF JobHolders
<1> HIDE DEF slot, h
<1>5. /\ slots' \in [Pids -> JobSlots] /\ slots'[p] = slot /\ births' \in Nat
      /\ \A q \in Pids : q # p => slots'[q] = slots[q]
      /\ BirthsAreCounted' /\ OneBirthOneProcess' /\ DoomedIsStuck'
      /\ \A t \in 1 .. births : t # births + 1 /\ (~StillRuns(t) => ~StillRuns(t)')
      /\ \A S : S \subseteq 1 .. births => S \subseteq 1 .. births'
  BY <1>1, <1>3, BornKeeps
<1>6. /\ gone \subseteq 1 .. births /\ known \subseteq 1 .. births
      /\ missed \subseteq 1 .. births
      /\ stopped \subseteq 1 .. births /\ escalated \subseteq stopped
      /\ kin \subseteq (1 .. births) \X {"inside", "outside"}
  BY DEF JobInv, JobTypeOK
<1>7. JobTypeOK'
  <2>1. kin' \subseteq (1 .. births') \X {"inside", "outside"}
    <3>1. (1 .. births) \subseteq 1 .. births'
      BY <1>5
    <3> QED BY <1>1, <1>6, <3>1
  <2>2. process' \in {NoHandle} \cup JobHolders
    BY <1>1, <1>4
  <2>3. /\ gone' \subseteq 1 .. births' /\ known' \subseteq 1 .. births'
        /\ missed' \subseteq 1 .. births'
        /\ stopped' \subseteq 1 .. births' /\ escalated' \subseteq stopped'
    BY <1>1, <1>5, <1>6
  <2> QED BY <1>1, <1>5, <2>1, <2>2, <2>3 DEF JobInv, JobTypeOK, JobSlots, JobHolders
<1>8. RecordNamesAgent' /\ RecordIsOfHandle' /\ TerminatedIsOver'
  BY <1>1 DEF RecordNamesAgent, RecordIsOfHandle, TerminatedIsOver
<1>9. HandleHolds'
  BY <1>1, <1>3, <1>4, <1>5 DEF HandleHolds
<1>10. ExitedIsHeld'
  BY <1>1, <1>3, <1>5 DEF JobInv, ExitedIsHeld
<1>11. KillJobIsHeld'
  BY <1>1, <1>3, <1>5 DEF JobInv, KillJobIsHeld
<1>12. DetachedIsRecorded'
  BY <1>1, <1>3, <1>5 DEF JobInv, DetachedIsRecorded
<1>13. CallsHoldHandle'
  <2>1. process' # NoHandle
    BY <1>1, <1>4 DEF JobHolders, NoHandle
  <2>2. births + 1 \notin known
    BY <1>5, <1>6
  <2> QED BY <1>1, <1>3, <1>4, <1>5, <2>1, <2>2 DEF CallsHoldHandle
<1>14. GoneIsGone' /\ NoStrangerHarmed' /\ EscalationReachesAll'
  <2>1. GoneIsGone'
    BY <1>1, <1>5, <1>6 DEF JobInv, GoneIsGone
  <2>2. NoStrangerHarmed'
    BY <1>1 DEF JobInv, NoStrangerHarmed
  <2>3. EscalationReachesAll'
    BY <1>1, <1>5, <1>6 DEF JobInv, EscalationReachesAll
  <2> QED BY <2>1, <2>2, <2>3
<1> QED BY <1>5, <1>7, <1>8, <1>9, <1>10, <1>11, <1>12, <1>13, <1>14 DEF JobInv

\* The process in its job: unknown to any record yet.
LEMMA AssignStep == ASSUME JobInv, assign PROVE JobInv'
<1> DEFINE slot == [slots[process.pid] EXCEPT !.job = process.job]
<1>1. /\ step = "created" /\ step' = "assigned" /\ engine = "open"
      /\ slots' = [slots EXCEPT ![process.pid] = slot]
      /\ UNCHANGED <<kin, births, record, engine, process, gone, stopped, escalated,
                     known, missed, harmed>>
  BY DEF assign
<1>2. /\ process # NoHandle /\ process.pid \in Pids
      /\ process.job \in {"none", "kill", "plain"}
      /\ slots \in [Pids -> JobSlots] /\ slots[process.pid] \in JobSlots
      /\ slots[process.pid].who \in {"agent", "exited"}
      /\ slots[process.pid].born = process.born
  BY <1>1, JobTypes, HandleIsNamed
<1>3. record = NoRecord /\ process.born \notin known
  BY <1>1 DEF JobInv, CallsHoldHandle
<1>4. /\ slot \in JobSlots /\ slot.who = slots[process.pid].who /\ slot.born = process.born
      /\ slot.job = process.job /\ slot.doomed = slots[process.pid].doomed
      /\ slot.stuck = slots[process.pid].stuck
  BY <1>2 DEF JobSlots
<1> HIDE DEF slot
<1>5. /\ slots' \in [Pids -> JobSlots] /\ slots'[process.pid] = slot
      /\ \A q \in Pids : q # process.pid => slots'[q] = slots[q]
      /\ \A q \in Pids : slots'[q].who = slots[q].who /\ slots'[q].born = slots[q].born
                         /\ slots'[q].doomed = slots[q].doomed
                         /\ slots'[q].stuck = slots[q].stuck
  BY <1>1, <1>2, <1>4
<1>6. JobTypeOK'
  BY <1>1, <1>5 DEF JobInv, JobTypeOK, JobSlots
<1>7. BirthsAreCounted' /\ OneBirthOneProcess' /\ DoomedIsStuck' /\ ExitedIsHeld'
  BY <1>1, <1>5
     DEF JobInv, BirthsAreCounted, OneBirthOneProcess, DoomedIsStuck, ExitedIsHeld, Is
<1>8. HandleHolds' /\ RecordNamesAgent' /\ RecordIsOfHandle' /\ TerminatedIsOver'
  BY <1>1, <1>3, <1>5
     DEF JobInv, HandleHolds, RecordNamesAgent, RecordIsOfHandle, TerminatedIsOver
<1>9. KillJobIsHeld'
  BY <1>1, <1>2, <1>4, <1>5 DEF JobInv, KillJobIsHeld
<1>10. DetachedIsRecorded'
  BY <1>1, <1>3, <1>4, <1>5 DEF JobInv, DetachedIsRecorded
<1>11. CallsHoldHandle'
  BY <1>1, <1>2, <1>3 DEF CallsHoldHandle
<1>12. GoneIsGone' /\ NoStrangerHarmed' /\ EscalationReachesAll'
  BY <1>1, <1>5 DEF JobInv, GoneIsGone, NoStrangerHarmed, EscalationReachesAll, StillRuns
<1> QED BY <1>6, <1>7, <1>8, <1>9, <1>10, <1>11, <1>12 DEF JobInv

\* A spawn that fails leaves nobody at its pid.
LEMMA SpawnFails == ASSUME JobInv, assign_fails \/ verify_fails PROVE JobInv'
<1>1. /\ engine = "open" /\ step # "idle"
      /\ slots' = [slots EXCEPT ![process.pid] = Free]
      /\ process' = NoHandle /\ step' = "idle" /\ kin' \subseteq kin
      /\ UNCHANGED <<births, record, engine, gone, stopped, escalated, known, missed,
                     harmed>>
  BY DEF assign_fails, verify_fails
<1>2. process # NoHandle /\ process.pid \in Pids
  BY <1>1, JobTypes
<1>3. Free \in JobSlots /\ Outlives(slots[process.pid], Free)
  BY FreeIsFree DEF Outlives
<1>4. \A t : ~StillRuns(t) => ~StillRuns(t)'
  BY <1>1, <1>2, <1>3, JobTypes, OneOutlives, NamesAreKept
<1>5. EscalationReachesAll' /\ escalated' \subseteq stopped'
  BY <1>1, <1>4 DEF JobInv, EscalationReachesAll, JobTypeOK
<1>6. engine' \in {"open", "closed", "crashed"}
  BY <1>1
<1> QED BY <1>1, <1>2, <1>3, <1>5, <1>6, FreeIsFree, LettingGoKeepsInvariant

LEMMA VerifyStep == ASSUME JobInv, verify PROVE JobInv'
<1>1. /\ step = "assigned" /\ step' = "spawned" /\ engine = "open"
      /\ UNCHANGED <<slots, kin, births, record, engine, process, gone, stopped, escalated,
                     known, missed, harmed>>
  BY DEF verify
<1>2. /\ SlotsOutlived(slots') /\ births' \in Nat /\ births <= births' /\ KinStarted
      /\ StepIsGrounded(step')
  BY <1>1, JobTypes, AllOutlive DEF KinStarted, StepIsGrounded, SlotsOutlived
<1>3. process # NoHandle => slots'[process.pid].who # "nobody"
  BY <1>1, HandleIsNamed
<1> QED BY <1>1, <1>2, <1>3, HoldingKeepsInvariant

\* The record names the agent the engine holds, and nobody was to be found before.
LEMMA RecordStep == ASSUME JobInv, write_record PROVE JobInv'
<1> DEFINE r == [pid |-> process.pid, born |-> process.born,
                 detached |-> process.job = "plain"]
<1>1. /\ step = "spawned" /\ step' = "idle" /\ engine = "open" /\ record' = r
      /\ known' = known \cup {process.born}
      /\ UNCHANGED <<slots, kin, births, engine, process, gone, stopped, escalated, missed,
                     harmed>>
  BY DEF write_record
<1>2. /\ process # NoHandle /\ process.pid \in Pids /\ process.born \in 1 .. births
      /\ Names(process) /\ births \in Nat
  BY <1>1, JobTypes, HandleIsNamed
<1>3. record = NoRecord
  BY <1>1 DEF JobInv, CallsHoldHandle
<1>4. r \in JobRecords /\ r.pid = process.pid /\ r.born = process.born /\ r # NoRecord
  <2>1. (process.job = "plain") \in BOOLEAN /\ process.born \in Nat
    BY <1>2
  <2> QED BY <1>2, <2>1 DEF JobRecords, NoRecord
<1> HIDE DEF r
<1>5. JobTypeOK'
  BY <1>1, <1>2, <1>4 DEF JobInv, JobTypeOK, JobRecords
<1>6. RecordNamesAgent' /\ RecordIsOfHandle'
  BY <1>1, <1>2, <1>4 DEF RecordNamesAgent, RecordIsOfHandle, Names, Is
<1>7. DetachedIsRecorded'
  <2> SUFFICES ASSUME NEW p \in Pids, slots[p].who = "agent", slots[p].job = "plain",
                      slots[p].born \in known' \ missed
               PROVE  p = process.pid /\ slots[p].born = process.born
    BY <1>1, <1>4 DEF DetachedIsRecorded
  <2>1. slots[p].born = process.born
    BY <1>1, <1>3 DEF JobInv, DetachedIsRecorded
  <2> QED BY <1>2, <2>1 DEF Names, Is
<1>8. CallsHoldHandle' /\ TerminatedIsOver'
  BY <1>1 DEF CallsHoldHandle, TerminatedIsOver
<1> QED BY <1>1, <1>5, <1>6, <1>7, <1>8
        DEF JobInv, BirthsAreCounted, OneBirthOneProcess, HandleHolds, ExitedIsHeld,
            DoomedIsStuck, KillJobIsHeld, GoneIsGone, NoStrangerHarmed,
            EscalationReachesAll, StillRuns, Is

-----------------------------------------------------------------------------
(* poll and stop.                                                          *)

LEMMA PollStep == ASSUME JobInv, poll PROVE JobInv'
<1>1. /\ process # NoHandle /\ reap_if_exited /\ Forget /\ engine = "open"
      /\ UNCHANGED <<births, engine, stopped, escalated, known, missed, harmed>>
  BY DEF poll, Ready
<1>2. escalated' \subseteq stopped' /\ stopped' \subseteq stopped \cup {process.born}
  BY <1>1 DEF JobInv, JobTypeOK
<1> QED BY <1>1, <1>2, ForgettingKeepsInvariant

\* A stop's waits move nobody.
LEMMA StopWaitsStep ==
    ASSUME JobInv, stop \/ window_ends \/ unconfirmed \/ call_fails PROVE JobInv'
<1>1. /\ process # NoHandle /\ engine = "open" /\ step' \in {"window", "terminate", "idle"}
      /\ UNCHANGED <<slots, kin, births, record, engine, process, gone, stopped, escalated,
                     known, missed, harmed>>
  BY JobTypes DEF stop, Ready, window_ends, unconfirmed, call_fails, StopWaits
<1>2. /\ SlotsOutlived(slots') /\ births' \in Nat /\ births <= births' /\ KinStarted
      /\ StepIsGrounded(step')
  BY <1>1, JobTypes, AllOutlive DEF KinStarted, StepIsGrounded, SlotsOutlived
<1>3. process # NoHandle => slots'[process.pid].who # "nobody"
  BY <1>1, HandleIsNamed
<1> QED BY <1>1, <1>2, <1>3, HoldingKeepsInvariant

LEMMA GracefulStep == ASSUME JobInv, stop_graceful PROVE JobInv'
<1>1. /\ process # NoHandle /\ reap_if_exited /\ Forget /\ engine = "open"
      /\ stopped' = stopped \cup {process.born}
      /\ UNCHANGED <<births, engine, escalated, known, missed, harmed>>
  BY DEF stop_graceful
<1>2. escalated' \subseteq stopped'
  BY <1>1 DEF JobInv, JobTypeOK
<1> QED BY <1>1, <1>2, ForgettingKeepsInvariant

\* A termination has the agent of the handle for its target.
LEMMA TerminateStep == ASSUME JobInv, terminate PROVE JobInv'
<1> DEFINE slot == Terminated(slots[process.pid], TRUE)
<1>1. /\ step = "terminate" /\ engine = "open"
      /\ slots' = [slots EXCEPT ![process.pid] = slot]
      /\ harmed' = (harmed \/ slots[process.pid].who = "stranger")
      /\ kin' \subseteq kin /\ step' \in {"idle", "confirm"}
      /\ process.job # "none" => kin' = kin \ {<<process.born, "inside">>}
      /\ UNCHANGED <<births, record, engine, process, gone, known, missed, stopped,
                     escalated>>
  BY DEF terminate, JobTerminated
<1>2. /\ process # NoHandle /\ process.pid \in Pids /\ slots[process.pid] \in JobSlots
      /\ slots[process.pid].who \in {"agent", "exited"} /\ slots \in [Pids -> JobSlots]
  BY <1>1, JobTypes, HandleIsNamed
<1>3. /\ slot \in JobSlots /\ Outlives(slots[process.pid], slot) /\ slot.who # "nobody"
      /\ slot.who = "agent" => slot.doomed
  <2>1. TRUE \in BOOLEAN
    OBVIOUS
  <2> QED BY <1>2, <2>1, TerminatedOutlives
<1> HIDE DEF slot
<1>4. /\ SlotsOutlived(slots') /\ slots'[process.pid] = slot
      /\ \A q \in Pids : q # process.pid => slots'[q] = slots[q]
  BY <1>1, <1>2, <1>3, OneOutlives
<1>5. harmed' = harmed
  BY <1>1, <1>2, JobTypes
<1>6. KinStarted
  BY <1>1 DEF KinStarted
<1>7. StepIsGrounded(step')
  BY <1>1, <1>2, <1>3, <1>4 DEF StepIsGrounded
<1>8. births' \in Nat /\ births <= births'
  BY <1>1, JobTypes
<1> QED BY <1>1, <1>2, <1>3, <1>4, <1>5, <1>6, <1>7, <1>8, HoldingKeepsInvariant

LEMMA ConfirmStep == ASSUME JobInv, confirm_death PROVE JobInv'
<1>1. /\ process # NoHandle /\ reap_if_exited /\ Forget /\ engine = "open"
      /\ stopped' = stopped \cup {process.born} /\ step = "confirm"
      /\ escalated' = IF process.job # "none" THEN escalated \cup {process.born}
                      ELSE escalated
      /\ UNCHANGED <<births, engine, known, missed, harmed>>
  BY JobTypes DEF confirm_death
<1>2. escalated' \subseteq stopped'
  BY <1>1 DEF JobInv, JobTypeOK
<1>3. \A t \in escalated' :
         t \in escalated \/ (t = process.born /\ <<t, "inside">> \notin kin)
  BY <1>1 DEF JobInv, TerminatedIsOver
<1> QED BY <1>1, <1>2, <1>3, ForgettingKeepsInvariant

-----------------------------------------------------------------------------
(* The end of an engine, and the next one.                                 *)

LEMMA EndsStep ==
    ASSUME JobInv, NEW how \in {"closed", "crashed"}, engine_ends(how) PROVE JobInv'
<1>1. /\ engine = "open" /\ engine' = how /\ process' = NoHandle /\ step' = "idle"
      /\ UNCHANGED <<births, record, gone, stopped, escalated, known, missed, harmed>>
  BY DEF engine_ends
<1>2. CASE process = NoHandle
  <2>1. UNCHANGED <<slots, kin, process, step>>
    BY <1>1, <1>2, JobTypes DEF engine_ends
  <2>2. JobTypeOK'
    BY <1>1, <2>1 DEF JobInv, JobTypeOK
  <2>3. CallsHoldHandle'
    BY <1>1 DEF CallsHoldHandle
  <2> QED BY <1>1, <2>1, <2>2, <2>3
          DEF JobInv, BirthsAreCounted, OneBirthOneProcess, RecordNamesAgent, Names,
              HandleHolds, ExitedIsHeld, RecordIsOfHandle, DoomedIsStuck, KillJobIsHeld,
              DetachedIsRecorded, TerminatedIsOver, GoneIsGone, NoStrangerHarmed,
              EscalationReachesAll, StillRuns, Is
<1>3. CASE process # NoHandle
  <2>1. PICK slot \in JobSlots :
           /\ slots' = [slots EXCEPT ![process.pid] = slot]
           /\ Outlives(slots[process.pid], slot) /\ slot.who # "exited"
           /\ slot.who = "agent" /\ slot.job = "kill" => slot.doomed
           /\ kin' \subseteq kin
    <3>1. CASE step = "created"
      <4> DEFINE left == IF slots[process.pid].who = "exited" THEN Free
                         ELSE slots[process.pid]
      <4>1. slots' = [slots EXCEPT ![process.pid] = left] /\ kin' = kin
        BY <1>3, <3>1 DEF engine_ends
      <4>2. /\ process.pid \in Pids /\ slots[process.pid] \in JobSlots
            /\ slots[process.pid].job = "none"
            /\ Outlives(slots[process.pid], slots[process.pid])
        BY <1>3, <3>1, HandleIsNamed, AllOutlive
           DEF JobInv, CallsHoldHandle, SlotsOutlived
      <4>3. /\ left \in JobSlots /\ Outlives(slots[process.pid], left)
            /\ left.who # "exited" /\ ~(left.who = "agent" /\ left.job = "kill")
        BY <4>2, FreeIsFree DEF Outlives
      <4> HIDE DEF left
      <4> QED BY <4>1, <4>3
    <3>2. CASE step # "created"
      BY <1>3, <3>2, ClosedIsFree DEF engine_ends
    <3> QED BY <3>1, <3>2
  <2>2. process.pid \in Pids
    BY <1>3, JobTypes
  <2>3. \A t : ~StillRuns(t) => ~StillRuns(t)'
    BY <1>1, <2>1, <2>2, JobTypes, OneOutlives, NamesAreKept
  <2>4. EscalationReachesAll' /\ escalated' \subseteq stopped'
    BY <1>1, <2>1, <2>3 DEF JobInv, EscalationReachesAll, JobTypeOK
  <2>5. engine' \in {"open", "closed", "crashed"}
        /\ stopped' \subseteq stopped \cup {process.born}
    BY <1>1
  <2> QED BY <1>1, <1>3, <2>1, <2>4, <2>5, LettingGoKeepsInvariant
<1> QED BY <1>2, <1>3

\* Who has the recorded pid and creation time is the agent; if nobody has, the
\* agent is gone.  If who has them cannot be read, the agent is missed.
LEMMA OpenStep == ASSUME JobInv, open PROVE JobInv'
<1> DEFINE h == [child |-> FALSE, pid |-> record.pid, born |-> record.born,
                 job |-> "none"]
<1>1. /\ engine # "open" /\ engine' = "open"
      /\ UNCHANGED <<slots, kin, births, step, stopped, escalated, known, harmed>>
  BY DEF open
<1>2. step = "idle" /\ process = NoHandle
  BY <1>1 DEF JobInv, CallsHoldHandle
<1>3. CallsHoldHandle' /\ TerminatedIsOver'
  BY <1>1, <1>2 DEF CallsHoldHandle, TerminatedIsOver
<1>4. CASE /\ record # NoRecord /\ adopts(record) /\ process' = h
           /\ UNCHANGED <<record, gone, missed>>
  <2>1. process' = h /\ UNCHANGED <<record, gone, missed>>
    BY <1>4
  <2>2. /\ record \in JobRecords /\ record.pid \in Pids /\ Names(record)
        /\ slots[record.pid].who = "agent" /\ slots[record.pid].born = record.born
    BY <1>4, JobTypes DEF JobInv, RecordNamesAgent, Names, Is, adopts, process_start_time
  <2>3. /\ h \in JobHolders /\ h.pid = record.pid /\ h.born = record.born
        /\ h.job = "none"
    BY <2>2 DEF JobRecords, JobHolders
  <2> HIDE DEF h
  <2>4. JobTypeOK'
    BY <1>1, <2>1, <2>3 DEF JobInv, JobTypeOK, JobHolders
  <2>5. HandleHolds' /\ RecordIsOfHandle'
    BY <1>1, <2>1, <2>2, <2>3 DEF HandleHolds, RecordIsOfHandle
  <2>6. ExitedIsHeld' /\ KillJobIsHeld'
    BY <1>1, <1>2 DEF JobInv, ExitedIsHeld, KillJobIsHeld
  <2> QED BY <1>1, <1>3, <2>1, <2>4, <2>5, <2>6
          DEF JobInv, BirthsAreCounted, OneBirthOneProcess, RecordNamesAgent, Names,
              DoomedIsStuck, DetachedIsRecorded, GoneIsGone, NoStrangerHarmed,
              EscalationReachesAll, StillRuns, Is
<1>5. CASE record = NoRecord /\ UNCHANGED <<record, process, gone, missed>>
  BY <1>1, <1>2, <1>3, <1>5
     DEF JobInv, JobTypeOK, BirthsAreCounted, OneBirthOneProcess, RecordNamesAgent,
         HandleHolds, RecordIsOfHandle, ExitedIsHeld, KillJobIsHeld, DoomedIsStuck,
         DetachedIsRecorded, GoneIsGone, NoStrangerHarmed, EscalationReachesAll,
         StillRuns, Is
<1>6. CASE /\ record # NoRecord /\ record' = NoRecord /\ process' = process
           /\ \/ /\ ~adopts(record) /\ missed' = missed
                 /\ gone' = gone \cup {record.born}
              \/ gone' = gone /\ missed' = missed \cup {record.born}
  <2>1. Names(record) /\ record.born \in 1 .. births
    BY <1>6 DEF JobInv, RecordNamesAgent, Names
  <2>2. ~adopts(record) => ~StillRuns(record.born)
    BY <2>1 DEF Names, Is, StillRuns, adopts, process_start_time
  <2>3. JobTypeOK'
    BY <1>1, <1>6, <2>1 DEF JobInv, JobTypeOK
  <2>4. GoneIsGone'
    BY <1>1, <1>6, <2>2 DEF JobInv, GoneIsGone, StillRuns
  <2>5. DetachedIsRecorded'
    <3> SUFFICES ASSUME NEW p \in Pids, slots[p].who = "agent", slots[p].job = "plain",
                        slots[p].born \in known \ missed'
                 PROVE  FALSE
      BY <1>1 DEF DetachedIsRecorded
    <3>1. slots[p].born = record.born
      BY <1>6 DEF JobInv, DetachedIsRecorded
    <3> QED BY <1>6, <2>2, <3>1 DEF StillRuns
  <2>6. HandleHolds' /\ RecordIsOfHandle' /\ RecordNamesAgent' /\ ExitedIsHeld'
        /\ KillJobIsHeld'
    BY <1>1, <1>6
       DEF JobInv, HandleHolds, RecordIsOfHandle, RecordNamesAgent, ExitedIsHeld,
           KillJobIsHeld
  <2> QED BY <1>1, <1>3, <2>3, <2>4, <2>5, <2>6
          DEF JobInv, BirthsAreCounted, OneBirthOneProcess, DoomedIsStuck,
              NoStrangerHarmed, EscalationReachesAll, StillRuns, Is
<1> HIDE DEF h
<1>7. \/ record = NoRecord /\ UNCHANGED <<record, process, gone, missed>>
      \/ /\ record # NoRecord /\ adopts(record) /\ process' = h
         /\ UNCHANGED <<record, gone, missed>>
      \/ /\ record # NoRecord /\ record' = NoRecord /\ process' = process
         /\ \/ /\ ~adopts(record) /\ missed' = missed
               /\ gone' = gone \cup {record.born}
            \/ gone' = gone /\ missed' = missed \cup {record.born}
  BY DEF open, reconcile, h
<1> QED BY <1>4, <1>5, <1>6, <1>7

-----------------------------------------------------------------------------
(* The agent and the system.                                               *)

\* What the system does to one process while the engine does nothing.
LEMMA SlotChangeKeepsInvariant ==
    ASSUME JobInv, NEW p \in Pids, NEW slot \in JobSlots, Outlives(slots[p], slot),
           slots' = [slots EXCEPT ![p] = slot],
           Held(p) => slot.who # "nobody",
           slot.who = "exited" => slots[p].who = "exited" \/ Held(p),
           UnchangedByOthers, UNCHANGED <<kin, births>>
    PROVE  JobInv'
<1>1. /\ SlotsOutlived(slots') /\ slots'[p] = slot
      /\ \A q \in Pids : q # p => slots'[q] = slots[q]
  BY JobTypes, OneOutlives
<1>2. /\ births' \in Nat /\ births <= births' /\ KinStarted /\ StepIsGrounded(step')
  BY JobTypes DEF KinStarted, StepIsGrounded, UnchangedByOthers
<1>3. process # NoHandle => slots'[process.pid].who # "nobody"
  BY <1>1, HandleIsNamed DEF Held
<1>4. \A q \in Pids : slots'[q].who = "exited" =>
         slots[q].who = "exited" \/ (process # NoHandle /\ process.pid = q)
  BY <1>1 DEF Held
<1> QED BY <1>1, <1>2, <1>3, <1>4, HoldingKeepsInvariant DEF UnchangedByOthers

\* A pid somebody holds is that of a process.
LEMMA HeldIsSomebody ==
    ASSUME JobInv, NEW p \in Pids
    PROVE  /\ Held(p) \in BOOLEAN /\ (Held(p) => slots[p].who # "nobody")
           /\ slots[p] \in JobSlots
  BY JobTypes, HandleIsNamed DEF Held

\* Only the kin, or nothing, changes.
LEMMA KinStep ==
    ASSUME JobInv, KinStarted, UnchangedByOthers, UNCHANGED <<slots, births>>
    PROVE  JobInv'
<1>1. SlotsOutlived(slots') /\ births' \in Nat /\ births <= births'
      /\ StepIsGrounded(step')
  BY JobTypes, AllOutlive DEF StepIsGrounded, SlotsOutlived, UnchangedByOthers
<1>2. process # NoHandle => slots'[process.pid].who # "nobody"
  BY HandleIsNamed
<1> QED BY <1>1, <1>2, HoldingKeepsInvariant DEF UnchangedByOthers

LEMMA StrangerStep == ASSUME JobInv, NEW p \in Pids, stranger(p) PROVE JobInv'
<1> DEFINE slot == [Free EXCEPT !.who = "stranger", !.born = births + 1]
<1>1. /\ slots[p] = Free /\ births' = births + 1
      /\ slots' = [slots EXCEPT ![p] = slot]
      /\ UNCHANGED <<kin, record, engine, process, step, gone, stopped, escalated, known,
                     missed, harmed>>
  BY DEF stranger, UnchangedByOthers
<1>2. births \in Nat /\ births + 1 \in Nat
  BY JobTypes
<1>3. /\ slot \in JobSlots /\ slot.who = "stranger" /\ slot.born = births + 1
      /\ ~slot.doomed
  BY <1>2, FreeIsFree DEF JobSlots, Free
<1> HIDE DEF slot
<1>4. /\ slots' \in [Pids -> JobSlots] /\ slots'[p] = slot /\ births' \in Nat
      /\ \A q \in Pids : q # p => slots'[q] = slots[q]
      /\ BirthsAreCounted' /\ OneBirthOneProcess' /\ DoomedIsStuck'
      /\ \A x : Names(x) => Names(x)'
      /\ \A t \in 1 .. births : t # births + 1 /\ (~StillRuns(t) => ~StillRuns(t)')
      /\ \A S : S \subseteq 1 .. births => S \subseteq 1 .. births'
  BY <1>1, <1>3, BornKeeps
<1>5. /\ gone \subseteq 1 .. births /\ known \subseteq 1 .. births
      /\ missed \subseteq 1 .. births
      /\ stopped \subseteq 1 .. births /\ escalated \subseteq stopped
      /\ kin \subseteq (1 .. births) \X {"inside", "outside"}
  BY DEF JobInv, JobTypeOK
<1>6. process # NoHandle => process.pid # p
  BY <1>1, HandleIsNamed, FreeIsFree
<1>7. JobTypeOK'
  <2>1. kin' \subseteq (1 .. births') \X {"inside", "outside"}
    <3>1. (1 .. births) \subseteq 1 .. births'
      BY <1>4
    <3> QED BY <1>1, <1>5, <3>1
  <2>2. /\ gone' \subseteq 1 .. births' /\ known' \subseteq 1 .. births'
        /\ missed' \subseteq 1 .. births'
        /\ stopped' \subseteq 1 .. births' /\ escalated' \subseteq stopped'
    BY <1>1, <1>4, <1>5
  <2> QED BY <1>1, <1>4, <2>1, <2>2 DEF JobInv, JobTypeOK, JobSlots
<1>8. RecordNamesAgent'
  BY <1>1, <1>4 DEF JobInv, RecordNamesAgent, Names, Is
<1>9. HandleHolds' /\ RecordIsOfHandle'
  BY <1>1, <1>4, <1>6, JobTypes DEF JobInv, HandleHolds, RecordIsOfHandle
<1>10. ExitedIsHeld' /\ KillJobIsHeld' /\ DetachedIsRecorded'
  BY <1>1, <1>3, <1>4 DEF JobInv, ExitedIsHeld, KillJobIsHeld, DetachedIsRecorded
<1>11. CallsHoldHandle' /\ TerminatedIsOver'
  BY <1>1, <1>4, <1>6, JobTypes DEF JobInv, CallsHoldHandle, TerminatedIsOver
<1>12. GoneIsGone' /\ NoStrangerHarmed' /\ EscalationReachesAll'
  BY <1>1, <1>4, <1>5 DEF JobInv, GoneIsGone, NoStrangerHarmed, EscalationReachesAll
<1> QED BY <1>4, <1>7, <1>8, <1>9, <1>10, <1>11, <1>12 DEF JobInv

LEMMA SystemStep ==
    ASSUME JobInv, NEW p \in Pids,
           agent_starts(p) \/ exits(p) \/ sticks(p) \/ unsticks(p) \/ stranger(p)
    PROVE  JobInv'
<1>1. /\ Held(p) \in BOOLEAN /\ (Held(p) => slots[p].who # "nobody")
      /\ slots[p] \in JobSlots /\ Outlives(slots[p], slots[p])
  BY HeldIsSomebody, AllOutlive DEF SlotsOutlived
<1>2. CASE agent_starts(p)
  <2>1. KinStarted
    BY <1>2 DEF agent_starts, KinStarted
  <2> QED BY <1>2, <2>1, KinStep DEF agent_starts
<1>3. CASE exits(p)
  <2>1. /\ slots' = [slots EXCEPT ![p] = Ended(slots[p], Held(p))]
        /\ UnchangedByOthers /\ UNCHANGED <<kin, births>>
    BY <1>3 DEF exits
  <2>2. /\ Ended(slots[p], Held(p)) \in JobSlots
        /\ Outlives(slots[p], Ended(slots[p], Held(p)))
        /\ Held(p) => Ended(slots[p], Held(p)).who # "nobody"
        /\ ~Held(p) => Ended(slots[p], Held(p)).who # "exited"
    BY <1>1, EndedOutlives
  <2> QED BY <2>1, <2>2, SlotChangeKeepsInvariant
<1>4. CASE sticks(p)
  <2> DEFINE slot == [slots[p] EXCEPT !.stuck = TRUE]
  <2>1. /\ slots' = [slots EXCEPT ![p] = slot] /\ slots[p].who = "agent"
        /\ UnchangedByOthers /\ UNCHANGED <<kin, births>>
    BY <1>4 DEF sticks
  <2>2. slot \in JobSlots /\ Outlives(slots[p], slot) /\ slot.who = slots[p].who
    BY <1>1 DEF JobSlots, Outlives
  <2> HIDE DEF slot
  <2> QED BY <2>1, <2>2, SlotChangeKeepsInvariant
<1>5. CASE unsticks(p)
  <2> DEFINE freed == [slots[p] EXCEPT !.stuck = FALSE]
             slot == IF slots[p].doomed THEN Ended(freed, Held(p)) ELSE freed
  <2>1. /\ slots' = [slots EXCEPT ![p] = slot]
        /\ UnchangedByOthers /\ UNCHANGED <<kin, births>>
    BY <1>5 DEF unsticks
  <2>2. /\ freed \in JobSlots /\ freed.who = slots[p].who /\ freed.born = slots[p].born
        /\ freed.job = slots[p].job /\ freed.doomed = slots[p].doomed
    BY <1>1 DEF JobSlots
  <2> HIDE DEF freed
  <2>3. /\ Ended(freed, Held(p)) \in JobSlots /\ Outlives(freed, Ended(freed, Held(p)))
        /\ Ended(freed, Held(p)).who \in {"nobody", "exited"}
        /\ Held(p) => Ended(freed, Held(p)).who # "nobody"
        /\ ~Held(p) => Ended(freed, Held(p)).who # "exited"
    BY <1>1, <2>2, EndedOutlives
  <2>4. CASE slots[p].doomed
    <3>1. slot = Ended(freed, Held(p))
      BY <2>4
    <3>2. Outlives(slots[p], slot)
      BY <2>2, <2>3, <3>1 DEF Outlives
    <3> HIDE DEF slot
    <3> QED BY <2>1, <2>3, <3>1, <3>2, SlotChangeKeepsInvariant
  <2>5. CASE ~slots[p].doomed
    <3>1. slot = freed
      BY <2>5
    <3>2. Outlives(slots[p], slot)
      BY <2>2, <2>5, <3>1 DEF Outlives
    <3> HIDE DEF slot
    <3> QED BY <1>1, <2>1, <2>2, <3>1, <3>2, SlotChangeKeepsInvariant
  <2> QED BY <2>4, <2>5
<1> QED BY <1>2, <1>3, <1>4, <1>5, StrangerStep

-----------------------------------------------------------------------------
LEMMA JobStart == JobInit => JobInv
<1> SUFFICES ASSUME JobInit PROVE JobInv
  OBVIOUS
<1>1. /\ slots = [p \in Pids |-> Free] /\ kin = {} /\ births = 0 /\ record = NoRecord
      /\ engine = "open" /\ process = NoHandle /\ step = "idle" /\ gone = {} /\ known = {}
      /\ missed = {}
      /\ stopped = {} /\ escalated = {} /\ harmed = FALSE
  BY DEF JobInit
<1>2. slots \in [Pids -> JobSlots] /\ \A p \in Pids : slots[p].who = "nobody"
  BY <1>1, FreeIsFree
<1>3. JobTypeOK
  BY <1>1, <1>2 DEF JobTypeOK, JobSlots
<1> QED BY <1>1, <1>2, <1>3
        DEF JobInv, BirthsAreCounted, OneBirthOneProcess, RecordNamesAgent, HandleHolds,
            ExitedIsHeld, RecordIsOfHandle, DoomedIsStuck, KillJobIsHeld,
            DetachedIsRecorded, CallsHoldHandle, TerminatedIsOver, GoneIsGone,
            NoStrangerHarmed, EscalationReachesAll, Is

LEMMA JobInvariant == JobInv /\ [JobNext]_jobVars => JobInv'
<1> SUFFICES ASSUME JobInv, [JobNext]_jobVars PROVE JobInv'
  OBVIOUS
<1>1. CASE \E p \in Pids, detach \in BOOLEAN : create_process(p, detach)
  BY <1>1, CreateStep
<1>2. CASE assign \/ assign_fails \/ verify \/ verify_fails \/ write_record
  BY <1>2, AssignStep, SpawnFails, VerifyStep, RecordStep
<1>3. CASE poll \/ stop
  BY <1>3, PollStep, StopWaitsStep
<1>4. CASE StopMoves
  BY <1>4, StopWaitsStep, GracefulStep, TerminateStep, ConfirmStep DEF StopMoves
<1>5. CASE \E how \in {"closed", "crashed"} : engine_ends(how)
  BY <1>5, EndsStep
<1>6. CASE open
  BY <1>6, OpenStep
<1>7. CASE \E p \in Pids : agent_starts(p) \/ exits(p) \/ sticks(p) \/ unsticks(p)
                           \/ stranger(p)
  BY <1>7, SystemStep
<1>8. CASE \E k \in kin : kin_exits(k)
  <2>1. KinStarted /\ UnchangedByOthers /\ UNCHANGED <<slots, births>>
    BY <1>8 DEF kin_exits, KinStarted
  <2> QED BY <2>1, KinStep
<1>9. CASE UNCHANGED jobVars
  <2>1. KinStarted /\ UnchangedByOthers /\ UNCHANGED <<slots, births>>
    BY <1>9 DEF jobVars, KinStarted, UnchangedByOthers
  <2> QED BY <2>1, KinStep
<1> QED BY <1>1, <1>2, <1>3, <1>4, <1>5, <1>6, <1>7, <1>8, <1>9 DEF JobNext

\* A handle and a record name one process, by pid and creation time, and the job
\* of an attached agent is held while its engine is open: for any pids.
THEOREM JobsAreKept == JobSpec => []JobInv
  BY JobStart, JobInvariant, PTL DEF JobSpec

\* Who the backend calls gone has ended (WindowsProcess::reap_if_exited,
\* confirm_death, and an adoption that finds somebody else at the pid); however an
\* engine ends, no attached agent whose spawn had reached its job is left, but one
\* in the kernel that dies when it leaves it; a detached agent that was recorded
\* is found by the next engine; nobody but the agent is terminated, though a pid is
\* all TerminateProcess is given by an engine that adopted; and a stop that
\* escalated through the job leaves nothing of it.  For any pids, any number of
\* engines and strangers, and whatever the kernel keeps a process from dying of.
THEOREM JobsAreExact == JobSpec => []JobIsExact
<1>1. JobInv => AttachedDiesWithEngine
  BY DEF JobInv, KillJobIsHeld, CallsHoldHandle, AttachedDiesWithEngine
<1>2. JobInv => JobIsExact
  BY <1>1 DEF JobInv, JobIsExact, DetachedIsFound, DetachedIsRecorded
<1> QED BY <1>2, JobsAreKept, PTL


-----------------------------------------------------------------------------
(***************************************************************************)
(* Updates.                                                                *)
(***************************************************************************)
Tags     == Releases \cup {NoTag}
Times    == 0 .. MaxTime
Fetching == {"checksum", "write", "mode", "rename"}
Checking == {"ask", "save", "write cache", "told"}

\* What a command knows at each of its steps.
KtStates ==
    {Asleep}
        \cup [at : {"tag"}, version : Releases]
        \cup [at : {"archive"}, version : Releases, tag : Releases]
        \cup [at : Fetching, version : Releases, tag : Releases, archive : Nat]
        \cup [at : Checking, version : Releases, now : Times, tag : Tags]

UpdateTypes ==
    /\ UpdateTypeOK
    /\ kt \in [Kts -> KtStates]
    /\ asset \in [Releases -> [archive : Nat, checksum : Nat]]
    /\ since \in [Times -> Releases]

\* A tag that a command works with, or that is saved, was released.
Released(c) ==
    c.at \in {"archive"} \cup Fetching \cup Checking => c.tag <= latest

TagsAreReleased ==
    /\ \A k \in Kts : Released(kt[k])
    /\ cache # NoCache => cache.tag <= latest

\* What a command renames over the executable is written to its end, and no
\* other command writes under that name.
OwnTemp(c, file) ==
    /\ c.at \in {"mode", "rename"} => file.of = c.tag
    /\ c.at = "rename" => file.whole

TempIsItsOwn == \A k \in Kts : OwnTemp(kt[k], temp[k])

\* Releases only grow, while nobody sets the clock back.
SinceGrows ==
    honest => \A t, u \in Times : t <= u /\ u <= clock => since[t] <= since[u]

SinceIsPast == \A t \in Times : since[t] <= latest

\* The oldest release that a check at a time may still speak of.
Horizon(now) ==
    IF now < CHECK_INTERVAL_SECS THEN 0 ELSE now - CHECK_INTERVAL_SECS + 1

\* An answer, saved or about to be, is as new as the time it bears; what a
\* command is told is as new as an interval allows.
Timely(c) ==
    /\ c.at \in Checking => c.now <= clock
    /\ c.at \in {"save", "write cache"} => c.tag >= since[c.now]
    /\ c.at = "told" => c.tag >= since[Horizon(c.now)]

AnswersAreTimely ==
    honest =>
        /\ cache # NoCache => cache.at <= clock /\ cache.tag >= since[cache.at]
        /\ \A k \in Kts : Timely(kt[k])

UpdateInv ==
    /\ UpdateTypes
    /\ ExeIsWhole /\ TagsAreReleased /\ TempIsItsOwn
    /\ SinceGrows /\ SinceIsPast /\ AnswersAreTimely

-----------------------------------------------------------------------------
(* The states of a command.                                                *)

\* A command's step says which fields it has.
LEMMA StatesOfCommand ==
    ASSUME NEW c \in KtStates
    PROVE  /\ c.at = "none" => c = Asleep
           /\ c.at = "tag" => c.version \in Releases
           /\ c.at = "archive" => c.version \in Releases /\ c.tag \in Releases
           /\ c.at \in Fetching =>
                 c \in [at : Fetching, version : Releases, tag : Releases, archive : Nat]
           /\ c.at \in Checking =>
                 c \in [at : Checking, version : Releases, now : Times, tag : Tags]
<1> USE DEF Asleep, Fetching, Checking
<1>1. CASE c = Asleep
  BY <1>1
<1>2. CASE c \in [at : {"tag"}, version : Releases]
  BY <1>2
<1>3. CASE c \in [at : {"archive"}, version : Releases, tag : Releases]
  BY <1>3
<1>4. CASE c \in [at : Fetching, version : Releases, tag : Releases, archive : Nat]
  BY <1>4
<1>5. CASE c \in [at : Checking, version : Releases, now : Times, tag : Tags]
  BY <1>5
<1> QED BY <1>1, <1>2, <1>3, <1>4, <1>5 DEF KtStates

\* Numbers of releases and times are numbers.
LEMMA Numbers ==
    ASSUME SelfUpdateConstants
    PROVE  /\ Releases \subseteq Nat \ {0} /\ Tags \subseteq Nat /\ Times \subseteq Nat
           /\ NoTag = 0 /\ NoTag \in Tags /\ Releases \subseteq Tags
           /\ \A r \in Releases : 1 .. r \subseteq Releases
           /\ \A t \in Times : 0 .. t \subseteq Times
           /\ \A now \in Times : Horizon(now) \in 0 .. now
           /\ NoCache.at \notin Times
<1>1. PICK n \in Nat \ {0} : Releases = 1 .. n
  BY DEF SelfUpdateConstants
<1>2. CHECK_INTERVAL_SECS \in Nat \ {0} /\ MaxTime \in Nat
  BY DEF SelfUpdateConstants
<1> QED BY <1>1, <1>2 DEF Tags, Times, NoTag, NoCache, Horizon

\* What holds of every command after one of them has moved.
LEMMA CommandMoves ==
    ASSUME UpdateInv, NEW k \in Kts, NEW c \in KtStates,
           Released(c), honest => Timely(c), kt' = [kt EXCEPT ![k] = c],
           UNCHANGED <<latest, asset, clock, since>>,
           honest' \in BOOLEAN, honest' => honest
    PROVE  /\ kt' \in [Kts -> KtStates]
           /\ \A j \in Kts : Released(kt'[j])
           /\ honest' => \A j \in Kts : Timely(kt'[j])
           /\ SinceGrows' /\ SinceIsPast'
<1>1. kt \in [Kts -> KtStates]
  BY DEF UpdateInv, UpdateTypes
<1>2. /\ kt' \in [Kts -> KtStates]
      /\ \A j \in Kts : kt'[j] = IF j = k THEN c ELSE kt[j]
  BY <1>1
<1>3. \A j \in Kts : Released(kt'[j])
  BY <1>2 DEF UpdateInv, TagsAreReleased
<1>4. honest' => \A j \in Kts : Timely(kt'[j])
  BY <1>2 DEF UpdateInv, AnswersAreTimely
<1>5. SinceGrows' /\ SinceIsPast'
  BY DEF UpdateInv, SinceGrows, SinceIsPast
<1> QED BY <1>2, <1>3, <1>4, <1>5

\* A command that moves, and touches no file but its own, nor the cache.
LEMMA CommandKeepsInvariant ==
    ASSUME UpdateInv, NEW k \in Kts, NEW c \in KtStates,
           Released(c), honest => Timely(c), kt' = [kt EXCEPT ![k] = c],
           NEW file \in [of : Releases \cup {0}, whole : BOOLEAN],
           temp' = [temp EXCEPT ![k] = file], OwnTemp(c, file),
           UNCHANGED <<latest, asset, clock, since, cache>>,
           honest' \in BOOLEAN, honest' => honest,
           exe' \in [of : Releases \cup {0}, whole : BOOLEAN], ExeIsWhole'
    PROVE  UpdateInv'
<1>1. /\ kt' \in [Kts -> KtStates]
      /\ \A j \in Kts : Released(kt'[j])
      /\ honest' => \A j \in Kts : Timely(kt'[j])
      /\ SinceGrows' /\ SinceIsPast'
  BY CommandMoves
<1>2. /\ kt \in [Kts -> KtStates]
      /\ temp \in [Kts -> [of : Releases \cup {0}, whole : BOOLEAN]]
  BY DEF UpdateInv, UpdateTypes, UpdateTypeOK
<1>3. UpdateTypes'
  BY <1>1, <1>2 DEF UpdateInv, UpdateTypes, UpdateTypeOK
<1>4. TagsAreReleased'
  BY <1>1 DEF UpdateInv, TagsAreReleased, Released
<1>5. TempIsItsOwn'
  BY <1>2 DEF UpdateInv, TempIsItsOwn
<1>6. AnswersAreTimely'
  BY <1>1 DEF UpdateInv, AnswersAreTimely, Timely
<1> QED BY <1>1, <1>3, <1>4, <1>5, <1>6 DEF UpdateInv

\* An ended command is asleep, and owes nothing.
LEMMA AsleepOwesNothing ==
    /\ Asleep \in KtStates /\ Released(Asleep) /\ Timely(Asleep)
    /\ \A file : OwnTemp(Asleep, file)
    /\ NoFile.of = 0 /\ NoFile.whole = FALSE
    /\ NoFile \in [of : Releases \cup {0}, whole : BOOLEAN]
  BY DEF KtStates, Asleep, Released, Timely, OwnTemp, Fetching, Checking, NoFile

\* The types of one command and its file.
LEMMA TypesOfCommand ==
    ASSUME UpdateInv, NEW k \in Kts
    PROVE  /\ kt \in [Kts -> KtStates] /\ kt[k] \in KtStates
           /\ temp \in [Kts -> [of : Releases \cup {0}, whole : BOOLEAN]]
           /\ temp[k] \in [of : Releases \cup {0}, whole : BOOLEAN]
           /\ temp = [temp EXCEPT ![k] = temp[k]]
           /\ latest \in Releases
           /\ exe \in [of : Releases \cup {0}, whole : BOOLEAN]
           /\ Released(kt[k]) /\ OwnTemp(kt[k], temp[k])
           /\ honest => Timely(kt[k])
           /\ honest \in BOOLEAN /\ ExeIsWhole
  BY DEF UpdateInv, UpdateTypes, UpdateTypeOK, TagsAreReleased, TempIsItsOwn,
         AnswersAreTimely

-----------------------------------------------------------------------------
(* Replacing the executable.                                               *)

\* Any way for a command to end that leaves the executable alone.
LEMMA EndKeepsInvariant ==
    ASSUME UpdateInv, NEW k \in Kts, kt' = [kt EXCEPT ![k] = Asleep],
           temp' = temp \/ temp' = [temp EXCEPT ![k] = NoFile],
           UNCHANGED <<exe, latest, asset, cache, clock, since, honest>>
    PROVE  UpdateInv'
<1>1. PICK file \in [of : Releases \cup {0}, whole : BOOLEAN] :
         temp' = [temp EXCEPT ![k] = file]
  BY TypesOfCommand, AsleepOwesNothing
<1>2. ExeIsWhole'
  BY TypesOfCommand DEF ExeIsWhole
<1> QED BY <1>1, <1>2, TypesOfCommand, AsleepOwesNothing, CommandKeepsInvariant

\* A step of an update that ends at another step, its file as given.
LEMMA StepKeepsInvariant ==
    ASSUME UpdateInv, NEW k \in Kts, NEW c \in KtStates, c.at \notin Checking,
           Released(c), kt' = [kt EXCEPT ![k] = c],
           NEW file \in [of : Releases \cup {0}, whole : BOOLEAN],
           temp' = [temp EXCEPT ![k] = file], OwnTemp(c, file),
           UNCHANGED <<exe, latest, asset, cache, clock, since, honest>>
    PROVE  UpdateInv'
<1>1. Timely(c)
  BY DEF Timely, Checking
<1>2. ExeIsWhole'
  BY TypesOfCommand DEF ExeIsWhole
<1> QED BY <1>1, <1>2, TypesOfCommand, CommandKeepsInvariant

LEMMA SelfUpdateStep ==
    ASSUME SelfUpdateConstants, UpdateInv, NEW k \in Kts, self_update(k)
    PROVE  UpdateInv'
<1> DEFINE c == [at |-> "tag", version |-> exe.of]
<1>1. /\ kt' = [kt EXCEPT ![k] = c] /\ temp' = temp
      /\ UNCHANGED <<exe, latest, asset, cache, clock, since, honest>>
  BY DEF self_update, UnchangedByUpdate
<1>2. exe.of \in Releases
  BY TypesOfCommand, Numbers DEF ExeIsWhole
<1>3. c \in KtStates /\ c.at \notin Checking /\ Released(c) /\ OwnTemp(c, temp[k])
  BY <1>2 DEF KtStates, Checking, Fetching, Released, OwnTemp
<1> HIDE DEF c
<1> QED BY <1>1, <1>3, TypesOfCommand, StepKeepsInvariant

\* Only a newer tag is fetched, and it is the latest there is.
LEMMA TagStep ==
    ASSUME SelfUpdateConstants, UpdateInv, NEW k \in Kts, latest_release_tag(k)
    PROVE  UpdateInv'
<1> DEFINE c == [at |-> "archive", version |-> kt[k].version, tag |-> latest]
<1>1. /\ kt[k].at = "tag"
      /\ \/ kt' = [kt EXCEPT ![k] = Asleep] \/ kt' = [kt EXCEPT ![k] = c]
      /\ temp' = temp
      /\ UNCHANGED <<exe, latest, asset, cache, clock, since, honest>>
  BY DEF latest_release_tag, UnchangedByUpdate
<1>2. c \in KtStates /\ c.at \notin Checking /\ Released(c) /\ OwnTemp(c, temp[k])
  <2>1. kt[k].version \in Releases /\ latest \in Releases /\ latest \in Nat
    BY <1>1, TypesOfCommand, StatesOfCommand, Numbers
  <2>2. c \in KtStates
    BY <2>1 DEF KtStates
  <2>3. Released(c)
    BY <2>1 DEF Released
  <2> QED BY <2>2, <2>3 DEF Checking, OwnTemp
<1> HIDE DEF c
<1>3. CASE kt' = [kt EXCEPT ![k] = Asleep]
  BY <1>1, <1>3, EndKeepsInvariant
<1>4. CASE kt' = [kt EXCEPT ![k] = c]
  BY <1>1, <1>2, <1>4, TypesOfCommand, StepKeepsInvariant
<1> QED BY <1>1, <1>3, <1>4

LEMMA DownloadStep ==
    ASSUME SelfUpdateConstants, UpdateInv, NEW k \in Kts, download_archive(k)
    PROVE  UpdateInv'
<1> DEFINE c == [at |-> "checksum", version |-> kt[k].version, tag |-> kt[k].tag,
                 archive |-> asset[kt[k].tag].archive]
<1>1. /\ kt[k].at = "archive" /\ kt' = [kt EXCEPT ![k] = c] /\ temp' = temp
      /\ UNCHANGED <<exe, latest, asset, cache, clock, since, honest>>
  BY DEF download_archive, UnchangedByUpdate
<1>2. kt[k].version \in Releases /\ kt[k].tag \in Releases /\ kt[k].tag <= latest
  BY <1>1, TypesOfCommand, StatesOfCommand DEF Released
<1>3. asset[kt[k].tag].archive \in Nat
  BY <1>2 DEF UpdateInv, UpdateTypes
<1>4. c \in KtStates /\ c.at \notin Checking /\ Released(c) /\ OwnTemp(c, temp[k])
  BY <1>2, <1>3 DEF KtStates, Checking, Fetching, Released, OwnTemp
<1> HIDE DEF c
<1> QED BY <1>1, <1>4, TypesOfCommand, StepKeepsInvariant

\* A command goes on with the tag it fetched.
LEMMA FetchedGoesOn ==
    ASSUME UpdateInv, NEW k \in Kts, kt[k].at \in Fetching, NEW to \in Fetching
    PROVE  LET c == [kt[k] EXCEPT !.at = to]
           IN /\ c \in KtStates /\ c.at = to /\ c.at \notin Checking /\ Released(c)
              /\ c.tag = kt[k].tag /\ c.tag \in Releases /\ c.tag <= latest
              /\ kt' = [kt EXCEPT ![k].at = to] => kt' = [kt EXCEPT ![k] = c]
<1>1. /\ kt[k] \in [at : Fetching, version : Releases, tag : Releases, archive : Nat]
      /\ kt[k].tag <= latest
  BY TypesOfCommand, StatesOfCommand DEF Released
<1> QED BY <1>1 DEF KtStates, Fetching, Checking, Released

LEMMA ChecksumStep ==
    ASSUME SelfUpdateConstants, UpdateInv, NEW k \in Kts, verify_checksum(k)
    PROVE  UpdateInv'
<1> DEFINE c == [kt[k] EXCEPT !.at = "write"]
<1>1. /\ kt[k].at = "checksum" /\ temp' = temp
      /\ kt' = [kt EXCEPT ![k] = c] \/ kt' = [kt EXCEPT ![k] = Asleep]
      /\ UNCHANGED <<exe, latest, asset, cache, clock, since, honest>>
  BY DEF verify_checksum, UnchangedByUpdate
<1>2. c \in KtStates /\ c.at \notin Checking /\ Released(c) /\ OwnTemp(c, temp[k])
  BY <1>1, FetchedGoesOn DEF Fetching, OwnTemp
<1> HIDE DEF c
<1>3. CASE kt' = [kt EXCEPT ![k] = Asleep]
  BY <1>1, <1>3, EndKeepsInvariant
<1>4. CASE kt' = [kt EXCEPT ![k] = c]
  BY <1>1, <1>2, <1>4, TypesOfCommand, StepKeepsInvariant
<1> QED BY <1>1, <1>3, <1>4

LEMMA WriteStep ==
    ASSUME SelfUpdateConstants, UpdateInv, NEW k \in Kts, write_replacement(k)
    PROVE  UpdateInv'
<1> DEFINE c    == [kt[k] EXCEPT !.at = "mode"]
           file == [of |-> kt[k].tag, whole |-> FALSE]
<1>1. /\ kt[k].at = "write" /\ kt' = [kt EXCEPT ![k].at = "mode"]
      /\ temp' = [temp EXCEPT ![k] = file]
      /\ UNCHANGED <<exe, latest, asset, cache, clock, since, honest>>
  BY DEF write_replacement, Go, UnchangedByUpdate
<1>2. /\ c \in KtStates /\ c.at \notin Checking /\ Released(c) /\ OwnTemp(c, file)
      /\ kt' = [kt EXCEPT ![k] = c]
      /\ file \in [of : Releases \cup {0}, whole : BOOLEAN]
  BY <1>1, FetchedGoesOn DEF Fetching, OwnTemp
<1> HIDE DEF c, file
<1> QED BY <1>1, <1>2, StepKeepsInvariant

LEMMA ModeStep ==
    ASSUME SelfUpdateConstants, UpdateInv, NEW k \in Kts, make_executable(k)
    PROVE  UpdateInv'
<1> DEFINE c    == [kt[k] EXCEPT !.at = "rename"]
           file == [temp[k] EXCEPT !.whole = TRUE]
<1>1. /\ kt[k].at = "mode" /\ kt' = [kt EXCEPT ![k].at = "rename"]
      /\ temp' = [temp EXCEPT ![k] = file]
      /\ UNCHANGED <<exe, latest, asset, cache, clock, since, honest>>
  BY DEF make_executable, Go, UnchangedByUpdate
<1>2. /\ file \in [of : Releases \cup {0}, whole : BOOLEAN]
      /\ file.of = kt[k].tag /\ file.whole
  BY <1>1, TypesOfCommand DEF OwnTemp
<1>3. /\ c \in KtStates /\ c.at \notin Checking /\ Released(c) /\ OwnTemp(c, file)
      /\ kt' = [kt EXCEPT ![k] = c]
  <2> HIDE DEF file
  <2> QED BY <1>1, <1>2, FetchedGoesOn DEF Fetching, OwnTemp
<1> HIDE DEF c, file
<1> QED BY <1>1, <1>2, <1>3, StepKeepsInvariant

\* The file renamed is whole, and of a release.
LEMMA RenameStep ==
    ASSUME SelfUpdateConstants, UpdateInv, NEW k \in Kts, rename(k)
    PROVE  UpdateInv'
<1>1. /\ kt[k].at = "rename" /\ kt' = [kt EXCEPT ![k] = Asleep]
      /\ exe' = temp[k] /\ temp' = [temp EXCEPT ![k] = NoFile]
      /\ UNCHANGED <<latest, asset, cache, clock, since, honest>>
  BY DEF rename, End, UnchangedByUpdate
<1>2. /\ exe'.of = kt[k].tag /\ exe'.whole
      /\ kt[k].tag \in Releases /\ kt[k].tag <= latest
  BY <1>1, TypesOfCommand, StatesOfCommand DEF OwnTemp, Released, Fetching
<1>3. exe' \in [of : Releases \cup {0}, whole : BOOLEAN] /\ ExeIsWhole'
  BY <1>1, <1>2, Numbers, TypesOfCommand DEF ExeIsWhole
<1> QED BY <1>1, <1>3, TypesOfCommand, AsleepOwesNothing, CommandKeepsInvariant

\* An update that fails, and a command that is killed.
LEMMA UpdateEndsStep ==
    ASSUME UpdateInv, NEW k \in Kts, update_fails(k) \/ killed(k)
    PROVE  UpdateInv'
  BY EndKeepsInvariant DEF update_fails, killed, End, UnchangedByUpdate

LEMMA ManagerStep ==
    ASSUME SelfUpdateConstants, UpdateInv, NEW k \in Kts, run_command(k)
    PROVE  UpdateInv'
<1>1. /\ kt' = [kt EXCEPT ![k] = Asleep] /\ exe' = Whole(latest) /\ temp' = temp
      /\ UNCHANGED <<latest, asset, cache, clock, since, honest>>
  BY DEF run_command, End, UnchangedByUpdate
<1>2. exe' \in [of : Releases \cup {0}, whole : BOOLEAN] /\ ExeIsWhole'
  BY <1>1, Numbers, TypesOfCommand DEF Whole, ExeIsWhole
<1> QED BY <1>1, <1>2, TypesOfCommand, AsleepOwesNothing, CommandKeepsInvariant

-----------------------------------------------------------------------------
(* The check and the world.                                                *)

\* A horizon lies behind its time, and is not before a fresh cache's.
LEMMA FreshIsPastHorizon ==
    ASSUME SelfUpdateConstants, NEW now \in Times, NEW at \in Times,
           at >= now \/ now - at < CHECK_INTERVAL_SECS
    PROVE  Horizon(now) \in Times /\ Horizon(now) <= now /\ Horizon(now) <= at
  BY DEF SelfUpdateConstants, Times, Horizon

\* A command of the check that moves, and leaves the cache alone.
LEMMA CheckKeepsInvariant ==
    ASSUME UpdateInv, NEW k \in Kts, NEW c \in KtStates,
           c.at \notin {"mode", "rename"},
           Released(c), honest => Timely(c), kt' = [kt EXCEPT ![k] = c],
           UNCHANGED <<exe, temp, latest, asset, clock, since, cache>>,
           honest' \in BOOLEAN, honest' => honest
    PROVE  UpdateInv'
<1>1. OwnTemp(c, temp[k])
  BY DEF OwnTemp
<1>2. ExeIsWhole'
  BY TypesOfCommand DEF ExeIsWhole
<1> QED BY <1>1, <1>2, TypesOfCommand, CommandKeepsInvariant

LEMMA NoticeStep ==
    ASSUME SelfUpdateConstants, UpdateInv, NEW k \in Kts, maybe_notice(k)
    PROVE  UpdateInv'
<1> DEFINE fresh == [at |-> "told", version |-> exe.of, now |-> clock, tag |-> cache.tag]
           tag   == IF cache = NoCache THEN NoTag ELSE cache.tag
           stale == [at |-> "ask", version |-> exe.of, now |-> clock, tag |-> tag]
<1>1. /\ \/ cache_is_fresh(cache, clock) /\ kt' = [kt EXCEPT ![k] = fresh]
         \/ kt' = [kt EXCEPT ![k] = stale]
      /\ UNCHANGED <<exe, temp, latest, asset, clock, since, cache, honest>>
  BY DEF maybe_notice, UnchangedByCheck
<1>2. /\ exe.of \in Releases /\ clock \in Times /\ clock \in Nat
      /\ cache # NoCache => /\ cache.tag \in Tags /\ cache.tag <= latest
                            /\ cache.at \in Times
      /\ latest \in Nat
  <2>1. exe.of \in Releases /\ latest \in Nat
    BY TypesOfCommand, Numbers DEF ExeIsWhole
  <2>2. clock \in Times /\ cache \in {NoCache} \cup [tag : Tags, at : Times]
    BY DEF UpdateInv, UpdateTypes, UpdateTypeOK, Times, Tags, NoTag
  <2>3. clock \in Nat
    BY <2>2, Numbers
  <2>4. cache # NoCache => cache.tag <= latest
    BY DEF UpdateInv, TagsAreReleased
  <2> QED BY <2>1, <2>2, <2>3, <2>4
<1>3. CASE cache_is_fresh(cache, clock) /\ kt' = [kt EXCEPT ![k] = fresh]
  <2>1. cache # NoCache /\ (cache.at >= clock \/ clock - cache.at < CHECK_INTERVAL_SECS)
    BY <1>3 DEF cache_is_fresh
  <2>2. fresh \in KtStates /\ fresh.at \notin {"mode", "rename"}
    BY <1>2, <2>1 DEF KtStates, Checking
  <2>3. Released(fresh)
    BY <1>2, <2>1 DEF Released
  <2>4. honest => Timely(fresh)
    <3> SUFFICES ASSUME honest PROVE Timely(fresh)
      OBVIOUS
    <3>1. cache.at <= clock /\ cache.tag >= since[cache.at]
      BY <2>1 DEF UpdateInv, AnswersAreTimely
    <3>2. /\ Horizon(clock) \in Times /\ Horizon(clock) <= cache.at
      BY <1>2, <2>1, FreshIsPastHorizon
    <3>3. since[Horizon(clock)] <= since[cache.at]
      BY <1>2, <2>1, <3>1, <3>2 DEF UpdateInv, SinceGrows
    <3>4. /\ since[Horizon(clock)] \in Nat /\ since[cache.at] \in Nat
          /\ cache.tag \in Nat
      BY <1>2, <2>1, <3>2, Numbers DEF UpdateInv, UpdateTypes
    <3>5. fresh.tag >= since[Horizon(fresh.now)]
      BY <3>1, <3>3, <3>4
    <3> QED BY <1>2, <3>5 DEF Timely
  <2> HIDE DEF fresh
  <2> QED BY <1>1, <1>3, <2>2, <2>3, <2>4, TypesOfCommand, CheckKeepsInvariant
<1>4. CASE kt' = [kt EXCEPT ![k] = stale]
  <2>1. tag \in Tags /\ tag <= latest
    BY <1>2, Numbers
  <2>2. stale \in KtStates /\ stale.at \notin {"mode", "rename"}
    BY <1>2, <2>1 DEF KtStates, Checking
  <2>3. Released(stale) /\ Timely(stale)
    BY <1>2, <2>1 DEF Released, Timely
  <2> HIDE DEF stale
  <2> QED BY <1>1, <1>4, <2>2, <2>3, TypesOfCommand, CheckKeepsInvariant
<1> QED BY <1>1, <1>3, <1>4

\* A command goes on with what it knows of the check.
LEMMA CheckedGoesOn ==
    ASSUME UpdateInv, NEW k \in Kts, kt[k].at \in Checking, NEW to \in Checking
    PROVE  LET c == [kt[k] EXCEPT !.at = to]
           IN /\ c \in KtStates /\ c.at = to /\ c.at \notin {"mode", "rename"}
              /\ c.tag = kt[k].tag /\ c.now = kt[k].now
              /\ c.tag \in Tags /\ c.now \in Times /\ Released(c)
              /\ honest => c.now <= clock
              /\ kt' = [kt EXCEPT ![k].at = to] => kt' = [kt EXCEPT ![k] = c]
<1>1. /\ kt[k] \in [at : Checking, version : Releases, now : Times, tag : Tags]
      /\ kt[k].tag <= latest
      /\ honest => kt[k].now <= clock
  BY TypesOfCommand, StatesOfCommand DEF Released, Timely
<1> QED BY <1>1 DEF KtStates, Checking, Released

\* An answer that is asked for now is as new as any time before.
LEMMA AskStep ==
    ASSUME SelfUpdateConstants, UpdateInv, NEW k \in Kts, ask(k)
    PROVE  UpdateInv'
<1>1. /\ kt[k].at = "ask"
      /\ \/ /\ kt' = [kt EXCEPT ![k] = [kt[k] EXCEPT !.at = "save", !.tag = latest]]
            /\ honest' = honest
         \/ kt' = [kt EXCEPT ![k].at = "save"] /\ honest' = FALSE
      /\ UNCHANGED <<exe, temp, latest, asset, clock, since, cache>>
  BY DEF ask, Go, UnchangedByCheck
<1>2. CASE kt' = [kt EXCEPT ![k].at = "save"] /\ honest' = FALSE
  <2> DEFINE c == [kt[k] EXCEPT !.at = "save"]
  <2>1. /\ c \in KtStates /\ Released(c) /\ c.at = "save" /\ kt' = [kt EXCEPT ![k] = c]
    BY <1>1, <1>2, CheckedGoesOn DEF Checking
  <2> HIDE DEF c
  <2>2. \A j \in Kts : kt'[j] = IF j = k THEN c ELSE kt[j]
    BY <2>1, TypesOfCommand
  <2>3. kt' \in [Kts -> KtStates]
    BY <2>1, TypesOfCommand
  <2>4. UpdateTypes'
    BY <1>1, <1>2, <2>3 DEF UpdateInv, UpdateTypes, UpdateTypeOK
  <2>5. ExeIsWhole' /\ TagsAreReleased'
    BY <1>1, <2>1, <2>2 DEF UpdateInv, ExeIsWhole, TagsAreReleased, Released
  <2>6. TempIsItsOwn'
    BY <1>1, <2>1, <2>2 DEF UpdateInv, TempIsItsOwn, OwnTemp
  <2>7. SinceGrows' /\ SinceIsPast' /\ AnswersAreTimely'
    BY <1>1, <1>2 DEF UpdateInv, SinceGrows, SinceIsPast, AnswersAreTimely
  <2> QED BY <2>4, <2>5, <2>6, <2>7 DEF UpdateInv
<1>3. CASE /\ kt' = [kt EXCEPT ![k] = [kt[k] EXCEPT !.at = "save", !.tag = latest]]
           /\ honest' = honest
  <2> DEFINE c == [kt[k] EXCEPT !.at = "save", !.tag = latest]
  <2>1. /\ kt[k] \in [at : Checking, version : Releases, now : Times, tag : Tags]
        /\ latest \in Tags /\ latest \in Nat
    BY <1>1, TypesOfCommand, StatesOfCommand, Numbers DEF Checking
  <2>2. c \in [at : {"save"}, version : Releases, now : Times, tag : Tags]
        /\ c.tag = latest /\ c.now = kt[k].now
    BY <2>1
  <2>3. c \in KtStates /\ c.at = "save"
    BY <2>2 DEF KtStates, Checking
  <2> HIDE DEF c
  <2>4. Released(c)
    BY <2>1, <2>2 DEF Released
  <2>5. honest => Timely(c)
    <3>1. honest => c.now <= clock
      BY <1>1, <2>2, TypesOfCommand DEF Timely, Checking
    <3>2. c.tag >= since[c.now]
      <4>1. since[c.now] <= latest /\ since[c.now] \in Nat
        BY <2>2, Numbers DEF UpdateInv, SinceIsPast, UpdateTypes
      <4> QED BY <2>1, <2>2, <4>1
    <3> QED BY <2>3, <3>1, <3>2 DEF Timely
  <2> QED BY <1>1, <1>3, <2>3, <2>4, <2>5, TypesOfCommand, CheckKeepsInvariant DEF c
<1> QED BY <1>1, <1>2, <1>3

\* A command that saves or prints what it knows, and the cache it leaves.
LEMMA CacheKeepsInvariant ==
    ASSUME SelfUpdateConstants, UpdateInv, NEW k \in Kts, NEW c \in KtStates,
           c.at \notin {"mode", "rename"}, Released(c), honest => Timely(c),
           kt' = [kt EXCEPT ![k] = c],
           UNCHANGED <<exe, temp, latest, asset, clock, since, honest>>,
           \/ cache' = NoCache
           \/ /\ cache' \in [tag : Tags, at : Times] /\ cache'.tag <= latest
              /\ honest => cache'.at <= clock /\ cache'.tag >= since[cache'.at]
    PROVE  UpdateInv'
<1>1. /\ kt' \in [Kts -> KtStates]
      /\ \A j \in Kts : Released(kt'[j])
      /\ honest' => \A j \in Kts : Timely(kt'[j])
      /\ SinceGrows' /\ SinceIsPast'
  BY TypesOfCommand, CommandMoves
<1>2. cache' \in {NoCache} \cup [tag : Releases \cup {0}, at : 0 .. MaxTime]
  BY DEF Tags, NoTag, Times
<1>3. UpdateTypes'
  BY <1>1, <1>2 DEF UpdateInv, UpdateTypes, UpdateTypeOK
<1>4. TagsAreReleased' /\ AnswersAreTimely'
  BY <1>1 DEF TagsAreReleased, Released, AnswersAreTimely, Timely
<1>5. TempIsItsOwn' /\ ExeIsWhole'
  BY TypesOfCommand DEF UpdateInv, TempIsItsOwn, OwnTemp, ExeIsWhole
<1> QED BY <1>1, <1>3, <1>4, <1>5 DEF UpdateInv

LEMMA SaveStep ==
    ASSUME SelfUpdateConstants, UpdateInv, NEW k \in Kts, save_cache(k)
    PROVE  UpdateInv'
<1> DEFINE c == [kt[k] EXCEPT !.at = "write cache"]
<1>1. /\ kt[k].at = "save" /\ kt' = [kt EXCEPT ![k].at = "write cache"]
      /\ cache' = NoCache
      /\ UNCHANGED <<exe, temp, latest, asset, clock, since, honest>>
  BY DEF save_cache, Go, UnchangedByCheck
<1>2. /\ c \in KtStates /\ c.at = "write cache" /\ Released(c)
      /\ c.tag = kt[k].tag /\ c.now = kt[k].now /\ (honest => c.now <= clock)
      /\ kt' = [kt EXCEPT ![k] = c]
  BY <1>1, CheckedGoesOn DEF Checking
<1>3. honest => Timely(c)
  BY <1>1, <1>2, TypesOfCommand DEF Timely, Checking
<1> HIDE DEF c
<1> QED BY <1>1, <1>2, <1>3, CacheKeepsInvariant

\* What is saved is as new as the time it bears; a mixture is not read.
LEMMA WriteCacheStep ==
    ASSUME SelfUpdateConstants, UpdateInv, NEW k \in Kts, write_cache(k)
    PROVE  UpdateInv'
<1> DEFINE c     == [kt[k] EXCEPT !.at = "told"]
           saved == [tag |-> kt[k].tag, at |-> kt[k].now]
<1>1. /\ kt[k].at = "write cache" /\ kt' = [kt EXCEPT ![k].at = "told"]
      /\ cache' = saved \/ cache' = NoCache
      /\ UNCHANGED <<exe, temp, latest, asset, clock, since, honest>>
  BY DEF write_cache, Go, UnchangedByCheck
<1>2. /\ c \in KtStates /\ c.at = "told" /\ Released(c)
      /\ c.tag = kt[k].tag /\ c.now = kt[k].now /\ (honest => c.now <= clock)
      /\ c.tag \in Tags /\ c.now \in Times
      /\ kt' = [kt EXCEPT ![k] = c]
  BY <1>1, CheckedGoesOn DEF Checking
<1>3. kt[k].tag <= latest /\ (honest => kt[k].tag >= since[kt[k].now])
  BY <1>1, TypesOfCommand DEF Released, Timely, Checking
<1>4. honest => Timely(c)
  <2> SUFFICES ASSUME honest PROVE c.tag >= since[Horizon(c.now)]
    BY <1>2 DEF Timely
  <2>1. /\ Horizon(c.now) \in Times /\ Horizon(c.now) <= c.now
        /\ c.now \in Nat /\ clock \in Nat
    <3>1. c.now \in Nat /\ c.now >= c.now
      BY <1>2, Numbers
    <3> QED BY <1>2, <3>1, FreshIsPastHorizon DEF UpdateInv, UpdateTypes, UpdateTypeOK
  <2>2. since[Horizon(c.now)] <= since[c.now]
    BY <1>2, <2>1 DEF UpdateInv, SinceGrows
  <2>3. since[Horizon(c.now)] \in Nat /\ since[c.now] \in Nat /\ c.tag \in Nat
    BY <1>2, <2>1, Numbers DEF UpdateInv, UpdateTypes
  <2> QED BY <1>2, <1>3, <2>2, <2>3
<1>5. /\ saved \in [tag : Tags, at : Times] /\ saved.tag <= latest
      /\ honest => saved.at <= clock /\ saved.tag >= since[saved.at]
  BY <1>2, <1>3
<1> HIDE DEF c, saved
<1> QED BY <1>1, <1>2, <1>4, <1>5, CacheKeepsInvariant

LEMMA ToldStep ==
    ASSUME SelfUpdateConstants, UpdateInv, NEW k \in Kts, notice_given(k)
    PROVE  UpdateInv'
  BY EndKeepsInvariant DEF notice_given, End, UnchangedByCheck

\* A new release, a release published again and a tick of the clock.
LEMMA WorldStep ==
    ASSUME SelfUpdateConstants, UpdateInv,
           publish_release \/ clock_ticks \/ set_back \/ \E r \in Releases : republish(r)
    PROVE  UpdateInv'
<1>1. /\ latest \in Releases /\ latest \in Nat /\ clock \in Times /\ clock \in Nat
      /\ MaxTime \in Nat /\ honest \in BOOLEAN
      /\ since \in [Times -> Releases]
      /\ asset \in [Releases -> [archive : Nat, checksum : Nat]]
      /\ kt \in [Kts -> KtStates]
      /\ cache \in {NoCache} \cup [tag : Tags, at : Times]
      /\ \A t \in Times : since[t] \in Nat /\ t \in Nat
  BY Numbers DEF UpdateInv, UpdateTypes, UpdateTypeOK, SelfUpdateConstants, Times, Tags, NoTag
<1>2. CASE publish_release
  <2>1. /\ latest' = latest + 1 /\ latest' \in Releases
        /\ UNCHANGED <<exe, temp, asset, kt, cache, clock, since, honest>>
    BY <1>2 DEF publish_release
  <2>2. UpdateTypes'
    BY <2>1 DEF UpdateInv, UpdateTypes, UpdateTypeOK
  <2>3. ExeIsWhole'
    BY <1>1, <2>1, TypesOfCommand DEF UpdateInv, ExeIsWhole
  <2>4. TagsAreReleased'
    <3>1. ASSUME NEW k \in Kts PROVE Released(kt[k])'
      <4>1. kt[k] \in KtStates /\ Released(kt[k])
        BY <1>1 DEF UpdateInv, TagsAreReleased
      <4>2. kt[k].at \in {"archive"} \cup Fetching \cup Checking => kt[k].tag \in Nat
        BY <4>1, StatesOfCommand, Numbers
      <4> QED BY <1>1, <2>1, <4>1, <4>2 DEF Released
    <3>2. cache' # NoCache => cache'.tag <= latest'
      BY <1>1, <2>1, Numbers DEF UpdateInv, TagsAreReleased
    <3> QED BY <2>1, <3>1, <3>2 DEF TagsAreReleased
  <2>5. TempIsItsOwn' /\ SinceGrows' /\ AnswersAreTimely'
    BY <2>1 DEF UpdateInv, TempIsItsOwn, OwnTemp, SinceGrows, AnswersAreTimely, Timely
  <2>6. SinceIsPast'
    BY <1>1, <2>1 DEF UpdateInv, SinceIsPast
  <2> QED BY <2>2, <2>3, <2>4, <2>5, <2>6 DEF UpdateInv
<1>3. CASE clock_ticks
  <2>1. /\ clock < MaxTime /\ clock' = clock + 1
        /\ since' = [since EXCEPT ![clock + 1] = latest]
        /\ UNCHANGED <<exe, temp, latest, asset, kt, cache, honest>>
    BY <1>3 DEF clock_ticks
  <2>2. /\ clock' \in Times /\ since' \in [Times -> Releases]
        /\ \A t \in Times : since'[t] = IF t = clock + 1 THEN latest ELSE since[t]
    BY <1>1, <2>1 DEF Times
  <2>3. UpdateTypes'
    BY <2>1, <2>2 DEF UpdateInv, UpdateTypes, UpdateTypeOK, Times
  <2>4. ExeIsWhole' /\ TagsAreReleased' /\ TempIsItsOwn'
    BY <2>1 DEF UpdateInv, ExeIsWhole, TagsAreReleased, Released, TempIsItsOwn, OwnTemp
  <2>5. SinceIsPast'
    BY <1>1, <2>1, <2>2 DEF UpdateInv, SinceIsPast
  <2>6. SinceGrows'
    <3> SUFFICES ASSUME honest, NEW t \in Times, NEW u \in Times, t <= u, u <= clock + 1
                 PROVE  since'[t] <= since'[u]
      BY <2>1 DEF SinceGrows
    <3>1. CASE u = clock + 1
      BY <1>1, <2>2, <3>1 DEF UpdateInv, SinceIsPast
    <3>2. CASE u # clock + 1
      BY <1>1, <2>2, <3>2 DEF UpdateInv, SinceGrows
    <3> QED BY <3>1, <3>2
  <2>7. AnswersAreTimely'
    <3> SUFFICES ASSUME honest
                 PROVE  /\ cache # NoCache =>
                              cache.at <= clock + 1 /\ cache.tag >= since'[cache.at]
                        /\ \A k \in Kts : Timely(kt[k])'
      BY <2>1 DEF AnswersAreTimely
    <3>1. \A t \in Times : t <= clock => since'[t] = since[t] /\ t <= clock + 1
      BY <1>1, <2>2
    <3>2. cache # NoCache => cache.at <= clock + 1 /\ cache.tag >= since'[cache.at]
      BY <1>1, <3>1 DEF UpdateInv, AnswersAreTimely
    <3>3. ASSUME NEW k \in Kts PROVE Timely(kt[k])'
      <4>1. kt[k] \in KtStates /\ Timely(kt[k])
        BY <1>1 DEF UpdateInv, AnswersAreTimely
      <4>2. CASE kt[k].at \notin Checking
        BY <2>1, <4>2 DEF Timely, Checking
      <4>3. CASE kt[k].at \in Checking
        <5>1. kt[k].now \in Times /\ kt[k].now <= clock
          BY <4>1, <4>3, StatesOfCommand DEF Timely
        <5>2. Horizon(kt[k].now) \in 0 .. kt[k].now
          BY <5>1, Numbers
        <5>3. Horizon(kt[k].now) \in Times /\ Horizon(kt[k].now) <= clock
          <6>1. kt[k].now \in 0 .. MaxTime /\ kt[k].now \in Nat
            BY <1>1, <5>1 DEF Times
          <6>2. \A n \in Nat : \A h \in 0 .. n :
                   n <= MaxTime /\ n <= clock => h \in 0 .. MaxTime /\ h <= clock
            BY <1>1
          <6> HIDE DEF Horizon
          <6> QED BY <5>1, <5>2, <6>1, <6>2 DEF Times
        <5> QED BY <2>1, <3>1, <4>1, <5>1, <5>3 DEF Timely, Horizon
      <4> QED BY <4>2, <4>3
    <3> QED BY <3>2, <3>3
  <2> QED BY <2>3, <2>4, <2>5, <2>6, <2>7 DEF UpdateInv
<1>4. CASE set_back
  <2>1. /\ clock' = 0 /\ honest' = FALSE
        /\ UNCHANGED <<exe, temp, latest, asset, kt, cache, since>>
    BY <1>4 DEF set_back
  <2>2. UpdateTypes'
    <3>1. clock' \in 0 .. MaxTime
      BY <1>1, <2>1
    <3>2. honest' \in BOOLEAN
      BY <2>1
    <3> QED BY <2>1, <3>1, <3>2 DEF UpdateInv, UpdateTypes, UpdateTypeOK
  <2> QED BY <2>1, <2>2 DEF UpdateInv, ExeIsWhole, TagsAreReleased, Released, TempIsItsOwn,
                            OwnTemp, SinceGrows, SinceIsPast, AnswersAreTimely
<1>5. ASSUME NEW r \in Releases, republish(r) PROVE UpdateInv'
  <2>1. /\ \/ asset' = [asset EXCEPT ![r].archive = @ + 1]
           \/ asset' = [asset EXCEPT ![r].checksum = asset[r].archive]
        /\ UNCHANGED <<exe, temp, latest, kt, cache, clock, since, honest>>
    BY <1>5 DEF republish
  <2>2. asset' \in [Releases -> [archive : Nat, checksum : Nat]]
    BY <1>1, <2>1
  <2>3. UpdateTypes'
    BY <2>1, <2>2 DEF UpdateInv, UpdateTypes, UpdateTypeOK
  <2> QED BY <2>1, <2>3 DEF UpdateInv, ExeIsWhole, TagsAreReleased, Released, TempIsItsOwn,
                 OwnTemp, SinceGrows, SinceIsPast, AnswersAreTimely, Timely
<1> QED BY <1>2, <1>3, <1>4, <1>5

\* The commands and the world keep the invariant.
LEMMA UpdateInvariant ==
    ASSUME SelfUpdateConstants
    PROVE  UpdateSpec => []UpdateInv
<1>1. UpdateInit => UpdateInv
  <2> SUFFICES ASSUME UpdateInit PROVE UpdateInv
    OBVIOUS
  <2>1. /\ exe = Whole(1) /\ temp = [k \in Kts |-> NoFile] /\ latest = 1
        /\ asset = [r \in Releases |-> [archive |-> 1, checksum |-> 1]]
        /\ kt = [k \in Kts |-> Asleep]
        /\ cache = NoCache /\ clock = 0 /\ since = [t \in 0 .. MaxTime |-> 1]
        /\ honest = TRUE
    BY DEF UpdateInit
  <2>2. 1 \in Releases /\ 0 \in Times /\ MaxTime \in Nat
    BY DEF SelfUpdateConstants, Times
  <2>3. UpdateTypes
    BY <2>1, <2>2, AsleepOwesNothing DEF UpdateTypes, UpdateTypeOK, Whole, Times
  <2>4. ExeIsWhole
    BY <2>1 DEF ExeIsWhole, Whole
  <2>5. TagsAreReleased /\ TempIsItsOwn
    BY <2>1, AsleepOwesNothing DEF TagsAreReleased, TempIsItsOwn
  <2>6. SinceGrows /\ SinceIsPast
    BY <2>1, <2>2 DEF SinceGrows, SinceIsPast, Times
  <2>7. AnswersAreTimely
    BY <2>1, AsleepOwesNothing DEF AnswersAreTimely
  <2> QED BY <2>3, <2>4, <2>5, <2>6, <2>7 DEF UpdateInv
<1>2. UpdateInv /\ [UpdateNext]_updateVars => UpdateInv'
  <2> SUFFICES ASSUME UpdateInv, [UpdateNext]_updateVars PROVE UpdateInv'
    OBVIOUS
  <2>1. CASE publish_release \/ clock_ticks \/ set_back \/ \E r \in Releases : republish(r)
    BY <2>1, WorldStep
  <2>2. ASSUME NEW k \in Kts,
               \/ self_update(k) \/ latest_release_tag(k) \/ download_archive(k)
               \/ verify_checksum(k)
        PROVE  UpdateInv'
    BY <2>2, SelfUpdateStep, TagStep, DownloadStep, ChecksumStep
  <2>3. ASSUME NEW k \in Kts,
               \/ write_replacement(k) \/ make_executable(k) \/ rename(k)
               \/ update_fails(k) \/ killed(k) \/ run_command(k)
        PROVE  UpdateInv'
    BY <2>3, WriteStep, ModeStep, RenameStep, UpdateEndsStep, ManagerStep
  <2>4. ASSUME NEW k \in Kts,
               \/ maybe_notice(k) \/ ask(k) \/ save_cache(k) \/ write_cache(k) \/ notice_given(k)
        PROVE  UpdateInv'
    BY <2>4, NoticeStep, AskStep, SaveStep, WriteCacheStep, ToldStep
  <2>5. CASE UNCHANGED updateVars
    BY <2>5 DEF updateVars, UpdateInv, UpdateTypes, UpdateTypeOK, ExeIsWhole,
                TagsAreReleased, Released, TempIsItsOwn, OwnTemp, SinceGrows, SinceIsPast,
                AnswersAreTimely, Timely
  <2> QED BY <2>1, <2>2, <2>3, <2>4, <2>5 DEF UpdateNext
<1> QED BY <1>1, <1>2, PTL DEF UpdateSpec

-----------------------------------------------------------------------------
(* The theorem.                                                            *)

\* For any number of kt commands, of releases and of failures: the installed
\* executable is whole and of a release at every moment, and a notice names a
\* release newer than the command, which lags less than an interval behind the
\* releases while fetches work and the clock is not set back (rename of the
\* replacement, cache_is_fresh, save_cache).
THEOREM UpdatesAreSafe ==
    ASSUME SelfUpdateConstants
    PROVE  UpdateSpec => []UpdateIsSafe
<1>1. UpdateInv => UpdateIsSafe
  <2> SUFFICES ASSUME UpdateInv PROVE UpdateIsSafe
    OBVIOUS
  <2>1. NoticeIsTimely
    <3> SUFFICES ASSUME NEW k \in Kts, kt[k].at = "told"
                 PROVE  /\ Notice(k, kt[k].tag) # NoTag
                              => Notice(k, kt[k].tag) \in kt[k].version + 1 .. latest
                        /\ honest => kt[k].tag >= since[Horizon(kt[k].now)]
      BY DEF NoticeIsTimely, Horizon
    <3>1. /\ kt[k].version \in Nat /\ kt[k].tag \in Nat /\ latest \in Nat
          /\ kt[k].tag <= latest /\ (honest => kt[k].tag >= since[Horizon(kt[k].now)])
      BY TypesOfCommand, StatesOfCommand, Numbers DEF Checking, Released, Timely
    <3>2. Notice(k, kt[k].tag) # NoTag
             => Notice(k, kt[k].tag) \in kt[k].version + 1 .. latest
      BY <3>1 DEF Notice, is_newer_version
    <3> QED BY <3>1, <3>2
  <2> QED BY <2>1 DEF UpdateInv, UpdateIsSafe
<1> QED BY <1>1, UpdateInvariant, PTL

=============================================================================
