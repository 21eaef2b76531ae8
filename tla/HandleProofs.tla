---------------------------- MODULE HandleProofs ----------------------------
(***************************************************************************)
(* Theorems about ProcessHandles, for any pids the system gives away: the  *)
(* backend calls no living agent gone, no input is torn, and the end of an *)
(* engine spares the detached agents and no other.                         *)
(***************************************************************************)
EXTENDS ProcessHandles, SequenceTheorems, TLAPS

Slots ==
    [who : {"nobody", "agent", "stranger", "zombie"}, start_time : Nat,
     members : BOOLEAN, stopped : BOOLEAN, stuck : BOOLEAN, doomed : BOOLEAN,
     detached : BOOLEAN]

Handles ==
    [child : BOOLEAN, pid : Pids, start_time : Nat, detached : BOOLEAN,
     stdin : {"NoPipe", "Live", "TimedOut"}]

SpawnRecords == [pid : Pids, start_time : Nat, detached : BOOLEAN]

\* Start times are given once, and never before they are counted.
StartTimesAreCounted ==
    \A p \in Pids : table[p].who = "agent" => table[p].start_time \in 1 .. clock

\* A pid and a start time name one agent at most, and whether it is detached.
Names(h) ==
    /\ h.start_time \in 1 .. clock
    /\ \A p \in Pids : AgentIs(h.start_time, p)
                          => p = h.pid /\ table[p].detached = h.detached

HandleNamesAgent == handle # NoHandle => Names(handle)
RecordNamesAgent == record # NoRecord => Names(record)

\* The agent of the handle still runs.
HandleLives == AgentIs(handle.start_time, handle.pid)

\* A call in progress has the handle it was made through, in an open engine.
CallsHoldHandle ==
    /\ engine # "open" => step = "idle" /\ handle = NoHandle
    /\ step \notin {"idle", "dropped"} => handle # NoHandle

\* What each step of a stop or of a drop may rely on: the look before it.
StepsRelyOnLooks ==
    /\ step = "sweep" => ~HandleLives
    /\ step \in {"drop", "drop_wait"} => ~handle.detached
    /\ (step = "dropped" /\ handle # NoHandle)
          => (HandleLives => table[handle.pid].detached \/ table[handle.pid].doomed)

\* An agent whose pipe the engine holds has read whole payloads only.
HeldPipeIsWhole ==
    (handle # NoHandle /\ handle.stdin = "Live" /\ HandleLives)
        => \A i \in 1 .. Len(pipe) : pipe[i] = "whole"

HandleInv ==
    /\ HandleTypeOK
    /\ StartTimesAreCounted /\ HandleNamesAgent /\ RecordNamesAgent
    /\ GoneIsGone /\ CallsHoldHandle /\ StepsRelyOnLooks
    /\ NoTornInput /\ HeldPipeIsWhole

-----------------------------------------------------------------------------
(* What the system may do to the table.                                    *)

\* No agent appears in a slot, and the one in it keeps what names it.
SlotKept(old, new) ==
    new.who = "agent" =>
        /\ old.who = "agent" /\ new.start_time = old.start_time
        /\ new.detached = old.detached /\ (old.doomed => new.doomed)

LEMMA FreeIsFree ==
    Free \in Slots /\ Free.who = "nobody"
  BY DEF Free, Slots

LEMMA DeadIsNoAgent ==
    ASSUME NEW slot \in Slots, NEW waits \in BOOLEAN
    PROVE  Dead(slot, waits) \in Slots /\ Dead(slot, waits).who \in {"nobody", "zombie"}
<1>1. CASE waits \/ slot.members
  <2>1. /\ (IF waits THEN "zombie" ELSE "nobody") \in {"nobody", "zombie"}
        /\ (IF waits THEN slot.start_time ELSE 0) \in Nat
    BY DEF Slots
  <2>2. slot.members \in BOOLEAN
    BY DEF Slots
  <2> QED BY <1>1, <2>1, <2>2 DEF Dead, Free, Slots
<1>2. CASE ~(waits \/ slot.members)
  BY <1>2, FreeIsFree DEF Dead
<1> QED BY <1>1, <1>2

\* A slot's type, and that its own child is a truth value.
LEMMA TypesOfSlot ==
    ASSUME HandleTypeOK, NEW p \in Pids
    PROVE  /\ table \in [Pids -> Slots] /\ table[p] \in Slots
           /\ OwnChild(p) \in BOOLEAN
           /\ handle # NoHandle => handle \in Handles /\ handle.pid \in Pids
           /\ record # NoRecord => record \in SpawnRecords /\ record.pid \in Pids
  BY DEF HandleTypeOK, Slots, OwnChild, Handles, SpawnRecords

\* A killed group's leader is gone, or dies of it when it can.
LEMMA KilledIsDoomed ==
    ASSUME HandleTypeOK, NEW p \in Pids
    PROVE  /\ Killed(p) \in Slots
           /\ SlotKept(table[p], Killed(p))
           /\ Killed(p).who = "agent" => Killed(p).doomed
<1> DEFINE slot == [table[p] EXCEPT !.members = FALSE]
           waits == slot.who = "agent" /\ OwnChild(p)
<1>1. /\ slot \in Slots /\ slot.who = table[p].who
      /\ slot.start_time = table[p].start_time /\ slot.detached = table[p].detached
      /\ waits \in BOOLEAN
  BY TypesOfSlot DEF Slots
<1>2. Killed(p) = IF slot.who \in {"nobody", "zombie"} THEN slot
                  ELSE IF slot.stuck THEN [slot EXCEPT !.doomed = TRUE]
                  ELSE Dead(slot, waits)
  BY DEF Killed
<1>3. /\ Dead(slot, waits) \in Slots
      /\ Dead(slot, waits).who # "agent"
  <2> HIDE DEF slot, waits
  <2> QED BY <1>1, DeadIsNoAgent
<1> HIDE DEF slot, waits
<1>4. CASE slot.who \in {"nobody", "zombie"}
  BY <1>1, <1>2, <1>4 DEF SlotKept
<1>5. CASE slot.who \notin {"nobody", "zombie"} /\ slot.stuck
  <2>1. Killed(p) = [slot EXCEPT !.doomed = TRUE]
    BY <1>2, <1>5
  <2>2. /\ Killed(p) \in Slots /\ Killed(p).doomed /\ Killed(p).who = slot.who
        /\ Killed(p).start_time = slot.start_time /\ Killed(p).detached = slot.detached
    BY <1>1, <2>1 DEF Slots
  <2> QED BY <1>1, <2>2 DEF SlotKept
<1>6. CASE slot.who \notin {"nobody", "zombie"} /\ ~slot.stuck
  BY <1>2, <1>3, <1>6 DEF SlotKept
<1> QED BY <1>4, <1>5, <1>6

\* SIGTERM ends whom it ends, and changes nobody's name.
LEMMA TerminatedIsKept ==
    ASSUME HandleTypeOK, NEW p \in Pids, NEW slot \in Terminated(p)
    PROVE  slot \in Slots /\ SlotKept(table[p], slot)
<1> DEFINE alone == [table[p] EXCEPT !.members = FALSE]
<1>1. /\ table[p] \in Slots /\ alone \in Slots
      /\ SlotKept(table[p], table[p]) /\ SlotKept(table[p], alone)
  BY TypesOfSlot DEF Slots, SlotKept
<1>2. ASSUME NEW s \in {table[p], alone}
      PROVE  LET d == Dead(s, s.who = "agent" /\ OwnChild(p))
             IN  d \in Slots /\ d.who # "agent"
  <2>1. s \in Slots /\ (s.who = "agent" /\ OwnChild(p)) \in BOOLEAN
    BY <1>1
  <2> QED BY <2>1, DeadIsNoAgent
<1>3. slot \in {table[p], alone}
         \/ \E s \in {table[p], alone} : slot = Dead(s, s.who = "agent" /\ OwnChild(p))
  BY DEF Terminated
<1> HIDE DEF alone
<1>4. CASE slot \in {table[p], alone}
  BY <1>1, <1>4
<1>5. ASSUME NEW s \in {table[p], alone}, slot = Dead(s, s.who = "agent" /\ OwnChild(p))
      PROVE  slot \in Slots /\ SlotKept(table[p], slot)
  BY <1>2, <1>5 DEF SlotKept
<1> QED BY <1>3, <1>4, <1>5

\* A table in which nobody appears.
TableKept(t) ==
    t \in [Pids -> Slots] /\ \A p \in Pids : SlotKept(table[p], t[p])

\* Any one slot may be kept, and the rest untouched.
LEMMA OneSlotKept ==
    ASSUME HandleTypeOK, NEW p \in Pids, NEW slot \in Slots, SlotKept(table[p], slot)
    PROVE  TableKept([table EXCEPT ![p] = slot]) /\ TableKept(table)
  BY TypesOfSlot DEF TableKept, SlotKept

LEMMA ReapedIsKept ==
    ASSUME HandleTypeOK, handle # NoHandle
    PROVE  TableKept(Reaped)
<1>1. handle.pid \in Pids
  BY TypesOfSlot DEF HandleTypeOK
<1>2. /\ Dead(table[handle.pid], FALSE) \in Slots
      /\ Dead(table[handle.pid], FALSE).who # "agent"
  BY <1>1, TypesOfSlot, DeadIsNoAgent
<1>3. Reaped = [table EXCEPT ![handle.pid] = Dead(table[handle.pid], FALSE)]
         \/ Reaped = table
  BY DEF Reaped
<1> QED BY <1>1, <1>2, <1>3, OneSlotKept DEF SlotKept

\* What was said of agents stays true while nobody appears, and when a start
\* time is given to a stranger.
LEMMA NamesAreKept ==
    ASSUME HandleTypeOK, StartTimesAreCounted, TableKept(table'),
           clock' \in Nat, clock <= clock'
    PROVE  /\ StartTimesAreCounted'
           /\ \A h : Names(h) => Names(h)'
           /\ \A t : \A p \in Pids :
                 AgentIs(t, p)' => /\ AgentIs(t, p)
                                   /\ table'[p].detached = table[p].detached
                                   /\ table[p].doomed => table'[p].doomed
           /\ \A t : ~AgentLives(t) => ~AgentLives(t)'
<1>1. clock \in Nat
  BY DEF HandleTypeOK
<1>2. \A t : \A p \in Pids :
         AgentIs(t, p)' => /\ AgentIs(t, p)
                           /\ table'[p].detached = table[p].detached
                           /\ table[p].doomed => table'[p].doomed
  BY DEF TableKept, SlotKept, AgentIs
<1>3. StartTimesAreCounted'
  BY <1>1 DEF TableKept, SlotKept, StartTimesAreCounted
<1>4. \A t : ~AgentLives(t) => ~AgentLives(t)'
  BY <1>2 DEF AgentLives
<1>5. ASSUME NEW h, Names(h) PROVE Names(h)'
  <2>1. h.start_time \in 1 .. clock'
    BY <1>1, <1>5 DEF Names
  <2>2. ASSUME NEW p \in Pids, AgentIs(h.start_time, p)'
        PROVE  p = h.pid /\ table'[p].detached = h.detached
    BY <1>2, <1>5, <2>2 DEF Names
  <2> QED BY <2>1, <2>2 DEF Names
<1> QED BY <1>2, <1>3, <1>4, <1>5

-----------------------------------------------------------------------------
(* The calls.                                                              *)

Steps == {"idle", "term", "window", "sweep", "kill", "confirm", "pause", "resume",
          "write", "drop", "drop_wait", "dropped"}

\* A look that says exited is right: the child was not there to wait for, the
\* pid is nobody's, or it shows another start time.
LEMMA ALookIsRight ==
    ASSUME HandleTypeOK, handle # NoHandle, NEW fails \in BOOLEAN,
           reap_if_exited(fails)
    PROVE  ~HandleLives
<1>1. CASE handle.child
  BY <1>1 DEF reap_if_exited, HandleLives
<1>2. CASE ~handle.child /\ ~pid_is_alive(handle.pid)
  BY <1>2 DEF HandleLives, pid_is_alive, Lives, AgentIs
<1>3. CASE ~handle.child /\ table[handle.pid].start_time # handle.start_time
  BY <1>3 DEF HandleLives, AgentIs
<1> QED BY <1>1, <1>2, <1>3 DEF reap_if_exited

\* The agent of a handle lives nowhere but at the handle's pid.
LEMMA NotAtItsPid ==
    ASSUME HandleInv, handle # NoHandle, ~HandleLives
    PROVE  ~AgentLives(handle.start_time)
  BY DEF HandleInv, HandleNamesAgent, Names, HandleLives, AgentLives

\* What a step may be, and what it must be able to rely on.
StepIsGrounded(s) ==
    \/ s = step /\ s # "dropped"
    \/ s = "idle"
    \/ /\ s \in Steps /\ engine = "open"
       /\ s # "dropped" => handle # NoHandle
       /\ s = "sweep" => ~HandleLives
       /\ s \in {"drop", "drop_wait"} => ~handle.detached
       /\ (s = "dropped" /\ handle # NoHandle)
             => (HandleLives' => table'[handle.pid].detached \/ table'[handle.pid].doomed)

\* A call that goes on to a step, with its handle.
LEMMA CallKeepsInvariant ==
    ASSUME HandleInv, TableKept(table'), clock' \in Nat, clock <= clock',
           StepIsGrounded(step'), harmed' \in BOOLEAN,
           UNCHANGED <<record, engine, handle, reported, pipe, writer>>
    PROVE  HandleInv'
<1>1. /\ HandleTypeOK /\ StartTimesAreCounted /\ HandleNamesAgent /\ RecordNamesAgent
      /\ GoneIsGone /\ CallsHoldHandle /\ StepsRelyOnLooks /\ NoTornInput /\ HeldPipeIsWhole
  BY DEF HandleInv
<1>2. /\ StartTimesAreCounted'
      /\ \A h : Names(h) => Names(h)'
      /\ \A t : \A p \in Pids :
            AgentIs(t, p)' => /\ AgentIs(t, p)
                              /\ table'[p].detached = table[p].detached
                              /\ table[p].doomed => table'[p].doomed
      /\ \A t : ~AgentLives(t) => ~AgentLives(t)'
  BY <1>1, NamesAreKept
<1>3. handle # NoHandle => handle.pid \in Pids
  BY <1>1 DEF HandleTypeOK
<1>4. handle # NoHandle => (HandleLives' => HandleLives)
  BY <1>2, <1>3 DEF HandleLives, AgentIs
<1>5. HandleTypeOK'
  <2>1. step' \in Steps
    BY <1>1 DEF StepIsGrounded, HandleTypeOK, Steps
  <2>2. reported' \subseteq 1 .. clock'
    BY <1>1 DEF HandleTypeOK
  <2> QED BY <1>1, <2>1, <2>2 DEF HandleTypeOK, TableKept, Slots, Steps
<1>6. HandleNamesAgent' /\ RecordNamesAgent'
  BY <1>1, <1>2 DEF HandleNamesAgent, RecordNamesAgent, Names, AgentIs
<1>7. GoneIsGone'
  BY <1>1, <1>2 DEF GoneIsGone
<1>8. CallsHoldHandle'
  BY <1>1 DEF StepIsGrounded, CallsHoldHandle
<1>9. StepsRelyOnLooks'
  <2>1. CASE step' = step /\ step' # "dropped"
    BY <1>1, <1>4, <2>1 DEF StepsRelyOnLooks, CallsHoldHandle
  <2>2. CASE step' = "idle"
    BY <2>2 DEF StepsRelyOnLooks
  <2>3. CASE ~(step' = step /\ step' # "dropped") /\ step' # "idle"
    BY <1>4, <2>3 DEF StepIsGrounded, StepsRelyOnLooks
  <2> QED BY <2>1, <2>2, <2>3
<1>10. NoTornInput' /\ HeldPipeIsWhole'
  BY <1>1, <1>4 DEF NoTornInput, HeldPipeIsWhole
<1> QED BY <1>2, <1>5, <1>6, <1>7, <1>8, <1>9, <1>10 DEF HandleInv

\* The agent is forgotten: a look said that it is gone.
LEMMA ForgettingKeepsInvariant ==
    ASSUME HandleInv, handle # NoHandle, ~HandleLives, Forget,
           TableKept(table'), step' = "idle", harmed' \in BOOLEAN,
           UNCHANGED <<clock, engine, pipe, writer>>
    PROVE  HandleInv'
<1>1. /\ HandleTypeOK /\ StartTimesAreCounted /\ HandleNamesAgent /\ RecordNamesAgent
      /\ GoneIsGone /\ CallsHoldHandle /\ NoTornInput
  BY DEF HandleInv
<1>2. /\ reported' = reported \cup {handle.start_time}
      /\ handle' = NoHandle /\ record' = NoRecord
  BY DEF Forget
<1>3. clock \in Nat /\ handle.start_time \in 1 .. clock
  BY <1>1 DEF HandleNamesAgent, Names, HandleTypeOK
<1>4. StartTimesAreCounted' /\ \A t : ~AgentLives(t) => ~AgentLives(t)'
  BY <1>1, <1>3, NamesAreKept
<1>5. HandleTypeOK'
  BY <1>1, <1>2, <1>3 DEF HandleTypeOK, TableKept, Slots
<1>6. GoneIsGone'
  BY <1>1, <1>2, <1>4, NotAtItsPid DEF GoneIsGone
<1>7. CallsHoldHandle'
  BY <1>2 DEF CallsHoldHandle
<1> QED BY <1>1, <1>2, <1>4, <1>5, <1>6, <1>7
        DEF HandleInv, HandleNamesAgent, RecordNamesAgent, StepsRelyOnLooks, NoTornInput,
            HeldPipeIsWhole

\* The signal to a group, and the slot it leaves.
LEMMA SignalKeeps ==
    ASSUME HandleTypeOK, handle # NoHandle, NEW slots,
           \A slot \in slots : slot \in Slots /\ SlotKept(table[handle.pid], slot),
           signal_group(slots)
    PROVE  /\ TableKept(table') /\ harmed' \in BOOLEAN
           /\ \E slot \in slots : table'[handle.pid] = slot
<1>1. handle.pid \in Pids /\ table \in [Pids -> Slots]
  BY TypesOfSlot DEF HandleTypeOK
<1>2. PICK slot \in slots : table' = [table EXCEPT ![handle.pid] = slot]
  BY DEF signal_group
<1>3. TableKept(table')
  BY <1>1, <1>2, OneSlotKept
<1>4. harmed' \in BOOLEAN
  BY DEF signal_group
<1>5. table'[handle.pid] = slot
  BY <1>1, <1>2
<1> QED BY <1>3, <1>4, <1>5

\* A step that stays is as grounded as it was.
LEMMA StayingIsGrounded ==
    ASSUME HandleInv, TableKept(table'), UNCHANGED <<handle, step>>,
           clock' \in Nat, clock <= clock'
    PROVE  StepIsGrounded(step')
<1>1. CASE step # "dropped"
  BY <1>1 DEF StepIsGrounded
<1>2. CASE step = "dropped"
  <2>1. engine = "open" /\ step \in Steps
    BY <1>2 DEF HandleInv, CallsHoldHandle, Steps
  <2>2. ASSUME handle # NoHandle, HandleLives'
        PROVE  table'[handle.pid].detached \/ table'[handle.pid].doomed
    <3>1. handle.pid \in Pids
      BY <2>2 DEF HandleInv, HandleTypeOK
    <3>2. /\ HandleLives /\ table'[handle.pid].detached = table[handle.pid].detached
          /\ table[handle.pid].doomed => table'[handle.pid].doomed
      BY <2>2, <3>1, NamesAreKept DEF HandleInv, HandleLives, AgentIs
    <3> QED BY <1>2, <2>2, <3>2 DEF HandleInv, StepsRelyOnLooks
  <2> QED BY <1>2, <2>1, <2>2 DEF StepIsGrounded
<1> QED BY <1>1, <1>2

LEMMA InvTypes ==
    ASSUME HandleInv
    PROVE  /\ HandleTypeOK /\ clock \in Nat /\ clock <= clock /\ harmed \in BOOLEAN
           /\ TableKept(table)
           /\ handle # NoHandle => handle \in Handles /\ handle.pid \in Pids
           /\ step \notin {"idle", "dropped"} => handle # NoHandle
           /\ step # "idle" => engine = "open"
  BY TypesOfSlot DEF HandleInv, HandleTypeOK, TableKept, SlotKept, CallsHoldHandle, Handles,
                     Slots

LEMMA PollStep == ASSUME HandleInv, poll PROVE HandleInv'
<1>1. PICK exited \in BOOLEAN, fails \in BOOLEAN :
         /\ exited = reap_if_exited(fails)
         /\ IF exited THEN Forget ELSE UNCHANGED <<reported, handle, record>>
  BY DEF poll, Look, Looks
<1>2. /\ handle # NoHandle /\ step = "idle" /\ TableKept(table')
      /\ UNCHANGED <<clock, engine, step, harmed, pipe, writer>>
  BY InvTypes, ReapedIsKept DEF poll, Ready
<1>3. CASE exited
  BY <1>1, <1>2, <1>3, InvTypes, ALookIsRight, ForgettingKeepsInvariant
<1>4. CASE ~exited
  BY <1>1, <1>2, <1>4, InvTypes, CallKeepsInvariant DEF StepIsGrounded
<1> QED BY <1>3, <1>4

LEMMA StopStep == ASSUME HandleInv, stop PROVE HandleInv'
<1>1. PICK exited \in BOOLEAN, fails \in BOOLEAN :
         /\ exited = reap_if_exited(fails)
         /\ IF exited THEN Forget /\ UNCHANGED step
            ELSE step' = "term" /\ UNCHANGED <<reported, handle, record>>
  BY DEF stop, Looks
<1>2. /\ engine = "open" /\ handle # NoHandle /\ step = "idle" /\ TableKept(table')
      /\ UNCHANGED <<clock, engine, harmed, pipe, writer>>
  BY InvTypes, ReapedIsKept DEF stop, Ready
<1>3. CASE exited
  BY <1>1, <1>2, <1>3, InvTypes, ALookIsRight, ForgettingKeepsInvariant
<1>4. CASE ~exited
  BY <1>1, <1>2, <1>4, InvTypes, CallKeepsInvariant DEF StepIsGrounded, Steps
<1> QED BY <1>3, <1>4

\* SIGTERM, SIGKILL, SIGSTOP and SIGCONT change nobody's name.
LEMMA SignalStep ==
    ASSUME HandleInv, stop_term \/ stop_kill \/ control_signal PROVE HandleInv'
<1>1. /\ HandleTypeOK /\ handle # NoHandle /\ engine = "open" /\ handle.pid \in Pids
      /\ table[handle.pid] \in Slots
  BY InvTypes, TypesOfSlot DEF stop_term, stop_kill, control_signal
<1>2. CASE stop_term
  <2>1. /\ TableKept(table') /\ harmed' \in BOOLEAN
    BY <1>1, <1>2, TerminatedIsKept, SignalKeeps DEF stop_term
  <2> QED BY <1>1, <1>2, <2>1, InvTypes, CallKeepsInvariant DEF stop_term, StepIsGrounded, Steps
<1>3. CASE stop_kill
  <2>1. /\ TableKept(table') /\ harmed' \in BOOLEAN
    BY <1>1, <1>3, KilledIsDoomed, SignalKeeps DEF stop_kill
  <2> QED BY <1>1, <1>3, <2>1, InvTypes, CallKeepsInvariant DEF stop_kill, StepIsGrounded, Steps
<1>4. CASE control_signal
  <2> DEFINE now  == Lives(handle.pid) /\ step = "pause"
             slot == [table[handle.pid] EXCEPT !.stopped = now]
  <2>1. slot \in Slots /\ SlotKept(table[handle.pid], slot)
    <3>1. now \in BOOLEAN
      OBVIOUS
    <3> HIDE DEF now
    <3> QED BY <1>1, <3>1 DEF Slots, SlotKept
  <2>2. signal_group({slot})
    BY <1>4 DEF control_signal
  <2> HIDE DEF slot
  <2>3. /\ TableKept(table') /\ harmed' \in BOOLEAN
    BY <1>1, <2>1, <2>2, SignalKeeps
  <2> QED BY <1>1, <1>4, <2>3, InvTypes, CallKeepsInvariant DEF control_signal, StepIsGrounded
<1> QED BY <1>2, <1>3, <1>4

\* Within the window, or past it.
LEMMA WindowStep ==
    ASSUME HandleInv, stop_exited \/ stop_window_ends \/ stop_unconfirmed
    PROVE  HandleInv'
<1>1. HandleTypeOK /\ handle # NoHandle /\ engine = "open" /\ TableKept(table')
  BY InvTypes, ReapedIsKept DEF stop_exited, stop_window_ends, stop_unconfirmed
<1>2. CASE stop_exited
  <2>1. ~HandleLives
    BY <1>1, <1>2, ALookIsRight DEF stop_exited, Look, Looks
  <2> QED BY <1>1, <1>2, <2>1, InvTypes, CallKeepsInvariant DEF stop_exited, StepIsGrounded, Steps
<1>3. CASE stop_window_ends \/ stop_unconfirmed
  BY <1>1, <1>3, InvTypes, CallKeepsInvariant
     DEF stop_window_ends, stop_unconfirmed, StepIsGrounded, Steps
<1> QED BY <1>2, <1>3

LEMMA SweepStep == ASSUME HandleInv, stop_sweep PROVE HandleInv'
<1>1. HandleTypeOK /\ handle # NoHandle /\ handle.pid \in Pids /\ ~HandleLives
  BY InvTypes DEF stop_sweep, HandleInv, StepsRelyOnLooks
<1>2. TableKept(table') /\ harmed' \in BOOLEAN
  BY <1>1, KilledIsDoomed, SignalKeeps DEF stop_sweep
<1> QED BY <1>1, <1>2, ForgettingKeepsInvariant DEF stop_sweep

LEMMA ConfirmStep == ASSUME HandleInv, confirm_death PROVE HandleInv'
<1>1. HandleTypeOK /\ handle # NoHandle /\ TableKept(table') /\ harmed' \in BOOLEAN
  BY InvTypes, ReapedIsKept DEF confirm_death
<1>2. ~HandleLives
  BY <1>1, ALookIsRight DEF confirm_death, Look, Looks
<1> QED BY <1>1, <1>2, ForgettingKeepsInvariant DEF confirm_death

LEMMA ControlStep ==
    ASSUME HandleInv, NEW asked \in {"pause", "resume"}, control(asked)
    PROVE  HandleInv'
<1>1. /\ HandleTypeOK /\ handle # NoHandle /\ engine = "open" /\ TableKept(table')
      /\ step' \in {"idle", asked}
      /\ UNCHANGED <<clock, record, engine, handle, reported, harmed, pipe, writer>>
  BY InvTypes, ReapedIsKept DEF control, Ready
<1> QED BY <1>1, InvTypes, CallKeepsInvariant DEF StepIsGrounded, Steps

-----------------------------------------------------------------------------
(* The end of an engine.                                                   *)

\* A drop goes on only with a handle that is not detached.
LEMMA CloseStep == ASSUME HandleInv, close PROVE HandleInv'
<1>1. /\ HandleTypeOK /\ engine = "open"
      /\ UNCHANGED <<clock, record, engine, handle, reported, harmed, pipe, writer>>
  BY InvTypes DEF close
<1>2. TableKept(table')
  BY <1>1, InvTypes, ReapedIsKept DEF close
<1>3. ASSUME handle # NoHandle
      PROVE  HandleLives' => HandleLives /\ table'[handle.pid].detached = handle.detached
  <2>1. handle.pid \in Pids
    BY <1>3, InvTypes
  <2>2. HandleLives' => /\ HandleLives
                        /\ table'[handle.pid].detached = table[handle.pid].detached
    BY <1>1, <1>2, <2>1, InvTypes, NamesAreKept DEF HandleInv, HandleLives, AgentIs
  <2>3. HandleLives => table[handle.pid].detached = handle.detached
    BY <1>3, <2>1 DEF HandleInv, HandleNamesAgent, Names, HandleLives
  <2> QED BY <2>2, <2>3
<1>4. StepIsGrounded(step')
  <2>1. CASE handle = NoHandle \/ handle.detached
    <3>1. step' = "dropped"
      BY <2>1 DEF close
    <3> QED BY <1>1, <1>3, <2>1, <3>1 DEF StepIsGrounded, Steps
  <2>2. CASE ~(handle = NoHandle \/ handle.detached)
    <3>1. PICK exited \in BOOLEAN, fails \in BOOLEAN :
             /\ exited = reap_if_exited(fails)
             /\ step' = IF exited THEN "dropped" ELSE "drop"
      BY <2>2 DEF close, Look, Looks
    <3>2. CASE exited
      <4>1. ~HandleLives
        BY <1>1, <2>2, <3>1, <3>2, ALookIsRight
      <4> QED BY <1>1, <1>3, <2>2, <3>1, <3>2, <4>1 DEF StepIsGrounded, Steps
    <3>3. CASE ~exited
      BY <1>1, <2>2, <3>1, <3>3 DEF StepIsGrounded, Steps
    <3> QED BY <3>2, <3>3
  <2> QED BY <2>1, <2>2
<1> QED BY <1>1, <1>2, <1>4, InvTypes, CallKeepsInvariant

LEMMA DropStep == ASSUME HandleInv, drop_kill \/ drop_wait PROVE HandleInv'
<1>1. /\ HandleTypeOK /\ handle # NoHandle /\ engine = "open" /\ handle.pid \in Pids
      /\ ~handle.detached
      /\ UNCHANGED <<clock, record, engine, handle, reported, pipe, writer>>
  BY InvTypes DEF drop_kill, drop_wait, HandleInv, StepsRelyOnLooks
<1>2. CASE drop_kill
  <2>1. /\ TableKept(table') /\ harmed' \in BOOLEAN
        /\ table'[handle.pid] = Killed(handle.pid)
    BY <1>1, <1>2, KilledIsDoomed, SignalKeeps DEF drop_kill
  <2>2. HandleLives' => table'[handle.pid].doomed
    BY <1>1, <2>1, KilledIsDoomed DEF HandleLives, AgentIs
  <2>3. StepIsGrounded(step')
    BY <1>1, <1>2, <2>2 DEF drop_kill, StepIsGrounded, Steps
  <2> QED BY <1>1, <2>1, <2>3, InvTypes, CallKeepsInvariant
<1>3. CASE drop_wait
  <2>1. TableKept(table') /\ harmed' \in BOOLEAN /\ step' = "dropped"
    BY <1>1, <1>3, InvTypes, ReapedIsKept DEF drop_wait
  <2>2. ~HandleLives
    BY <1>3 DEF drop_wait, Zombie, HandleLives, AgentIs
  <2>3. ~HandleLives'
    BY <1>1, <2>1, <2>2, InvTypes, NamesAreKept DEF HandleInv, HandleLives, AgentIs
  <2>4. StepIsGrounded(step')
    BY <1>1, <2>1, <2>3 DEF StepIsGrounded, Steps
  <2> QED BY <1>1, <2>1, <2>4, InvTypes, CallKeepsInvariant
<1> QED BY <1>2, <1>3

\* An engine that has ended holds nothing; what it recorded still names its agent.
LEMMA EndedStep == ASSUME HandleInv, closed \/ crash PROVE HandleInv'
<1>1. PICK how \in {"closed", "crashed"} : Ended(how)
  BY DEF closed, crash
<1>2. /\ engine' = how /\ step' = "idle" /\ handle' = NoHandle
      /\ table' = Orphaned /\ writer' = FALSE
      /\ UNCHANGED <<clock, record, reported, harmed, pipe>>
  BY <1>1 DEF Ended
<1>3. TableKept(table')
  <2> SUFFICES ASSUME NEW p \in Pids
               PROVE  /\ (IF Zombie(p) THEN Dead(table[p], FALSE) ELSE table[p]) \in Slots
                      /\ SlotKept(table[p], IF Zombie(p) THEN Dead(table[p], FALSE)
                                            ELSE table[p])
    BY <1>2 DEF TableKept, Orphaned
  <2>1. table[p] \in Slots /\ Dead(table[p], FALSE) \in Slots
        /\ Dead(table[p], FALSE).who # "agent"
    BY InvTypes, TypesOfSlot, DeadIsNoAgent
  <2> QED BY <2>1 DEF SlotKept
<1>4. /\ StartTimesAreCounted'
      /\ \A h : Names(h) => Names(h)'
      /\ \A t : ~AgentLives(t) => ~AgentLives(t)'
  BY <1>2, <1>3, InvTypes, NamesAreKept DEF HandleInv
<1>5. HandleTypeOK'
  BY <1>2, <1>3 DEF HandleInv, HandleTypeOK, TableKept, Slots
<1>6. RecordNamesAgent'
  BY <1>2, <1>4 DEF HandleInv, RecordNamesAgent, Names, AgentIs
<1>7. GoneIsGone'
  BY <1>2, <1>4 DEF HandleInv, GoneIsGone
<1> QED BY <1>2, <1>4, <1>5, <1>6, <1>7
        DEF HandleInv, HandleNamesAgent, CallsHoldHandle, StepsRelyOnLooks, NoTornInput,
            HeldPipeIsWhole

-----------------------------------------------------------------------------
(* spawn and adopt.                                                        *)

\* The agent spawned has a start time nobody had before.
LEMMA SpawnStep ==
    ASSUME HandleInv, NEW p \in Pids, NEW detach \in BOOLEAN, NEW pipe_stdin \in BOOLEAN,
           spawn(p, detach, pipe_stdin)
    PROVE  HandleInv'
<1> DEFINE new == [Free EXCEPT !.who = "agent", !.start_time = clock + 1,
                               !.detached = detach]
           h   == [child |-> TRUE, pid |-> p, start_time |-> clock + 1,
                   detached |-> detach,
                   stdin |-> IF pipe_stdin THEN "Live" ELSE "NoPipe"]
           r   == [pid |-> p, start_time |-> clock + 1, detached |-> detach]
<1>1. /\ engine = "open" /\ step = "idle" /\ clock' = clock + 1
      /\ table' = [table EXCEPT ![p] = new] /\ handle' = h /\ record' = r
      /\ pipe' = << >> /\ writer' = FALSE
      /\ UNCHANGED <<engine, step, reported, harmed>>
  BY DEF spawn
<1>2. /\ clock \in Nat /\ clock + 1 \in Nat /\ table \in [Pids -> Slots]
      /\ reported \subseteq 1 .. clock
  BY InvTypes, TypesOfSlot DEF HandleInv, HandleTypeOK, Slots
<1>3. /\ new \in Slots /\ new.who = "agent" /\ new.start_time = clock + 1
      /\ new.detached = detach
  BY <1>2, FreeIsFree DEF Slots, Free
<1>4. /\ h \in Handles /\ h.start_time = clock + 1 /\ h.pid = p /\ h.detached = detach
      /\ r \in SpawnRecords /\ r.start_time = clock + 1 /\ r.pid = p /\ r.detached = detach
  BY <1>2 DEF Handles, SpawnRecords
<1> HIDE DEF new, h, r
<1>5. /\ table' \in [Pids -> Slots] /\ table'[p] = new
      /\ \A q \in Pids \ {p} : table'[q] = table[q]
  BY <1>1, <1>2, <1>3
<1>6. \A q \in Pids : table[q].who = "agent" => table[q].start_time \in 1 .. clock
  BY DEF HandleInv, StartTimesAreCounted
<1>7. HandleTypeOK'
  <2>1. handle' \in {NoHandle} \cup Handles /\ record' \in {NoRecord} \cup SpawnRecords
    BY <1>1, <1>4
  <2>2. reported' \subseteq 1 .. clock' /\ clock' \in Nat
    BY <1>1, <1>2
  <2>3. pipe' \in Seq({"whole", "part"}) /\ writer' \in BOOLEAN
    <3>1. << >> \in Seq({"whole", "part"})
      OBVIOUS
    <3>2. FALSE \in BOOLEAN
      OBVIOUS
    <3> QED BY <1>1, <3>1, <3>2
  <2> QED BY <1>1, <1>5, <2>1, <2>2, <2>3
          DEF HandleInv, HandleTypeOK, Slots, Handles, SpawnRecords
<1>8. StartTimesAreCounted'
  BY <1>1, <1>2, <1>3, <1>5, <1>6 DEF StartTimesAreCounted
<1>9. ASSUME NEW q \in Pids, table'[q].who = "agent", table'[q].start_time = clock + 1
      PROVE  q = p /\ table'[q].detached = detach
  <2>1. q = p
    <3> SUFFICES ASSUME q # p PROVE FALSE
      OBVIOUS
    <3>1. table[q].who = "agent" /\ table[q].start_time = clock + 1
      BY <1>5, <1>9
    <3>2. clock + 1 \in 1 .. clock
      BY <1>6, <3>1
    <3> QED BY <1>2, <3>2
  <2>2. table'[q].detached = detach
    BY <1>3, <1>5, <2>1
  <2> QED BY <2>1, <2>2
<1>10. HandleNamesAgent' /\ RecordNamesAgent'
  <2>1. clock + 1 \in 1 .. clock'
    BY <1>1, <1>2
  <2>2. /\ handle'.start_time = clock + 1 /\ handle'.pid = p /\ handle'.detached = detach
        /\ record'.start_time = clock + 1 /\ record'.pid = p /\ record'.detached = detach
    BY <1>1, <1>4
  <2>3. Names(handle)'
    BY <1>9, <2>1, <2>2 DEF Names, AgentIs
  <2>4. Names(record)'
    BY <1>9, <2>1, <2>2 DEF Names, AgentIs
  <2> QED BY <2>3, <2>4 DEF HandleNamesAgent, RecordNamesAgent
<1>11. GoneIsGone'
  <2> SUFFICES ASSUME NEW t \in reported, NEW q \in Pids, AgentIs(t, q)'
               PROVE  FALSE
    BY <1>1 DEF GoneIsGone, AgentLives, AgentIs
  <2>1. t # clock + 1 /\ ~AgentIs(t, q)
    BY <1>2 DEF HandleInv, GoneIsGone, AgentLives
  <2> QED BY <1>3, <1>5, <2>1 DEF AgentIs
<1>12. NoTornInput' /\ HeldPipeIsWhole'
  BY <1>1 DEF NoTornInput, HeldPipeIsWhole
<1> QED BY <1>1, <1>7, <1>8, <1>10, <1>11, <1>12
        DEF HandleInv, CallsHoldHandle, StepsRelyOnLooks

LEMMA UnverifiedStep == ASSUME HandleInv, spawn_unverified PROVE HandleInv'
<1>1. /\ clock' = clock + 1
      /\ UNCHANGED <<table, record, engine, handle, step, reported, harmed, pipe, writer>>
  BY DEF spawn_unverified
<1>2. /\ clock' \in Nat /\ clock <= clock' /\ TableKept(table')
  BY <1>1, InvTypes
<1> QED BY <1>1, <1>2, InvTypes, StayingIsGrounded, CallKeepsInvariant

\* An adopted handle names what the record named.
LEMMA OpenStep == ASSUME HandleInv, open PROVE HandleInv'
<1> DEFINE h == [child |-> FALSE, pid |-> record.pid, start_time |-> record.start_time,
                 detached |-> record.detached, stdin |-> "NoPipe"]
<1>1. /\ engine # "open" /\ engine' = "open"
      /\ \/ record # NoRecord /\ handle' = h /\ record' = record
         \/ record' = NoRecord /\ handle' = handle
      /\ UNCHANGED <<table, clock, step, reported, harmed, pipe, writer>>
  BY DEF open, adopt
<1>2. step = "idle" /\ handle = NoHandle
  BY <1>1 DEF HandleInv, CallsHoldHandle
<1>3. ASSUME record # NoRecord
      PROVE  /\ h \in Handles /\ h.stdin = "NoPipe" /\ Names(h)
  <2>1. record \in SpawnRecords
    BY <1>3, InvTypes, TypesOfSlot DEF HandleInv, HandleTypeOK
  <2>2. /\ h \in Handles /\ h.stdin = "NoPipe" /\ h.pid = record.pid
        /\ h.start_time = record.start_time /\ h.detached = record.detached
    BY <2>1 DEF SpawnRecords, Handles
  <2>3. Names(record)
    BY <1>3 DEF HandleInv, RecordNamesAgent
  <2> HIDE DEF h
  <2> QED BY <2>2, <2>3 DEF Names
<1> HIDE DEF h
<1>4. HandleTypeOK'
  BY <1>1, <1>3 DEF HandleInv, HandleTypeOK, Handles
<1>5. HandleNamesAgent' /\ RecordNamesAgent'
  BY <1>1, <1>2, <1>3 DEF HandleInv, HandleNamesAgent, RecordNamesAgent, Names, AgentIs
<1>6. HeldPipeIsWhole'
  BY <1>1, <1>2, <1>3 DEF HeldPipeIsWhole
<1> QED BY <1>1, <1>2, <1>4, <1>5, <1>6
        DEF HandleInv, StartTimesAreCounted, GoneIsGone, AgentLives, AgentIs,
            CallsHoldHandle, StepsRelyOnLooks, NoTornInput

-----------------------------------------------------------------------------
(* send_input.                                                             *)

\* What a call on the pipe leaves alone.
LEMMA InputKeepsRest ==
    ASSUME HandleInv, handle # NoHandle, NEW how \in {"Live", "TimedOut"},
           handle' = [handle EXCEPT !.stdin = how], writer' \in BOOLEAN,
           pipe' \in Seq({"whole", "part"}),
           step' = "idle" \/ (step' = "write" /\ engine = "open"),
           UNCHANGED <<table, clock, record, engine, reported, harmed>>,
           NoTornInput', HeldPipeIsWhole'
    PROVE  HandleInv'
<1>1. handle \in Handles
  BY InvTypes
<1>2. /\ handle' \in Handles /\ handle'.pid = handle.pid
      /\ handle'.start_time = handle.start_time /\ handle'.detached = handle.detached
  BY <1>1 DEF Handles
<1>3. HandleTypeOK'
  BY <1>2 DEF HandleInv, HandleTypeOK, Handles
<1>4. handle' # NoHandle
  BY <1>2 DEF Handles, NoHandle
<1>5. HandleNamesAgent' /\ RecordNamesAgent'
  BY <1>2 DEF HandleInv, HandleNamesAgent, RecordNamesAgent, Names, AgentIs
<1> QED BY <1>3, <1>4, <1>5
        DEF HandleInv, StartTimesAreCounted, GoneIsGone, AgentLives, AgentIs,
            CallsHoldHandle, StepsRelyOnLooks

\* The last payload written to its end, or nothing to write.
LEMMA WroteIsWhole ==
    ASSUME HandleInv
    PROVE  /\ Wrote \in Seq({"whole", "part"})
           /\ \A i \in 1 .. Len(Wrote) : Wrote[i] = "whole"
<1>1. /\ pipe \in Seq({"whole", "part"}) /\ Len(pipe) \in Nat
      /\ DOMAIN pipe = 1 .. Len(pipe)
  BY DEF HandleInv, HandleTypeOK
<1>2. CASE Len(pipe) = 0
  <2>1. Wrote = pipe
    BY <1>1, <1>2 DEF Wrote
  <2> QED BY <1>1, <1>2, <2>1
<1>3. CASE Len(pipe) # 0
  <2>1. Len(pipe) \in 1 .. Len(pipe)
    BY <1>1, <1>3
  <2>2. /\ Wrote \in Seq({"whole", "part"}) /\ Len(Wrote) = Len(pipe)
        /\ \A i \in 1 .. Len(pipe) :
              Wrote[i] = IF i = Len(pipe) THEN "whole" ELSE pipe[i]
    BY <1>1, <2>1, ExceptSeq DEF Wrote
  <2>3. ASSUME NEW i \in 1 .. Len(pipe), i # Len(pipe) PROVE pipe[i] = "whole"
    <3>1. \A n \in Nat : \A j \in 1 .. n : j # n => j \in 1 .. n - 1
      OBVIOUS
    <3>2. i \in 1 .. Len(pipe) - 1
      BY <1>1, <2>3, <3>1
    <3> QED BY <3>2 DEF HandleInv, NoTornInput
  <2> QED BY <2>2, <2>3
<1> QED BY <1>2, <1>3

LEMMA SendStep == ASSUME HandleInv, send_input PROVE HandleInv'
<1>1. /\ handle # NoHandle /\ handle.stdin = "Live" /\ engine = "open"
      /\ step' = "write" /\ handle' = [handle EXCEPT !.stdin = "TimedOut"]
      /\ pipe' = IF HandleLives THEN Append(pipe, "part") ELSE pipe
      /\ writer' = TRUE
      /\ UNCHANGED <<table, clock, record, engine, reported, harmed>>
  BY DEF send_input, Ready, HandleLives
<1>2. pipe \in Seq({"whole", "part"}) /\ Len(pipe) \in Nat
  BY DEF HandleInv, HandleTypeOK
<1>3. pipe' \in Seq({"whole", "part"}) /\ NoTornInput'
  <2>1. CASE HandleLives
    <3>1. \A i \in 1 .. Len(pipe) : pipe[i] = "whole"
      BY <1>1, <2>1 DEF HandleInv, HeldPipeIsWhole
    <3>2. /\ pipe' = Append(pipe, "part") /\ pipe' \in Seq({"whole", "part"})
          /\ Len(pipe') = Len(pipe) + 1
          /\ \A i \in 1 .. Len(pipe) : pipe'[i] = pipe[i]
      BY <1>1, <1>2, <2>1
    <3>3. Len(pipe') - 1 = Len(pipe)
      BY <1>2, <3>2
    <3> QED BY <3>1, <3>2, <3>3 DEF NoTornInput
  <2>2. CASE ~HandleLives
    BY <1>1, <1>2, <2>2 DEF HandleInv, NoTornInput
  <2> QED BY <2>1, <2>2
<1>4. HeldPipeIsWhole'
  <2>1. handle'.stdin = "TimedOut"
    BY <1>1, InvTypes DEF Handles
  <2> QED BY <2>1 DEF HeldPipeIsWhole
<1> QED BY <1>1, <1>3, <1>4, InputKeepsRest

LEMMA WritingStep ==
    ASSUME HandleInv, write_done \/ write_breaks \/ write_timeout PROVE HandleInv'
<1>1. handle # NoHandle /\ engine = "open" /\ pipe \in Seq({"whole", "part"})
  BY InvTypes DEF write_done, write_breaks, write_timeout, HandleInv, HandleTypeOK
<1>2. CASE write_done
  <2>1. \A i \in 1 .. Len(pipe') : pipe'[i] = "whole"
    BY <1>2, WroteIsWhole DEF write_done
  <2>2. pipe' \in Seq({"whole", "part"}) /\ Len(pipe') \in Nat
    BY <1>2, WroteIsWhole DEF write_done
  <2>3. NoTornInput' /\ HeldPipeIsWhole'
    BY <2>1, <2>2 DEF NoTornInput, HeldPipeIsWhole
  <2> QED BY <1>1, <1>2, <2>2, <2>3, InputKeepsRest DEF write_done
<1>3. CASE write_breaks
  <2>1. ~HandleLives'
    BY <1>1, <1>3, InvTypes DEF write_breaks, HandleLives, AgentIs, Handles
  <2>2. NoTornInput' /\ HeldPipeIsWhole'
    BY <1>3, <2>1 DEF write_breaks, HandleInv, NoTornInput, HeldPipeIsWhole
  <2> QED BY <1>1, <1>3, <2>2, InputKeepsRest DEF write_breaks
<1>4. CASE write_timeout
  BY <1>1, <1>4, InvTypes, CallKeepsInvariant DEF write_timeout, StepIsGrounded
<1> QED BY <1>2, <1>3, <1>4

LEMMA LateStep == ASSUME HandleInv, write_late PROVE HandleInv'
<1>1. /\ writer' = FALSE /\ pipe' = Wrote
      /\ UNCHANGED <<table, clock, record, engine, handle, step, reported, harmed>>
  BY DEF write_late
<1>2. /\ \A i \in 1 .. Len(pipe') : pipe'[i] = "whole"
      /\ pipe' \in Seq({"whole", "part"}) /\ Len(pipe') \in Nat
  BY <1>1, WroteIsWhole
<1>3. NoTornInput' /\ HeldPipeIsWhole'
  BY <1>2 DEF NoTornInput, HeldPipeIsWhole
<1>4. HandleTypeOK'
  BY <1>1, <1>2 DEF HandleInv, HandleTypeOK
<1> QED BY <1>1, <1>3, <1>4
        DEF HandleInv, StartTimesAreCounted, HandleNamesAgent, RecordNamesAgent, Names,
            GoneIsGone, AgentLives, AgentIs, CallsHoldHandle, StepsRelyOnLooks, HandleLives

-----------------------------------------------------------------------------
(* The system and the agent.                                               *)

\* What the system does to the slot of one pid leaves a call where it was.
LEMMA SlotChangeKeepsInvariant ==
    ASSUME HandleInv, NEW p \in Pids, NEW slot \in Slots, SlotKept(table[p], slot),
           table' = [table EXCEPT ![p] = slot], clock' \in Nat, clock <= clock',
           UNCHANGED <<record, engine, handle, step, reported, harmed, pipe, writer>>
    PROVE  HandleInv'
<1>1. TableKept(table')
  BY InvTypes, OneSlotKept
<1>2. StepIsGrounded(step')
  BY <1>1, StayingIsGrounded
<1> QED BY <1>1, <1>2, InvTypes, CallKeepsInvariant

LEMMA SystemStep == ASSUME HandleInv, System PROVE HandleInv'
<1>1. PICK p \in Pids : \/ agent_forks(p) \/ leader_exits(p) \/ member_exits(p)
                        \/ agent_sticks(p) \/ agent_unsticks(p) \/ pid_reused(p)
  BY DEF System
<1>2. /\ table[p] \in Slots /\ OwnChild(p) \in BOOLEAN
      /\ clock \in Nat /\ clock <= clock /\ clock + 1 \in Nat /\ clock <= clock + 1
  BY InvTypes, TypesOfSlot DEF HandleInv, HandleTypeOK
<1> DEFINE own == table[p].who = "agent" /\ OwnChild(p)
<1>3. \A waits \in BOOLEAN :
         /\ Dead(table[p], waits) \in Slots
         /\ SlotKept(table[p], Dead(table[p], waits))
  BY <1>2, DeadIsNoAgent DEF SlotKept
<1>4. CASE agent_forks(p)
  <2> DEFINE slot == [table[p] EXCEPT !.members = TRUE]
  <2>1. slot \in Slots /\ SlotKept(table[p], slot)
    BY <1>2 DEF Slots, SlotKept
  <2>2. /\ table' = [table EXCEPT ![p] = slot]
        /\ UNCHANGED <<clock, record, engine, handle, step, reported, harmed, pipe, writer>>
    BY <1>4 DEF agent_forks
  <2> HIDE DEF slot
  <2> QED BY <1>2, <2>1, <2>2, SlotChangeKeepsInvariant
<1>5. CASE leader_exits(p)
  <2>1. own \in BOOLEAN
    BY <1>2
  <2>2. /\ table' = [table EXCEPT ![p] = Dead(table[p], own)]
        /\ UNCHANGED <<clock, record, engine, handle, step, reported, harmed, pipe, writer>>
    BY <1>5 DEF leader_exits
  <2> HIDE DEF own
  <2> QED BY <1>2, <1>3, <2>1, <2>2, SlotChangeKeepsInvariant
<1>6. CASE member_exits(p)
  <2> DEFINE alone == [table[p] EXCEPT !.members = FALSE]
             slot == IF Lives(p) \/ Zombie(p) THEN alone ELSE Free
  <2>1. alone \in Slots /\ SlotKept(table[p], alone)
    BY <1>2 DEF Slots, SlotKept
  <2>2. Free \in Slots /\ SlotKept(table[p], Free)
    BY FreeIsFree DEF SlotKept
  <2>3. /\ table' = [table EXCEPT ![p] = slot]
        /\ UNCHANGED <<clock, record, engine, handle, step, reported, harmed, pipe, writer>>
    BY <1>6 DEF member_exits
  <2>4. slot \in Slots /\ SlotKept(table[p], slot)
    <3> HIDE DEF alone
    <3> QED BY <2>1, <2>2
  <2> HIDE DEF slot
  <2> QED BY <1>2, <2>3, <2>4, SlotChangeKeepsInvariant
<1>7. CASE agent_sticks(p)
  <2> DEFINE slot == [table[p] EXCEPT !.stuck = TRUE]
  <2>1. slot \in Slots /\ SlotKept(table[p], slot)
    BY <1>2 DEF Slots, SlotKept
  <2>2. /\ table' = [table EXCEPT ![p] = slot]
        /\ UNCHANGED <<clock, record, engine, handle, step, reported, harmed, pipe, writer>>
    BY <1>7 DEF agent_sticks
  <2> HIDE DEF slot
  <2> QED BY <1>2, <2>1, <2>2, SlotChangeKeepsInvariant
<1>8. CASE agent_unsticks(p)
  <2> DEFINE freed == [table[p] EXCEPT !.stuck = FALSE]
             slot == IF table[p].doomed THEN Dead(table[p], OwnChild(p)) ELSE freed
  <2>1. freed \in Slots /\ SlotKept(table[p], freed)
    BY <1>2 DEF Slots, SlotKept
  <2>2. /\ table' = [table EXCEPT ![p] = slot]
        /\ UNCHANGED <<clock, record, engine, handle, step, reported, harmed, pipe, writer>>
    BY <1>8 DEF agent_unsticks
  <2>3. slot \in Slots /\ SlotKept(table[p], slot)
    <3> HIDE DEF freed
    <3> QED BY <1>2, <1>3, <2>1
  <2> HIDE DEF slot
  <2> QED BY <1>2, <2>2, <2>3, SlotChangeKeepsInvariant
<1>9. CASE pid_reused(p)
  <2> DEFINE slot == [Free EXCEPT !.who = "stranger", !.start_time = clock + 1]
  <2>1. slot \in Slots /\ slot.who = "stranger"
    BY <1>2, FreeIsFree DEF Slots, Free
  <2>2. /\ table' = [table EXCEPT ![p] = slot] /\ clock' = clock + 1
        /\ UNCHANGED <<record, engine, handle, step, reported, harmed, pipe, writer>>
    BY <1>9 DEF pid_reused
  <2> HIDE DEF slot
  <2>3. SlotKept(table[p], slot)
    BY <2>1 DEF SlotKept
  <2> QED BY <1>2, <2>1, <2>2, <2>3, SlotChangeKeepsInvariant
<1> QED BY <1>1, <1>4, <1>5, <1>6, <1>7, <1>8, <1>9

-----------------------------------------------------------------------------
LEMMA HandleStart == HandleInit => HandleInv
<1> SUFFICES ASSUME HandleInit PROVE HandleInv
  OBVIOUS
<1>1. /\ table = [p \in Pids |-> Free] /\ clock = 0 /\ record = NoRecord
      /\ engine = "open" /\ handle = NoHandle /\ step = "idle" /\ reported = {}
      /\ harmed = FALSE /\ pipe = << >> /\ writer = FALSE
  BY DEF HandleInit
<1>2. \A p \in Pids : table[p] = Free
  BY <1>1
<1>3. HandleTypeOK
  <2>1. << >> \in Seq({"whole", "part"})
    OBVIOUS
  <2>2. FALSE \in BOOLEAN
    OBVIOUS
  <2>3. table \in [Pids -> Slots]
    BY <1>1, FreeIsFree
  <2>4. pipe \in Seq({"whole", "part"}) /\ harmed \in BOOLEAN /\ writer \in BOOLEAN
    BY <1>1, <2>1, <2>2
  <2> QED BY <1>1, <2>3, <2>4 DEF HandleTypeOK, Slots
<1>4. StartTimesAreCounted
  BY <1>2, FreeIsFree DEF StartTimesAreCounted
<1> QED BY <1>1, <1>3, <1>4
        DEF HandleInv, HandleNamesAgent, RecordNamesAgent, GoneIsGone, CallsHoldHandle,
            StepsRelyOnLooks, NoTornInput, HeldPipeIsWhole

LEMMA HandleInvariant == HandleInv /\ [HandleNext]_handleVars => HandleInv'
<1> SUFFICES ASSUME HandleInv, [HandleNext]_handleVars PROVE HandleInv'
  OBVIOUS
<1>1. CASE \E p \in Pids, detach, pipe_stdin \in BOOLEAN : spawn(p, detach, pipe_stdin)
  BY <1>1, SpawnStep
<1>2. CASE spawn_unverified \/ open
  BY <1>2, UnverifiedStep, OpenStep
<1>3. CASE poll \/ stop
  BY <1>3, PollStep, StopStep
<1>4. CASE Stopping
  BY <1>4, SignalStep, WindowStep, SweepStep, ConfirmStep DEF Stopping
<1>5. CASE pause \/ resume
  BY <1>5, ControlStep DEF pause, resume
<1>6. CASE control_signal
  BY <1>6, SignalStep
<1>7. CASE send_input \/ Writing \/ write_late
  BY <1>7, SendStep, WritingStep, LateStep DEF Writing
<1>8. CASE close \/ Dropping \/ crash
  BY <1>8, CloseStep, DropStep, EndedStep DEF Dropping
<1>9. CASE System
  BY <1>9, SystemStep
<1>10. CASE UNCHANGED handleVars
  <2>1. /\ TableKept(table') /\ clock' \in Nat /\ clock <= clock'
        /\ harmed' \in BOOLEAN
        /\ UNCHANGED <<record, engine, handle, step, reported, pipe, writer>>
    BY <1>10, InvTypes DEF handleVars
  <2> QED BY <2>1, StayingIsGrounded, CallKeepsInvariant
<1> QED BY <1>1, <1>2, <1>3, <1>4, <1>5, <1>6, <1>7, <1>8, <1>9, <1>10 DEF HandleNext

\* A handle and a record name one agent, by pid and start time; a look, a stop
\* and an adoption conclude about that agent and about no other.
THEOREM HandlesNameTheirAgent == HandleSpec => []HandleInv
  BY HandleStart, HandleInvariant, PTL DEF HandleSpec

\* Neither a reaper's Exited nor a confirmed stop is ever said of an agent that
\* still runs (UnixProcess::reap_if_exited, confirm_death), for any pids, any
\* number of engines and strangers, and whatever could not be read.
THEOREM GoneAgentsAreGone == HandleSpec => []GoneIsGone
<1>1. HandleInv => GoneIsGone
  BY DEF HandleInv
<1> QED BY <1>1, HandlesNameTheirAgent, PTL

\* Only the last payload an agent has read may be cut off: nothing is written
\* behind an abandoned writer (write_stdin_bounded).
THEOREM InputIsNeverTorn == HandleSpec => []NoTornInput
<1>1. HandleInv => NoTornInput
  BY DEF HandleInv
<1> QED BY <1>1, HandlesNameTheirAgent, PTL

\* The end of an engine leaves the detached agents and no other, through any
\* number of adoptions (Drop for UnixProcess, UnixBackend::adopt).
THEOREM EndSparesTheDetached == HandleSpec => ExitSparesDetachedOnly
<1>1. HandleInv /\ [HandleNext]_handleVars => [ExitSpares]_handleVars
  <2> SUFFICES ASSUME HandleInv, [HandleNext]_handleVars PROVE [ExitSpares]_handleVars
    OBVIOUS
  <2>1. ASSUME engine = "open", engine' = "closed", handle # NoHandle,
               table'[handle.pid].who = "agent",
               table'[handle.pid].start_time = handle.start_time
        PROVE  table'[handle.pid].detached \/ table'[handle.pid].doomed
    <3>1. closed
      BY <2>1 DEF HandleNext, handleVars, spawn, spawn_unverified, open, poll, stop,
            Stopping, stop_term, stop_exited, stop_window_ends, stop_sweep, stop_kill,
            confirm_death, stop_unconfirmed, pause, resume, control, control_signal,
            send_input, Writing, write_done, write_breaks, write_timeout, write_late,
            close, Dropping, drop_kill, drop_wait, crash, Ended, System, agent_forks,
            leader_exits, member_exits, agent_sticks, agent_unsticks, pid_reused
    <3>2. handle.pid \in Pids /\ step = "dropped" /\ table' = Orphaned
      BY <2>1, <3>1, InvTypes DEF closed, Ended
    <3>3. table'[handle.pid] = IF Zombie(handle.pid) THEN Dead(table[handle.pid], FALSE)
                               ELSE table[handle.pid]
      BY <3>2 DEF Orphaned
    <3>4. Dead(table[handle.pid], FALSE).who # "agent"
      BY <3>2, InvTypes, TypesOfSlot, DeadIsNoAgent
    <3>5. table'[handle.pid] = table[handle.pid] /\ HandleLives
      BY <2>1, <3>3, <3>4 DEF HandleLives, AgentIs
    <3> QED BY <2>1, <3>2, <3>5 DEF HandleInv, StepsRelyOnLooks
  <2>2. ASSUME step = "drop", HandleLives
        PROVE  ~table[handle.pid].detached
    <3>1. handle # NoHandle /\ handle.pid \in Pids /\ ~handle.detached
      BY <2>2, InvTypes DEF HandleInv, StepsRelyOnLooks
    <3> QED BY <2>2, <3>1 DEF HandleInv, HandleNamesAgent, Names, HandleLives
  <2> QED BY <2>1, <2>2 DEF ExitSpares, HandleLives
<1> QED BY <1>1, HandlesNameTheirAgent, PTL DEF HandleSpec, ExitSparesDetachedOnly

=============================================================================
