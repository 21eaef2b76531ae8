--------------------------- MODULE SupervisorProofs ---------------------------
(***************************************************************************)
(* Theorems about Supervisor for every value of its constants: any number  *)
(* of instances and processes, any set of faults and of kill points unless *)
(* the theorem names the ones it excludes.                                 *)
(***************************************************************************)
EXTENDS Supervisor, TLAPS

(***************************************************************************)
(* What the transition table computes, command by command.                 *)
(***************************************************************************)
LEMMA NextState ==
    ASSUME NEW s, NEW c, Accepts(s, c)
    PROVE  <<s, c, next_state(s, c)>> \in CommandEdges
  BY DEF Accepts, next_state

LEMMA CommandEdgeIsEdge ==
    ASSUME NEW s, NEW c, NEW t, <<s, c, t>> \in CommandEdges
    PROVE  <<s, t>> \in Edges
  <1> DEFINE e == <<s, c, t>>
  <1>1. e[1] = s /\ e[3] = t
    OBVIOUS
  <1>2. <<e[1], e[3]>> \in {<<d[1], d[3]>> : d \in CommandEdges}
    BY Zenon
  <1> HIDE DEF e
  <1> QED  BY <1>1, <1>2 DEF Edges

LEMMA StartTable ==
    ASSUME NEW s, Accepts(s, "start")
    PROVE  /\ next_state(s, "start") = "starting"
           /\ s \in {"registered", "stopped", "failed"}
           /\ <<s, "starting">> \in Edges
  <1>1. <<s, "start", next_state(s, "start")>> \in CommandEdges
    BY NextState
  <1>2. /\ next_state(s, "start") = "starting"
        /\ s \in {"registered", "stopped", "failed"}
    BY <1>1 DEF CommandEdges
  <1>3. <<s, "start", "starting">> \in CommandEdges
    BY <1>1, <1>2
  <1> QED  BY <1>2, <1>3, CommandEdgeIsEdge

LEMMA StopTable ==
    ASSUME NEW s, Accepts(s, "stop")
    PROVE  /\ next_state(s, "stop") = "stopping"
           /\ s \in LiveStates
           /\ <<s, "stopping">> \in Edges
  <1>1. <<s, "stop", next_state(s, "stop")>> \in CommandEdges
    BY NextState
  <1>2. next_state(s, "stop") = "stopping" /\ s \in LiveStates
    BY <1>1 DEF CommandEdges, LiveStates
  <1>3. <<s, "stop", "stopping">> \in CommandEdges
    BY <1>1, <1>2
  <1> QED  BY <1>2, <1>3, CommandEdgeIsEdge

LEMMA PauseTable ==
    ASSUME NEW s, NEW c \in {"pause", "resume"}, Accepts(s, c)
    PROVE  /\ next_state(s, c) \in LiveStates
           /\ s \in LiveStates
           /\ <<s, next_state(s, c)>> \in Edges
  <1>1. <<s, c, next_state(s, c)>> \in CommandEdges
    BY NextState
  <1>2. next_state(s, c) \in LiveStates /\ s \in LiveStates
    BY <1>1 DEF CommandEdges, LiveStates
  <1> QED  BY <1>1, <1>2, CommandEdgeIsEdge

(***************************************************************************)
(* The records the actions build and update stay in their types.           *)
(***************************************************************************)
LEMMA JobType ==
    ASSUME NEW n \in Names, NEW step \in Steps
    PROVE  /\ NewJob(n, step) \in Job
           /\ NewJob(n, step).at = step
           /\ NewJob(n, step).name = n
  BY MaxFailuresAssumption DEF Job, NewJob, DefaultPolicy, Policies

LEMMA JobUpdates ==
    ASSUME NEW j \in Job
    PROVE  /\ \A r \in BOOLEAN : [j EXCEPT !.remove = r] \in Job
           /\ \A s \in Steps : [j EXCEPT !.at = s] \in Job
           /\ \A q \in Policies : [j EXCEPT !.policy = q] \in Job
           /\ \A k \in 0 .. MaxFailures : [j EXCEPT !.attempt = k] \in Job
           /\ \A d \in BOOLEAN : [j EXCEPT !.detach = d] \in Job
           /\ \A p \in Pids : [j EXCEPT !.pid = p] \in Job
  BY DEF Job

LEMMA RecordType ==
    /\ \A q \in Policies : PolicySeed(q) \in SpawnRecord
    /\ \A rec \in SpawnRecord, q \in Policies :
          [rec EXCEPT !.policy = q] \in SpawnRecord
    /\ \A rec \in SpawnRecord, k \in 0 .. MaxFailures :
          [rec EXCEPT !.count = k] \in SpawnRecord
  BY MaxFailuresAssumption DEF PolicySeed, SpawnRecord

(***************************************************************************)
(* Type correctness, for every set of names, fingerprints, commands,       *)
(* faults and kill points.  The one arithmetic argument is plan_restart's: *)
(* a count it plans a restart for is below the crash loop.                 *)
(***************************************************************************)
\* A launch past its spawn knows the process it launched.
LaunchKnowsPid == op.at \in {"watch", "ready"} => op.pid \in Pids

LEMMA EffectivePolicyType ==
    ASSUME TypeOK, NEW n \in Names
    PROVE  /\ effective_restart_policy(n) \in Policies
           /\ restart_count(n) \in 0 .. MaxFailures
  BY MaxFailuresAssumption
     DEF effective_restart_policy, restart_count, TypeOK, SpawnRecord,
         DefaultPolicy, Policies

LEMMA JobInFlight ==
    ASSUME TypeOK, op.at \in Steps
    PROVE  op \in Job /\ op # Idle /\ op.name \in Names
  BY DEF TypeOK, Idle, Job, Steps

LEMMA PlanType ==
    ASSUME TypeOK, NEW n \in Names, plan_restart(n)
    PROVE  /\ op' \in Job /\ op' # Idle /\ op'.name = n
           /\ op'.at \in {"seed", "fail"}
           /\ record' \in [Names -> SpawnRecord \cup {NoRecord}]
           /\ \A m \in Names \ {n} : record'[m] = record[m]
           /\ op'.at = "fail" => \A m \in Names : record[m] # NoRecord =>
                  record'[m] # NoRecord /\ record'[m].pid = record[m].pid
  <1> DEFINE policy == effective_restart_policy(n)
             next   == restart_count(n) + 1
  <1>1. policy \in Policies /\ restart_count(n) \in 0 .. MaxFailures
    BY EffectivePolicyType
  <1>2. CASE ~restarts_on_crash(policy) \/ is_crash_loop(next)
    <2>1. NewJob(n, "seed") \in Job /\ NewJob(n, "seed").at = "seed"
          /\ NewJob(n, "seed").name = n
      BY JobType DEF Steps
    <2>2. [NewJob(n, "seed") EXCEPT !.policy = policy] \in Job
      BY <1>1, <2>1, JobUpdates
    <2>3. /\ op' = [NewJob(n, "seed") EXCEPT !.policy = policy]
          /\ record' = [record EXCEPT ![n] = NoRecord] \/ record' = record
      BY <1>2 DEF plan_restart
    <2> QED  BY <2>1, <2>2, <2>3 DEF TypeOK, Idle, Job
  <1>3. CASE ~(~restarts_on_crash(policy) \/ is_crash_loop(next))
    <2>1. NewJob(n, "fail") \in Job /\ NewJob(n, "fail").at = "fail"
          /\ NewJob(n, "fail").name = n
      BY JobType DEF Steps
    <2>2. next \in 0 .. MaxFailures
      BY <1>1, <1>3, MaxFailuresAssumption DEF is_crash_loop
    <2>3. [NewJob(n, "fail") EXCEPT !.attempt = next] \in Job
      BY <2>1, <2>2, JobUpdates
    <2>4. /\ op' = [NewJob(n, "fail") EXCEPT !.attempt = next]
          /\ \/ record' = [record EXCEPT ![n] =
                             IF @ = NoRecord THEN @ ELSE [@ EXCEPT !.count = next]]
             \/ record' = record
      BY <1>3 DEF plan_restart
    <2>5. record' \in [Names -> SpawnRecord \cup {NoRecord}]
      <3>1. CASE record[n] = NoRecord
        BY <2>4, <3>1 DEF TypeOK
      <3>2. CASE record[n] # NoRecord
        <4>1. record[n] \in SpawnRecord
          BY <3>2 DEF TypeOK
        <4>2. [record[n] EXCEPT !.count = next] \in SpawnRecord
          BY <2>2, <4>1, RecordType
        <4> HIDE DEF next
        <4> QED  BY <2>4, <3>2, <4>2 DEF TypeOK
      <3> QED  BY <3>1, <3>2
    <2>6. \A m \in Names : record[m] # NoRecord =>
             record'[m] # NoRecord /\ record'[m].pid = record[m].pid
      <3>1. record \in [Names -> SpawnRecord \cup {NoRecord}]
        BY DEF TypeOK
      <3>2. record[n] # NoRecord =>
               /\ [record[n] EXCEPT !.count = next] \in SpawnRecord
               /\ [record[n] EXCEPT !.count = next].pid = record[n].pid
        BY <2>2, <3>1, RecordType DEF SpawnRecord
      <3> HIDE DEF next
      <3> QED  BY <2>4, <3>1, <3>2, NullAssumption
    <2>7. \A m \in Names \ {n} : record'[m] = record[m]
      BY <2>4 DEF TypeOK
    <2>8. /\ op' \in Job /\ op'.at = "fail" /\ op'.name = n
      BY <2>1, <2>3, <2>4 DEF Job
    <2> QED  BY <2>5, <2>6, <2>7, <2>8 DEF Idle
  <1> QED  BY <1>2, <1>3

LEMMA TypeStep == TypeOK /\ LaunchKnowsPid /\ [Next]_vars => TypeOK'
  <1> USE MaxFailuresAssumption, NullAssumption
  <1> SUFFICES ASSUME TypeOK, LaunchKnowsPid, [Next]_vars
               PROVE  TypeOK'
    OBVIOUS
  <1> USE DEF TypeOK, durable, session, os, history, Kill
  <1>1. ASSUME NEW n \in Names, register(n)
        PROVE  TypeOK'
    BY <1>1 DEF register, States
  <1>2. ASSUME NEW n \in Names, set_restart_policy(n)
        PROVE  TypeOK'
    <2>1. PICK q \in Policies :
             /\ record' = [record EXCEPT ![n] = UpsertPolicy(@, q)]
             /\ configured' = [configured EXCEPT ![n] = q]
      BY <1>2 DEF set_restart_policy
    <2>2. UpsertPolicy(record[n], q) \in SpawnRecord
      BY RecordType DEF UpsertPolicy
    <2> QED  BY <1>2, <2>1, <2>2 DEF set_restart_policy
  <1>3. ASSUME NEW n \in Names, NEW attempt \in 0 .. MaxFailures,
               NEW detach \in BOOLEAN, BeginStart(n, attempt, detach)
        PROVE  /\ row' \in [Names -> States \cup {Absent}]
               /\ op' \in Job \cup {Idle}
    <2>1. next_state(row[n], "start") \in States
      BY <1>3, StartTable DEF BeginStart, States
    <2> DEFINE j0 == NewJob(n, "launch")
               j1 == [j0 EXCEPT !.attempt = attempt]
               j2 == [j1 EXCEPT !.detach = detach]
               j3 == [j2 EXCEPT !.policy = effective_restart_policy(n)]
    <2>2. j0 \in Job
      BY JobType DEF Steps
    <2>3. j1 \in Job
      BY <2>2, JobUpdates
    <2>4. j2 \in Job
      BY <2>3, JobUpdates
    <2>5. j3 \in Job
      BY <2>4, JobUpdates, EffectivePolicyType
    <2>6. /\ row' = [row EXCEPT ![n] = next_state(row[n], "start")]
          /\ op' = j3 \/ op' = Idle
      BY <1>3 DEF BeginStart, Transition
    <2> QED  BY <2>1, <2>5, <2>6
  <1>4. ASSUME NEW n \in Names, NEW detach \in BOOLEAN, start(n, detach)
        PROVE  TypeOK'
    BY <1>3, <1>4 DEF start
  <1>5. ASSUME NEW n \in Names, NEW a \in Attempts, restart(n, a)
        PROVE  TypeOK'
    <2>1. a \in 0 .. MaxFailures
      BY DEF Attempts
    <2>2. /\ row' \in [Names -> States \cup {Absent}]
          /\ op' \in Job \cup {Idle}
          /\ autos' \in [Names -> 0 .. MaxFailures]
      <3>1. CASE /\ UNCHANGED <<row, op, autos>>
        BY <3>1
      <3>2. CASE /\ BeginStart(n, a, record[n] # NoRecord /\ record[n].detach)
                 /\ autos' = [autos EXCEPT ![n] = IF @ < MaxFailures THEN @ + 1
                                                                     ELSE @]
        <4>1. PICK d \in BOOLEAN : BeginStart(n, a, d)
          BY <3>2
        <4> QED  BY <1>3, <2>1, <3>2, <4>1
      <3> QED  BY <1>5, <3>1, <3>2 DEF restart
    <2>3. plans' \in [Names -> [Attempts -> Nat]]
      BY <1>5 DEF restart, RestartDue
    <2> QED  BY <1>5, <2>2, <2>3 DEF restart
  <1>6. ASSUME NEW n \in Names, NEW remove_ \in BOOLEAN, BeginStop(n, remove_)
        PROVE  /\ row' \in [Names -> States \cup {Absent}]
               /\ op' \in Job \cup {Idle}
    <2>1. next_state(row[n], "stop") \in States
      BY <1>6, StopTable DEF BeginStop, States
    <2>2. [NewJob(n, "kill") EXCEPT !.remove = remove_] \in Job
      BY JobType, JobUpdates DEF Steps
    <2> QED  BY <1>6, <2>1, <2>2 DEF BeginStop, Transition
  <1>7. ASSUME NEW n \in Names, stop(n)
        PROVE  TypeOK'
    BY <1>6, <1>7 DEF stop
  <1>8. ASSUME NEW n \in Names, stop_retry(n)
        PROVE  TypeOK'
    BY <1>8, JobType DEF stop_retry, Steps
  <1>9. ASSUME NEW n \in Names, NEW force \in BOOLEAN, remove(n, force)
        PROVE  TypeOK'
    <2>1. CASE StopsFirst(row[n])
      BY <1>6, <1>9, <2>1 DEF remove
    <2>2. CASE ~StopsFirst(row[n])
      BY <1>9, <2>2 DEF remove, Delete, DefaultPolicy, Policies
    <2> QED  BY <2>1, <2>2
  <1>10. ASSUME NEW n \in Names, NEW command \in {"pause", "resume"},
                suspend_or_resume(n, command)
         PROVE  TypeOK'
    <2>1. next_state(row[n], command) \in States
      BY <1>10, PauseTable DEF suspend_or_resume, States, LiveStates
    <2>2. NewJob(n, "signal") \in Job
      BY JobType DEF Steps
    <2> QED  BY <1>10, <2>1, <2>2 DEF suspend_or_resume, Transition
  <1>11. ASSUME NEW n \in Names, LoseHandle(n)
         PROVE  /\ op' \in Job \cup {Idle}
                /\ held' \in [Names -> Supervised \cup {NoHandle}]
                /\ record' \in [Names -> SpawnRecord \cup {NoRecord}]
                /\ UNCHANGED <<row, up, plans, history>>
    <2>1. NewJob(n, "clear") \in Job
      BY JobType DEF Steps
    <2> QED  BY <1>11, <2>1, PlanType DEF LoseHandle, Reap
  <1>12. ASSUME NEW n \in Names, poll_exited(n)
         PROVE  TypeOK'
    BY <1>11, <1>12 DEF poll_exited
  <1>13. ASSUME NEW n \in Names, poll_unreadable(n)
         PROVE  TypeOK'
    BY <1>11, <1>13 DEF poll_unreadable
  <1>14. CASE launch_fails \/ watch_startup_exit
    BY <1>14, JobInFlight DEF launch_fails, watch_startup_exit, States, Steps
  <1>15. ASSUME NEW p \in Pids, spawn(p)
         PROVE  TypeOK'
    <2>1. op \in Job /\ op.name \in Names
      BY <1>15, JobInFlight DEF spawn, Steps
    <2>2. Goto("watch") \in Job
      BY <2>1, JobUpdates DEF Goto, Steps
    <2>3. [Goto("watch") EXCEPT !.pid = p] \in Job
      BY <2>2, JobUpdates
    <2> QED  BY <1>15, <2>1, <2>3 DEF spawn
  <1>16. CASE write_spawn_record
    <2>1. op \in Job /\ op.name \in Names
      BY <1>16, JobInFlight DEF write_spawn_record, Steps
    <2>2. Goto("ready") \in Job
      BY <2>1, JobUpdates DEF Goto, Steps
    <2>3. NewSpawnRecord \in SpawnRecord
      BY <2>1 DEF NewSpawnRecord, SpawnRecord, Job
    <2> QED  BY <1>16, <2>1, <2>2, <2>3 DEF write_spawn_record
  <1>17. CASE write_spawn_record_fails
    BY <1>17, JobInFlight DEF write_spawn_record_fails, Teardown, States, Steps
  <1>18. CASE become_running
    <2>1. op \in Job /\ op.name \in Names
      BY <1>18, JobInFlight DEF become_running, Steps
    <2>2. PICK P : Kill(P)
      BY <1>18 DEF become_running
    <2>3. owner' \in [Pids -> Names \cup {Nobody}] /\ frozen' \subseteq Pids
      BY <2>2
    <2>4. held' \in [Names -> Supervised \cup {NoHandle}]
      <3>1. NewHandle(op.pid, op.detach) \in Supervised
        BY <1>18, <2>1 DEF become_running, LaunchKnowsPid, NewHandle, Supervised, Job
      <3> QED  BY <1>18, <2>1, <3>1 DEF become_running
    <2> HIDE DEF Kill
    <2> QED  BY <1>18, <2>1, <2>3, <2>4 DEF become_running, States
  <1>19. CASE backend_stop
    <2>1. op \in Job /\ op.name \in Names
      BY <1>19, JobInFlight DEF backend_stop, Steps
    <2>2. Goto("clear") \in Job
      BY <2>1, JobUpdates DEF Goto, Steps
    <2> QED  BY <1>19, <2>1, <2>2 DEF backend_stop
  <1>20. CASE backend_stop_unconfirmed
    <2>1. op.name \in Names
      BY <1>20, JobInFlight DEF backend_stop_unconfirmed, Steps
    <2>2. held[op.name] \in Supervised
      BY <1>20, <2>1 DEF backend_stop_unconfirmed
    <2>3. [held[op.name] EXCEPT !.stop_unconfirmed = TRUE] \in Supervised
      BY <2>2 DEF Supervised
    <2>4. held' = [held EXCEPT ![op.name] =
                     [held[op.name] EXCEPT !.stop_unconfirmed = TRUE]]
      BY <1>20 DEF backend_stop_unconfirmed
    <2> QED  BY <1>20, <2>1, <2>3, <2>4 DEF backend_stop_unconfirmed
  <1>31. CASE backend_stop_fails
    BY <1>31 DEF backend_stop_fails
  <1>21. CASE clear_spawn_record
    <2>1. op \in Job /\ op.name \in Names
      BY <1>21, JobInFlight DEF clear_spawn_record, Steps
    <2>2. Goto("settle") \in Job
      BY <2>1, JobUpdates DEF Goto, Steps
    <2> QED  BY <1>21, <2>1, <2>2 DEF clear_spawn_record
  <1>22. CASE become_stopped
    <2>1. op \in Job /\ op.name \in Names
      BY <1>22, JobInFlight DEF become_stopped, Steps
    <2>2. Goto("delete") \in Job
      BY <2>1, JobUpdates DEF Goto, Steps
    <2> QED  BY <1>22, <2>1, <2>2 DEF become_stopped, Transition, States
  <1>23. CASE delete_stopped
    BY <1>23, JobInFlight DEF delete_stopped, Delete, DefaultPolicy, Policies, Steps
  <1>24. CASE signal_backend
    <2>1. op.name \in Names
      BY <1>24, JobInFlight DEF signal_backend, Steps
    <2>2. held[op.name] # NoHandle => held[op.name].pid \in Pids
      BY <2>1 DEF Supervised
    <2> DEFINE P == IF held[op.name] = NoHandle THEN {}
                    ELSE {q \in {held[op.name].pid} : Alive(q)}
    <2>3. P \subseteq Pids
      BY <2>2
    <2>4. frozen' = Signalled(row[op.name], P) \/ UNCHANGED frozen
      BY <1>24 DEF signal_backend
    <2>5. frozen' \subseteq Pids
      BY <2>3, <2>4 DEF Signalled
    <2> QED  BY <1>24, <2>5 DEF signal_backend
  <1>25. CASE settle_terminal_record
    <2>1. op \in Job /\ op.name \in Names /\ op.policy \in Policies
      BY <1>25, JobInFlight DEF settle_terminal_record, Steps, Job
    <2>2. Goto("settled") \in Job
      BY <2>1, JobUpdates DEF Goto, Steps
    <2>3. UpsertPolicy(record[op.name], op.policy) \in SpawnRecord
      BY <2>1, RecordType DEF UpsertPolicy
    <2> QED  BY <1>25, <2>1, <2>2, <2>3 DEF settle_terminal_record
  <1>26. CASE become_failed
    <2>1. op.name \in Names
      BY <1>26, JobInFlight DEF become_failed, Steps
    <2>2. plans' \in [Names -> [Attempts -> Nat]]
      <3>1. CASE UNCHANGED plans
        BY <3>1
      <3>2. CASE plans' = [plans EXCEPT ![op.name][op.attempt] = @ + 1]
        <4> DEFINE f == plans[op.name]
        <4>1. f \in [Attempts -> Nat]
          BY <2>1
        <4> DEFINE k == op.attempt
        <4>2. [f EXCEPT ![k] = f[k] + 1] \in [Attempts -> Nat]
          <5>1. k \in Attempts => f[k] + 1 \in Nat
            BY <4>1
          <5> HIDE DEF f, k
          <5> QED  BY <4>1, <5>1
        <4> QED  BY <2>1, <3>2, <4>2
      <3> QED  BY <1>26, <3>1, <3>2 DEF become_failed
    <2> QED  BY <1>26, <2>1, <2>2 DEF become_failed, States
  <1>27. CASE engine_killed \/ engine_exits
    <2>1. (\E P : Kill(P)) \/ UNCHANGED os
      BY <1>27 DEF engine_killed, engine_exits
    <2>2. owner' \in [Pids -> Names \cup {Nobody}] /\ frozen' \subseteq Pids
      BY <2>1
    <2>3. EndSession /\ UNCHANGED <<durable, history>> /\ op' \in {op, Idle}
      BY <1>27 DEF engine_killed, engine_exits
    <2>4. plans' \in [Names -> [Attempts -> Nat]]
      BY <2>3 DEF EndSession, NoPlans
    <2>5. /\ up' \in BOOLEAN
          /\ held' \in [Names -> Supervised \cup {NoHandle}]
      BY <2>3 DEF EndSession
    <2> HIDE DEF Kill
    <2> QED  BY <2>2, <2>3, <2>4, <2>5
  <1>28. CASE open
    <2>1. PICK unreadable, uncleared \in SUBSET Names :
             adopt_orphans(unreadable, uncleared)
      BY <1>28 DEF open
    <2>2. \A n \in Names : Survives(record[n]) =>
             NewHandle(record[n].pid, record[n].detach) \in Supervised
      BY DEF Survives, NewHandle, Supervised, SpawnRecord
    <2>3. held' \in [Names -> Supervised \cup {NoHandle}]
      BY <2>1, <2>2 DEF adopt_orphans, Adopts
    <2>4. row' \in [Names -> States \cup {Absent}]
      BY <2>1 DEF adopt_orphans, reconcile_orphan_failed, States
    <2>5. record' \in [Names -> SpawnRecord \cup {NoRecord}]
      BY <2>1 DEF adopt_orphans
    <2> QED  BY <1>28, <2>3, <2>4, <2>5 DEF open
  <1>29. ASSUME NEW p \in Pids, process_exits(p)
         PROVE  TypeOK'
    BY <1>29 DEF process_exits
  <1>30. CASE UNCHANGED vars
    BY <1>30 DEF vars
  <1> QED
    BY <1>1, <1>2, <1>4, <1>5, <1>7, <1>8, <1>9, <1>10, <1>12, <1>13, <1>14,
       <1>15, <1>16, <1>17, <1>18, <1>19, <1>20, <1>31, <1>21, <1>22, <1>23, <1>24,
       <1>25, <1>26, <1>27, <1>28, <1>29, <1>30
       DEF Next, Operator, Reaper, Continue

-----------------------------------------------------------------------------
(***************************************************************************)
(* What the shared pieces of the operations do to the row and to op.       *)
(***************************************************************************)
LEMMA IdleIsIdle == Idle.at = "idle"
  BY DEF Idle

LEMMA BeginStartEffect ==
    ASSUME NEW n \in Names, NEW attempt, NEW detach,
           BeginStart(n, attempt, detach)
    PROVE  /\ row' = [row EXCEPT ![n] = "starting"]
           /\ row[n] \in {"registered", "stopped", "failed"}
           /\ <<row[n], "starting">> \in Edges
           /\ op' = Idle \/ (op'.at = "launch" /\ op'.name = n)
  BY StartTable DEF BeginStart, Transition, NewJob

LEMMA BeginStopEffect ==
    ASSUME NEW n \in Names, NEW then, BeginStop(n, then)
    PROVE  /\ row' = [row EXCEPT ![n] = "stopping"]
           /\ row[n] \in LiveStates
           /\ <<row[n], "stopping">> \in Edges
           /\ op' = Idle \/ (op'.at = "kill" /\ op'.name = n)
  BY StopTable DEF BeginStop, Transition, NewJob

LEMMA SuspendEffect ==
    ASSUME NEW n \in Names, NEW command \in {"pause", "resume"},
           suspend_or_resume(n, command)
    PROVE  /\ row' = [row EXCEPT ![n] = next_state(row[n], command)]
           /\ row[n] \in LiveStates
           /\ next_state(row[n], command) \in LiveStates
           /\ <<row[n], next_state(row[n], command)>> \in Edges
           /\ op' = Idle \/ (op'.at = "signal" /\ op'.name = n)
  <1>1. NewJob(n, "signal").at = "signal" /\ NewJob(n, "signal").name = n
    BY DEF NewJob
  <1>2. /\ Accepts(row[n], command)
        /\ row' = [row EXCEPT ![n] = next_state(row[n], command)]
        /\ op' = NewJob(n, "signal") \/ op' = Idle
    BY DEF suspend_or_resume, Transition
  <1> QED  BY <1>1, <1>2, PauseTable

LEMMA LoseHandleEffect ==
    ASSUME TypeOK, NEW n \in Names, LoseHandle(n)
    PROVE  /\ row' = row /\ held' = [held EXCEPT ![n] = NoHandle]
           /\ \/ /\ row[n] \in LiveStates
                 /\ op' # Idle /\ op'.at \in {"seed", "fail"} /\ op'.name = n
              \/ /\ row[n] = "stopping" /\ record' = record
                 /\ op'.at = "clear" /\ op'.name = n
              \/ row[n] \notin LiveStates /\ op' = op /\ record' = record
           /\ op'.at # "seed" =>
                \A m \in Names : record[m] # NoRecord =>
                    record'[m] # NoRecord /\ record'[m].pid = record[m].pid
           /\ \A m \in Names \ {n} : record'[m] = record[m]
  <1>1. NewJob(n, "clear").at = "clear" /\ NewJob(n, "clear").name = n
    BY DEF NewJob
  <1>2. CASE row[n] \in LiveStates
    <2>1. plan_restart(n)
      BY <1>2 DEF LoseHandle, Reap, Unconfirmed, LiveStates
    <2>2. row' = row /\ held' = [held EXCEPT ![n] = NoHandle]
      BY DEF LoseHandle
    <2> HIDE DEF Idle
    <2> QED  BY <1>2, <2>1, <2>2, PlanType
  <1>3. CASE row[n] \notin LiveStates
    BY <1>1, <1>3 DEF LoseHandle, Reap, Unconfirmed
  <1> QED  BY <1>2, <1>3

LEMMA GotoEffect ==
    ASSUME op \in Job, NEW s
    PROVE  /\ Goto(s).at = s /\ Goto(s).name = op.name
           /\ Goto(s).pid = op.pid /\ Goto(s).detach = op.detach
  BY DEF Goto, Job

LEMMA EdgeFacts ==
    /\ \A s \in {"registered", "stopped", "failed"} : <<s, "starting">> \in Edges
    /\ \A s \in LiveStates : <<s, "stopping">> \in Edges /\ <<s, "failed">> \in Edges
    /\ <<"starting", "running">> \in Edges /\ <<"starting", "failed">> \in Edges
    /\ <<"stopping", "stopped">> \in Edges
  <1>1. /\ \A s \in {"registered", "stopped", "failed"} :
              <<s, "start", "starting">> \in CommandEdges
        /\ \A s \in LiveStates : <<s, "stop", "stopping">> \in CommandEdges
    BY DEF CommandEdges, LiveStates
  <1>2. /\ \A s \in LiveStates : <<s, "failed">> \in EventEdges
        /\ <<"starting", "running">> \in EventEdges
        /\ <<"starting", "failed">> \in EventEdges
        /\ <<"stopping", "stopped">> \in EventEdges
    BY DEF EventEdges, LiveStates
  <1>3. EventEdges \subseteq Edges
    BY DEF Edges
  <1>4. \A s \in {"registered", "stopped", "failed"} : <<s, "starting">> \in Edges
    BY <1>1, CommandEdgeIsEdge
  <1>5. \A s \in LiveStates : <<s, "stopping">> \in Edges
    BY <1>1, CommandEdgeIsEdge
  <1> QED  BY <1>2, <1>3, <1>4, <1>5

-----------------------------------------------------------------------------
(***************************************************************************)
(* The operation in flight and the row it works on.  Each step of an       *)
(* operation is guarded by op.at, so the row's state at that step follows  *)
(* from OpMatchesRow, and so does the edge the step takes.                 *)
(***************************************************************************)
NoSessionIsIdle == ~up => op = Idle

ControlOK == LaunchKnowsPid /\ OpMatchesRow /\ NoSessionIsIdle

LEMMA ControlStep ==
    TypeOK /\ ControlOK /\ [Next]_vars =>
        ControlOK' /\ \A m \in Names : RowMoves(m)
  <1> SUFFICES ASSUME TypeOK, ControlOK, [Next]_vars
               PROVE  ControlOK' /\ \A m \in Names : RowMoves(m)
    OBVIOUS
  <1> DEFINE Moves == \A m \in Names : RowMoves(m)
  <1> USE DEF durable, session, os, history, ControlOK, LaunchKnowsPid,
              OpMatchesRow, NoSessionIsIdle, RowMoves, Idle
  <1>0. row \in [Names -> States \cup {Absent}]
    BY DEF TypeOK
  <1>1. ASSUME NEW n \in Names, register(n)
        PROVE  ControlOK' /\ Moves
    BY <1>0, <1>1 DEF register, Unlocked
  <1>2. ASSUME NEW n \in Names, set_restart_policy(n)
        PROVE  ControlOK' /\ Moves
    BY <1>2 DEF set_restart_policy
  <1>3. ASSUME NEW n \in Names, NEW detach \in BOOLEAN, start(n, detach)
        PROVE  ControlOK' /\ Moves
    <2>1. BeginStart(n, 0, detach)
      BY <1>3 DEF start
    <2> QED  BY <1>0, <1>3, <2>1, BeginStartEffect DEF start, Unlocked
  <1>4. ASSUME NEW n \in Names, NEW a \in Attempts, restart(n, a)
        PROVE  ControlOK' /\ Moves
    <2>1. CASE UNCHANGED <<row, op>>
      BY <1>4, <2>1 DEF restart
    <2>2. ASSUME NEW d, BeginStart(n, a, d)
          PROVE  ControlOK' /\ Moves
      BY <1>0, <1>4, <2>2, BeginStartEffect DEF restart, RestartDue
    <2> QED  BY <1>4, <2>1, <2>2 DEF restart
  <1>5. ASSUME NEW n \in Names, stop(n)
        PROVE  ControlOK' /\ Moves
    <2>1. BeginStop(n, FALSE)
      BY <1>5 DEF stop
    <2> QED  BY <1>0, <1>5, <2>1, BeginStopEffect DEF stop, Unlocked
  <1>6. ASSUME NEW n \in Names, stop_retry(n)
        PROVE  ControlOK' /\ Moves
    BY <1>6 DEF stop_retry, Unconfirmed, NewJob, Unlocked
  <1>7. ASSUME NEW n \in Names, NEW force \in BOOLEAN, remove(n, force)
        PROVE  ControlOK' /\ Moves
    <2>1. CASE StopsFirst(row[n])
      <3>1. BeginStop(n, TRUE)
        BY <1>7, <2>1 DEF remove
      <3> QED  BY <1>0, <1>7, <3>1, BeginStopEffect DEF remove, Unlocked
    <2>2. CASE ~StopsFirst(row[n])
      BY <1>0, <1>7, <2>2 DEF remove, Delete, StopsFirst, LiveStates, Unlocked
    <2> QED  BY <2>1, <2>2
  <1>8. ASSUME NEW n \in Names, NEW command \in {"pause", "resume"},
               suspend_or_resume(n, command)
        PROVE  ControlOK' /\ Moves
    BY <1>0, <1>8, SuspendEffect DEF suspend_or_resume, Unlocked
  <1>9. ASSUME NEW n \in Names, LoseHandle(n), up, op = Idle
        PROVE  ControlOK' /\ Moves
    BY <1>9, LoseHandleEffect DEF LoseHandle
  <1>10. ASSUME NEW n \in Names, poll_exited(n) \/ poll_unreadable(n)
         PROVE  ControlOK' /\ Moves
    BY <1>9, <1>10 DEF poll_exited, poll_unreadable
  <1>11. CASE launch_fails \/ watch_startup_exit \/ write_spawn_record_fails
    BY <1>0, <1>11, EdgeFacts
       DEF launch_fails, watch_startup_exit, write_spawn_record_fails
  <1>12. ASSUME NEW p \in Pids, spawn(p)
         PROVE  ControlOK' /\ Moves
    <2>1. op \in Job
      BY <1>12, JobInFlight DEF spawn, Steps
    <2>2. op'.at = "watch" /\ op'.name = op.name /\ op'.pid = p
      BY <1>12, <2>1 DEF spawn, Goto, Job
    <2> QED  BY <1>12, <2>2 DEF spawn
  <1>13. CASE write_spawn_record
    <2>1. op \in Job
      BY <1>13, JobInFlight DEF write_spawn_record, Steps
    <2> QED  BY <1>13, <2>1, GotoEffect DEF write_spawn_record
  <1>14. CASE become_running
    BY <1>0, <1>14, EdgeFacts DEF become_running
  <1>15. CASE backend_stop
    <2>1. op \in Job
      BY <1>15, JobInFlight DEF backend_stop, Steps
    <2> QED  BY <1>15, <2>1, GotoEffect DEF backend_stop
  <1>16. CASE backend_stop_unconfirmed \/ backend_stop_fails \/ signal_backend
    BY <1>16 DEF backend_stop_unconfirmed, backend_stop_fails, signal_backend
  <1>17. CASE clear_spawn_record
    <2>1. op \in Job
      BY <1>17, JobInFlight DEF clear_spawn_record, Steps
    <2> QED  BY <1>17, <2>1, GotoEffect DEF clear_spawn_record
  <1>18. CASE become_stopped
    <2>1. op \in Job /\ op.name \in Names
      BY <1>18, JobInFlight DEF become_stopped, Steps
    <2>2. row' = [row EXCEPT ![op.name] = "stopped"]
          /\ (op' = Idle \/ op' = Goto("delete"))
      BY <1>18 DEF become_stopped, Transition
    <2> QED  BY <1>0, <1>18, <2>1, <2>2, GotoEffect, EdgeFacts DEF become_stopped
  <1>19. CASE delete_stopped
    BY <1>0, <1>19 DEF delete_stopped, Delete
  <1>20. CASE settle_terminal_record
    <2>1. op \in Job
      BY <1>20, JobInFlight DEF settle_terminal_record, Steps
    <2> QED  BY <1>20, <2>1, GotoEffect DEF settle_terminal_record
  <1>21. CASE become_failed
    <2>1. op.name \in Names /\ row[op.name] \in LiveStates
      BY <1>21, JobInFlight DEF become_failed, Steps
    <2>2. <<row[op.name], "failed">> \in Edges
      BY <2>1, EdgeFacts
    <2> QED  BY <1>0, <1>21, <2>1, <2>2 DEF become_failed
  <1>22. CASE engine_killed \/ engine_exits
    BY <1>22 DEF engine_killed, engine_exits, Unlocked
  <1>23. CASE open
    <2>1. PICK unreadable, uncleared \in SUBSET Names :
             adopt_orphans(unreadable, uncleared)
      BY <1>23 DEF open
    <2>2. Moves
      BY <1>0, <2>1, EdgeFacts DEF adopt_orphans, reconcile_orphan_failed
    <2> QED  BY <1>23, <2>2 DEF open
  <1>24. ASSUME NEW p \in Pids, process_exits(p)
         PROVE  ControlOK' /\ Moves
    BY <1>24 DEF process_exits
  <1>25. CASE UNCHANGED vars
    BY <1>25 DEF vars
  <1> QED
    BY <1>1, <1>2, <1>3, <1>4, <1>5, <1>6, <1>7, <1>8, <1>10, <1>11, <1>12,
       <1>13, <1>14, <1>15, <1>16, <1>17, <1>18, <1>19, <1>20, <1>21, <1>22,
       <1>23, <1>24, <1>25
       DEF Next, Operator, Reaper, Continue

-----------------------------------------------------------------------------
(***************************************************************************)
(* Handles and records.  A handle enters the table at two places: a launch *)
(* that has written its record, and an adoption from a record.  A record   *)
(* changes under a live row only after the reaper took the handle out.     *)
(***************************************************************************)
ReadyIsRecorded ==
    op.at = "ready" => /\ record[op.name] # NoRecord
                       /\ record[op.name].pid = op.pid
                       /\ record[op.name].detach = op.detach

LostHandleIsGone ==
    op.at \in {"seed", "settled", "fail"} => held[op.name] = NoHandle

RecordOK == ReadyIsRecorded /\ LostHandleIsGone /\ HandleIsRecorded

\* A step that touches neither table and makes no row live.
LEMMA TablesKept ==
    ASSUME RecordOK, UNCHANGED <<record, held>>,
           \A m \in Names : row'[m] \in LiveStates => row[m] \in LiveStates,
           op'.at \notin {"ready", "seed", "settled", "fail"}
    PROVE  RecordOK'
  BY DEF RecordOK, ReadyIsRecorded, LostHandleIsGone, HandleIsRecorded

LEMMA RecordStep ==
    ASSUME "append" \notin Faults
    PROVE  TypeOK /\ ControlOK /\ RecordOK /\ [Next]_vars => RecordOK'
  <1> SUFFICES ASSUME TypeOK, ControlOK, RecordOK, [Next]_vars
               PROVE  RecordOK'
    OBVIOUS
  <1> USE NullAssumption
          DEF durable, session, os, history, RecordOK, ReadyIsRecorded,
              LostHandleIsGone, HandleIsRecorded
  <1> USE IdleIsIdle
  <1>0. /\ row \in [Names -> States \cup {Absent}]
        /\ record \in [Names -> SpawnRecord \cup {NoRecord}]
        /\ held \in [Names -> Supervised \cup {NoHandle}]
    BY DEF TypeOK
  <1>1. ASSUME NEW n \in Names, register(n)
        PROVE  RecordOK'
    BY <1>0, <1>1 DEF register, Unlocked, LiveStates
  <1>2. ASSUME NEW n \in Names, set_restart_policy(n)
        PROVE  RecordOK'
    <2>1. PICK q \in Policies : record' = [record EXCEPT ![n] = UpsertPolicy(@, q)]
      BY <1>2 DEF set_restart_policy
    <2>2. record[n] # NoRecord => /\ record'[n] # NoRecord
                                  /\ record'[n].pid = record[n].pid
                                  /\ record'[n].detach = record[n].detach
      <3>1. record[n] # NoRecord => [record[n] EXCEPT !.policy = q] \in SpawnRecord
        BY <1>0, RecordType
      <3> QED  BY <1>0, <2>1, <3>1 DEF UpsertPolicy, SpawnRecord
    <2> QED  BY <1>0, <1>2, <2>1, <2>2 DEF set_restart_policy, Unlocked
  <1>3. ASSUME NEW n \in Names, NEW detach \in BOOLEAN, start(n, detach)
        PROVE  RecordOK'
    <2>1. BeginStart(n, 0, detach)
      BY <1>3 DEF start
    <2>2. \A m \in Names : row'[m] \in LiveStates => row[m] \in LiveStates
      BY <1>0, <2>1, BeginStartEffect DEF LiveStates
    <2>3. op'.at \notin {"ready", "seed", "settled", "fail"}
      BY <2>1, BeginStartEffect, IdleIsIdle
    <2> QED  BY <1>3, <2>2, <2>3, TablesKept DEF start
  <1>4. ASSUME NEW n \in Names, NEW a \in Attempts, restart(n, a)
        PROVE  RecordOK'
    <2>1. CASE UNCHANGED <<row, op>>
      BY <1>4, <2>1 DEF restart
    <2>2. ASSUME NEW d, BeginStart(n, a, d)
          PROVE  RecordOK'
      <3>1. \A m \in Names : row'[m] \in LiveStates => row[m] \in LiveStates
        BY <1>0, <2>2, BeginStartEffect DEF LiveStates
      <3>2. op'.at \notin {"ready", "seed", "settled", "fail"}
        BY <2>2, BeginStartEffect, IdleIsIdle
      <3> QED  BY <1>4, <3>1, <3>2, TablesKept DEF restart
    <2> QED  BY <1>4, <2>1, <2>2 DEF restart
  <1>5. ASSUME NEW n \in Names, NEW then, BeginStop(n, then),
               UNCHANGED <<record, held>>
        PROVE  RecordOK'
    <2>1. \A m \in Names : row'[m] \in LiveStates => row[m] \in LiveStates
      BY <1>0, <1>5, BeginStopEffect DEF LiveStates
    <2>2. op'.at \notin {"ready", "seed", "settled", "fail"}
      BY <1>5, BeginStopEffect, IdleIsIdle
    <2> QED  BY <1>5, <2>1, <2>2, TablesKept
  <1>6. ASSUME NEW n \in Names, stop(n)
        PROVE  RecordOK'
    BY <1>5, <1>6 DEF stop
  <1>7. ASSUME NEW n \in Names, stop_retry(n)
        PROVE  RecordOK'
    BY <1>0, <1>7 DEF stop_retry, NewJob
  <1>8. ASSUME NEW n \in Names, NEW force \in BOOLEAN, remove(n, force)
        PROVE  RecordOK'
    <2>1. CASE StopsFirst(row[n])
      BY <1>5, <1>8, <2>1 DEF remove
    <2>2. CASE ~StopsFirst(row[n])
      BY <1>0, <1>8, <2>2 DEF remove, Delete, LiveStates, Absent, Unlocked
    <2> QED  BY <2>1, <2>2
  <1>9. ASSUME NEW n \in Names, NEW command \in {"pause", "resume"},
               suspend_or_resume(n, command)
        PROVE  RecordOK'
    <2>1. \A m \in Names : row'[m] \in LiveStates => row[m] \in LiveStates
      BY <1>0, <1>9, SuspendEffect
    <2>2. op'.at \notin {"ready", "seed", "settled", "fail"}
      BY <1>9, SuspendEffect, IdleIsIdle
    <2> QED  BY <1>9, <2>1, <2>2, TablesKept DEF suspend_or_resume
  <1>10. ASSUME NEW n \in Names, LoseHandle(n), op = Idle
         PROVE  RecordOK'
    <2>1. /\ row' = row /\ held' = [held EXCEPT ![n] = NoHandle]
          /\ \A m \in Names \ {n} : record'[m] = record[m]
      BY <1>10, LoseHandleEffect
    <2>2. op' = Idle \/ (op'.at \in {"seed", "fail", "clear"} /\ op'.name = n)
      BY <1>10, LoseHandleEffect
    <2> QED  BY <1>0, <2>1, <2>2
  <1>11. ASSUME NEW n \in Names, poll_exited(n) \/ poll_unreadable(n)
         PROVE  RecordOK'
    BY <1>10, <1>11 DEF poll_exited, poll_unreadable
  <1>12. CASE launch_fails \/ watch_startup_exit \/ write_spawn_record_fails
    BY <1>0, <1>12 DEF launch_fails, watch_startup_exit,
                       write_spawn_record_fails, LiveStates
  <1>13. ASSUME NEW p \in Pids, spawn(p)
         PROVE  RecordOK'
    <2>1. op \in Job
      BY <1>13, JobInFlight DEF spawn, Steps
    <2>2. op'.at = "watch"
      BY <1>13, <2>1 DEF spawn, Goto, Job
    <2> QED  BY <1>13, <2>2 DEF spawn
  <1>14. CASE write_spawn_record
    <2>1. op \in Job /\ op.name \in Names
      BY <1>14, JobInFlight DEF write_spawn_record, Steps
    <2>2. row[op.name] = "starting"
      BY <1>14 DEF write_spawn_record, ControlOK, OpMatchesRow
    <2>3. NewSpawnRecord \in SpawnRecord /\ NewSpawnRecord.pid = op.pid
          /\ NewSpawnRecord.detach = op.detach
      BY <2>1 DEF NewSpawnRecord, SpawnRecord, Job
    <2>4. /\ op'.at = "ready" /\ op'.name = op.name
          /\ op'.pid = op.pid /\ op'.detach = op.detach
      BY <1>14, <2>1, GotoEffect DEF write_spawn_record
    <2>5. record' = [record EXCEPT ![op.name] = NewSpawnRecord] /\ row' = row
          /\ held' = held
      BY <1>14 DEF write_spawn_record
    <2> QED  BY <1>0, <2>1, <2>2, <2>3, <2>4, <2>5 DEF LiveStates
  <1>15. CASE become_running
    <2>1. op \in Job /\ op.name \in Names
      BY <1>15, JobInFlight DEF become_running, Steps
    <2>2. held' = [held EXCEPT ![op.name] = NewHandle(op.pid, op.detach)]
      BY <1>15 DEF become_running
    <2> QED  BY <1>0, <1>15, <2>1, <2>2 DEF become_running, NewHandle
  <1>16. CASE backend_stop
    <2>1. op \in Job
      BY <1>16, JobInFlight DEF backend_stop, Steps
    <2> QED  BY <1>0, <1>16, <2>1, GotoEffect DEF backend_stop
  <1>17. CASE backend_stop_unconfirmed
    <2>1. row[op.name] = "stopping"
      BY <1>17 DEF backend_stop_unconfirmed, ControlOK, OpMatchesRow
    <2> QED  BY <1>0, <1>17, <2>1 DEF backend_stop_unconfirmed, LiveStates
  <1>18. CASE backend_stop_fails \/ signal_backend
    BY <1>18 DEF backend_stop_fails, signal_backend
  <1>19. CASE clear_spawn_record
    <2>1. op \in Job /\ op.name \in Names
      BY <1>19, JobInFlight DEF clear_spawn_record, Steps
    <2>2. row[op.name] = "stopping"
      BY <1>19, <2>1 DEF clear_spawn_record, ControlOK, OpMatchesRow
    <2> QED
      BY <1>0, <1>19, <2>1, <2>2, GotoEffect DEF clear_spawn_record, LiveStates
  <1>20. CASE become_stopped
    <2>1. op \in Job /\ op.name \in Names
      BY <1>20, JobInFlight DEF become_stopped, Steps
    <2>2. row' = [row EXCEPT ![op.name] = "stopped"]
          /\ (op' = Idle \/ op' = Goto("delete"))
      BY <1>20 DEF become_stopped, Transition
    <2> QED
      BY <1>0, <1>20, <2>1, <2>2, GotoEffect DEF become_stopped, LiveStates
  <1>21. CASE delete_stopped
    BY <1>0, <1>21, JobInFlight DEF delete_stopped, Delete, LiveStates, Absent, Steps
  <1>22. CASE settle_terminal_record
    <2>1. op \in Job /\ op.name \in Names
      BY <1>22, JobInFlight DEF settle_terminal_record, Steps
    <2> QED
      BY <1>0, <1>22, <2>1, GotoEffect DEF settle_terminal_record
  <1>23. CASE become_failed
    BY <1>0, <1>23 DEF become_failed, LiveStates
  <1>24. CASE engine_killed \/ engine_exits
    BY <1>24 DEF engine_killed, engine_exits, Unlocked, EndSession
  <1>25. CASE open
    <2>1. PICK unreadable, uncleared \in SUBSET Names :
             adopt_orphans(unreadable, uncleared)
      BY <1>25 DEF open
    <2>2. op = Idle /\ op' = Idle
      BY <1>25 DEF open, ControlOK, NoSessionIsIdle
    <2>3. \A n \in Names : held'[n] # NoHandle =>
             /\ Adopts(n, unreadable) /\ record'[n] = record[n]
             /\ held'[n] = NewHandle(record[n].pid, record[n].detach)
      BY <1>0, <2>1 DEF adopt_orphans, IsOrphan
    <2>4. \A n \in Names : held'[n] # NoHandle =>
             /\ record'[n] # NoRecord /\ record'[n].pid = held'[n].pid
             /\ record'[n].detach = held'[n].detach
      <3>1. \A p, d : NewHandle(p, d).pid = p /\ NewHandle(p, d).detach = d
        BY DEF NewHandle
      <3> QED  BY <2>3, <3>1 DEF Adopts, Survives
    <2> QED  BY <2>2, <2>4
  <1>26. ASSUME NEW p \in Pids, process_exits(p)
         PROVE  RecordOK'
    BY <1>26 DEF process_exits
  <1>27. CASE UNCHANGED vars
    BY <1>27 DEF vars
  <1> QED
    BY <1>1, <1>2, <1>3, <1>4, <1>6, <1>7, <1>8, <1>9, <1>11, <1>12, <1>13,
       <1>14, <1>15, <1>16, <1>17, <1>18, <1>19, <1>20, <1>21, <1>22, <1>23,
       <1>24, <1>25, <1>26, <1>27
       DEF Next, Operator, Reaper, Continue

-----------------------------------------------------------------------------
(***************************************************************************)
(* No phantom row.  Between operations a live row has a record naming a    *)
(* process, and in a session it has a handle; the reaper's crash path is   *)
(* the only operation that breaks either, for its own instance and until   *)
(* the row fails.  A kill inside that path's two record writes, or a       *)
(* failed event append, would leave it broken: both are excluded here.     *)
(***************************************************************************)
LiveRowIsRecorded ==
    \A m \in Names :
        /\ row[m] \in LiveStates
        /\ ~(op.at \in {"seed", "settled"} /\ op.name = m)
        => record[m] # NoRecord /\ record[m].pid # NoPid

LiveRowIsHeld ==
    up => \A m \in Names :
              /\ row[m] \in LiveStates
              /\ ~(op.at \in {"seed", "settled", "fail"} /\ op.name = m)
              => held[m] # NoHandle

RowOK == LiveRowIsRecorded /\ LiveRowIsHeld

NoKillWhileSettling == KillAt \cap {"seed", "settled"} = {}

\* A step that touches neither table and makes no row live.
LEMMA RowsKept ==
    ASSUME RowOK, UNCHANGED <<record, held, up>>,
           \A m \in Names : row'[m] \in LiveStates => row[m] \in LiveStates,
           op.at \notin {"seed", "settled", "fail"}
    PROVE  RowOK'
  BY DEF RowOK, LiveRowIsRecorded, LiveRowIsHeld

LEMMA RowStep ==
    ASSUME "append" \notin Faults, NoKillWhileSettling
    PROVE  TypeOK /\ ControlOK /\ RecordOK /\ RowOK /\ [Next]_vars => RowOK'
  <1> SUFFICES ASSUME TypeOK, ControlOK, RecordOK, RowOK, [Next]_vars
               PROVE  RowOK'
    OBVIOUS
  <1> USE NullAssumption, IdleIsIdle
          DEF durable, session, os, history, RowOK, LiveRowIsRecorded,
              LiveRowIsHeld
  <1>0. /\ row \in [Names -> States \cup {Absent}]
        /\ record \in [Names -> SpawnRecord \cup {NoRecord}]
        /\ held \in [Names -> Supervised \cup {NoHandle}]
    BY DEF TypeOK
  <1>1. ASSUME NEW n \in Names, register(n)
        PROVE  RowOK'
    BY <1>0, <1>1 DEF register, Unlocked, LiveStates
  <1>2. ASSUME NEW n \in Names, set_restart_policy(n)
        PROVE  RowOK'
    <2>1. PICK q \in Policies : record' = [record EXCEPT ![n] = UpsertPolicy(@, q)]
      BY <1>2 DEF set_restart_policy
    <2>2. record[n] # NoRecord => /\ record'[n] # NoRecord
                                  /\ record'[n].pid = record[n].pid
      <3>1. record[n] # NoRecord => [record[n] EXCEPT !.policy = q] \in SpawnRecord
        BY <1>0, RecordType
      <3> QED  BY <1>0, <2>1, <3>1 DEF UpsertPolicy, SpawnRecord
    <2> QED  BY <1>0, <1>2, <2>1, <2>2 DEF set_restart_policy, Unlocked
  <1>3. ASSUME NEW n \in Names, NEW detach \in BOOLEAN, start(n, detach)
        PROVE  RowOK'
    <2>1. BeginStart(n, 0, detach)
      BY <1>3 DEF start
    <2>2. \A m \in Names : row'[m] \in LiveStates => row[m] \in LiveStates
      BY <1>0, <2>1, BeginStartEffect DEF LiveStates
    <2> QED  BY <1>3, <2>2, RowsKept DEF start, Unlocked
  <1>4. ASSUME NEW n \in Names, NEW a \in Attempts, restart(n, a)
        PROVE  RowOK'
    <2>1. \A m \in Names : row'[m] \in LiveStates => row[m] \in LiveStates
      <3>1. ASSUME NEW d, BeginStart(n, a, d)
            PROVE  \A m \in Names : row'[m] \in LiveStates => row[m] \in LiveStates
        BY <1>0, <3>1, BeginStartEffect DEF LiveStates
      <3> QED  BY <1>4, <3>1 DEF restart
    <2> QED  BY <1>4, <2>1, RowsKept DEF restart, RestartDue
  <1>5. ASSUME NEW n \in Names, NEW then, BeginStop(n, then),
               UNCHANGED <<record, held, up>>, op = Idle
        PROVE  RowOK'
    <2>1. \A m \in Names : row'[m] \in LiveStates => row[m] \in LiveStates
      BY <1>0, <1>5, BeginStopEffect DEF LiveStates
    <2> QED  BY <1>5, <2>1, RowsKept
  <1>6. ASSUME NEW n \in Names, stop(n)
        PROVE  RowOK'
    BY <1>5, <1>6 DEF stop, Unlocked
  <1>7. ASSUME NEW n \in Names, stop_retry(n)
        PROVE  RowOK'
    BY <1>0, <1>7 DEF stop_retry, Unconfirmed, LiveStates, Unlocked
  <1>8. ASSUME NEW n \in Names, NEW force \in BOOLEAN, remove(n, force)
        PROVE  RowOK'
    <2>1. CASE StopsFirst(row[n])
      BY <1>5, <1>8, <2>1 DEF remove, Unlocked
    <2>2. CASE ~StopsFirst(row[n])
      BY <1>0, <1>8, <2>2 DEF remove, Delete, LiveStates, Absent, Unlocked
    <2> QED  BY <2>1, <2>2
  <1>9. ASSUME NEW n \in Names, NEW command \in {"pause", "resume"},
               suspend_or_resume(n, command)
        PROVE  RowOK'
    <2>1. \A m \in Names : row'[m] \in LiveStates => row[m] \in LiveStates
      BY <1>0, <1>9, SuspendEffect
    <2> QED  BY <1>9, <2>1, RowsKept DEF suspend_or_resume, Unlocked
  <1>10. ASSUME NEW n \in Names, LoseHandle(n), op = Idle
         PROVE  RowOK'
    <2>1. /\ row' = row /\ held' = [held EXCEPT ![n] = NoHandle] /\ up' = up
          /\ \A m \in Names \ {n} : record'[m] = record[m]
      BY <1>10, LoseHandleEffect DEF LoseHandle
    <2>2. CASE row[n] \in LiveStates
      <3>1. op'.at \in {"seed", "fail"} /\ op'.name = n
        BY <1>10, <2>2, LoseHandleEffect DEF LiveStates
      <3>2. op'.at # "seed" => record'[n] # NoRecord /\ record'[n].pid # NoPid
        BY <1>10, <2>2, LoseHandleEffect
      <3> QED  BY <1>0, <1>10, <2>1, <3>1, <3>2
    <2>3. CASE row[n] \notin LiveStates
      BY <1>0, <1>10, <2>1, <2>3
    <2> QED  BY <2>2, <2>3
  <1>11. ASSUME NEW n \in Names, poll_exited(n) \/ poll_unreadable(n)
         PROVE  RowOK'
    BY <1>10, <1>11 DEF poll_exited, poll_unreadable
  <1>12. CASE launch_fails \/ watch_startup_exit \/ write_spawn_record_fails
    BY <1>0, <1>12 DEF launch_fails, watch_startup_exit,
                       write_spawn_record_fails, LiveStates
  <1>13. ASSUME NEW p \in Pids, spawn(p)
         PROVE  RowOK'
    BY <1>13, RowsKept DEF spawn
  <1>14. CASE write_spawn_record
    <2>1. op.name \in Names /\ row[op.name] = "starting"
      BY <1>14, JobInFlight
         DEF write_spawn_record, ControlOK, OpMatchesRow, Steps
    <2> QED  BY <1>0, <1>14, <2>1 DEF write_spawn_record, LiveStates
  <1>15. CASE become_running
    <2>1. op \in Job /\ op.name \in Names
      BY <1>15, JobInFlight DEF become_running, Steps
    <2>2. held' = [held EXCEPT ![op.name] = NewHandle(op.pid, op.detach)]
      BY <1>15 DEF become_running
    <2>3. op.pid \in Pids /\ record[op.name] # NoRecord
          /\ record[op.name].pid = op.pid
      BY <1>15 DEF become_running, ControlOK, LaunchKnowsPid, RecordOK,
                   ReadyIsRecorded
    <2>4. NewHandle(op.pid, op.detach) # NoHandle
      <3>1. op.detach \in BOOLEAN
        BY <2>1 DEF Job
      <3>2. NewHandle(op.pid, op.detach) \in Supervised
        BY <2>3, <3>1 DEF NewHandle, Supervised
      <3> QED  BY <3>2
    <2>5. /\ row' = [row EXCEPT ![op.name] = "running"]
          /\ record' = record /\ up' = up /\ op.at = "ready"
      BY <1>15 DEF become_running
    <2> QED  BY <1>0, <2>1, <2>2, <2>3, <2>4, <2>5
  <1>16. CASE backend_stop
    <2>1. op.name \in Names /\ row[op.name] = "stopping"
      BY <1>16, JobInFlight DEF backend_stop, ControlOK, OpMatchesRow, Steps
    <2> QED  BY <1>0, <1>16, <2>1 DEF backend_stop, LiveStates
  <1>17. CASE backend_stop_unconfirmed
    <2>1. op.name \in Names /\ row[op.name] = "stopping"
      BY <1>17, JobInFlight
         DEF backend_stop_unconfirmed, ControlOK, OpMatchesRow, Steps
    <2> QED  BY <1>0, <1>17, <2>1 DEF backend_stop_unconfirmed, LiveStates
  <1>18. CASE backend_stop_fails \/ signal_backend
    BY <1>18, RowsKept DEF backend_stop_fails, signal_backend
  <1>19. CASE clear_spawn_record
    <2>1. op.name \in Names /\ row[op.name] = "stopping"
      BY <1>19, JobInFlight
         DEF clear_spawn_record, ControlOK, OpMatchesRow, Steps
    <2> QED  BY <1>0, <1>19, <2>1 DEF clear_spawn_record, LiveStates
  <1>20. CASE become_stopped
    <2>1. op.name \in Names /\ row' = [row EXCEPT ![op.name] = "stopped"]
      BY <1>20, JobInFlight DEF become_stopped, Transition, Steps
    <2>2. \A m \in Names : row'[m] \in LiveStates => row[m] \in LiveStates
      BY <1>0, <2>1 DEF LiveStates
    <2> QED  BY <1>20, <2>2, RowsKept DEF become_stopped
  <1>21. CASE delete_stopped
    BY <1>0, <1>21, JobInFlight DEF delete_stopped, Delete, LiveStates, Absent, Steps
  <1>22. CASE settle_terminal_record
    <2>1. op \in Job /\ op.name \in Names
      BY <1>22, JobInFlight DEF settle_terminal_record, Steps
    <2> QED  BY <1>0, <1>22, <2>1, GotoEffect DEF settle_terminal_record
  <1>23. CASE become_failed
    <2>1. op.name \in Names
      BY <1>23, JobInFlight DEF become_failed, Steps
    <2> QED  BY <1>0, <1>23, <2>1 DEF become_failed, LiveStates
  <1>24. CASE engine_killed \/ engine_exits
    <2>1. op.at \notin {"seed", "settled"} /\ up' = FALSE /\ op' = Idle
          /\ UNCHANGED <<row, record>>
      BY <1>24 DEF engine_killed, engine_exits, Unlocked, EndSession,
                   NoKillWhileSettling
    <2> QED  BY <2>1
  <1>25. CASE open
    <2>1. PICK unreadable, uncleared \in SUBSET Names :
             adopt_orphans(unreadable, uncleared)
      BY <1>25 DEF open
    <2>2. op = Idle /\ op' = Idle
      BY <1>25 DEF open, ControlOK, NoSessionIsIdle
    <2>3. ASSUME NEW m \in Names, row'[m] \in LiveStates
          PROVE  /\ row[m] \in LiveStates /\ ~IsOrphan(m, unreadable)
                 /\ record'[m] = record[m]
      BY <1>0, <2>1, <2>3 DEF adopt_orphans, reconcile_orphan_failed, LiveStates
    <2>4. ASSUME NEW m \in Names, row'[m] \in LiveStates
          PROVE  held'[m] # NoHandle
      <3>1. Adopts(m, unreadable)
        BY <2>2, <2>3, <2>4 DEF IsOrphan
      <3>2. NewHandle(record[m].pid, record[m].detach) \in Supervised
        BY <1>0, <3>1 DEF Adopts, Survives, SpawnRecord, NewHandle, Supervised
      <3> QED  BY <2>1, <3>1, <3>2 DEF adopt_orphans
    <2> QED  BY <2>2, <2>3, <2>4
  <1>26. ASSUME NEW p \in Pids, process_exits(p)
         PROVE  RowOK'
    BY <1>26 DEF process_exits
  <1>27. CASE UNCHANGED vars
    BY <1>27 DEF vars
  <1> QED
    BY <1>1, <1>2, <1>3, <1>4, <1>6, <1>7, <1>8, <1>9, <1>11, <1>12, <1>13,
       <1>14, <1>15, <1>16, <1>17, <1>18, <1>19, <1>20, <1>21, <1>22, <1>23,
       <1>24, <1>25, <1>26, <1>27
       DEF Next, Operator, Reaper, Continue

-----------------------------------------------------------------------------
LEMMA InitOK == Init => TypeOK /\ ControlOK /\ RecordOK /\ RowOK
  BY MaxFailuresAssumption, IdleIsIdle
     DEF Init, TypeOK, NoPlans, DefaultPolicy, Policies, States, Absent,
         ControlOK, LaunchKnowsPid, OpMatchesRow, NoSessionIsIdle, RecordOK,
         ReadyIsRecorded, LostHandleIsGone, HandleIsRecorded, RowOK,
         LiveRowIsRecorded, LiveRowIsHeld, LiveStates

(***************************************************************************)
(* Every variable keeps its type, whatever fails and wherever the engine   *)
(* is killed (the types of Supervisor::running, RestartPlan and the rows   *)
(* of agent_runtime).                                                      *)
(***************************************************************************)
THEOREM TypeCorrect == Spec => []TypeOK
  <1>1. Init => TypeOK /\ ControlOK
    BY InitOK
  <1>2. TypeOK /\ ControlOK /\ [Next]_vars => (TypeOK /\ ControlOK)'
    BY TypeStep, ControlStep DEF ControlOK
  <1> QED  BY <1>1, <1>2, PTL DEF Spec

(***************************************************************************)
(* The operation in flight owns its row: start_inner, stop_inner and       *)
(* poll_once never find the row in a state other than the one they left.   *)
(***************************************************************************)
THEOREM OperationOwnsRow == Spec => []OpMatchesRow
  <1>1. Init => TypeOK /\ ControlOK
    BY InitOK
  <1>2. TypeOK /\ ControlOK /\ [Next]_vars => (TypeOK /\ ControlOK)'
    BY TypeStep, ControlStep DEF ControlOK
  <1>3. ControlOK => OpMatchesRow
    BY DEF ControlOK
  <1> QED  BY <1>1, <1>2, <1>3, PTL DEF Spec

(***************************************************************************)
(* The row moves only along the lifecycle's edges, for every operator,     *)
(* timer, reaper, crash and reconcile (transition.rs and the event edges). *)
(***************************************************************************)
THEOREM LifecycleFollowed == Spec => RowFollowsLifecycle
  <1>1. Init => TypeOK /\ ControlOK
    BY InitOK
  <1>2. TypeOK /\ ControlOK /\ [Next]_vars => (TypeOK /\ ControlOK)'
    BY TypeStep, ControlStep DEF ControlOK
  <1>3. TypeOK /\ ControlOK /\ [Next]_vars =>
            [\A n \in Names : RowMoves(n)]_vars
    BY ControlStep
  <1> QED  BY <1>1, <1>2, <1>3, PTL DEF Spec, RowFollowsLifecycle

(***************************************************************************)
(* What a killed engine leaves behind can be found again: the handle of a  *)
(* live row is on record, if appends to the event log succeed (start_inner *)
(* writes the record before the row runs, AD-5).                           *)
(***************************************************************************)
THEOREM HandlesRecorded ==
    ASSUME "append" \notin Faults
    PROVE  Spec => []HandleIsRecorded
  <1> DEFINE IInv == TypeOK /\ ControlOK /\ RecordOK
  <1>1. Init => IInv
    BY InitOK
  <1>2. IInv /\ [Next]_vars => IInv'
    BY TypeStep, ControlStep, RecordStep DEF ControlOK
  <1>3. IInv => HandleIsRecorded
    BY DEF RecordOK
  <1> QED  BY <1>1, <1>2, <1>3, PTL DEF Spec

(***************************************************************************)
(* No row claims a process nobody supervises, across any number of kills   *)
(* and adoptions, if appends succeed and no kill falls between the two     *)
(* writes of settle_terminal_record and the failed row (AI-8).             *)
(***************************************************************************)
THEOREM NoPhantom ==
    ASSUME "append" \notin Faults, NoKillWhileSettling
    PROVE  Spec => []NoPhantomRow
  <1> DEFINE IInv == TypeOK /\ ControlOK /\ RecordOK /\ RowOK
  <1>1. Init => IInv
    BY InitOK
  <1>2. IInv /\ [Next]_vars => IInv'
    BY TypeStep, ControlStep, RecordStep, RowStep DEF ControlOK
  <1>3. IInv => NoPhantomRow
    BY IdleIsIdle DEF RowOK, LiveRowIsHeld, NoPhantomRow
  <1> QED  BY <1>1, <1>2, <1>3, PTL DEF Spec

-----------------------------------------------------------------------------
(***************************************************************************)
(* Who owns the agent processes: theorems about Supervisor that need to    *)
(* know where the process of an instance is recorded and held.             *)
(***************************************************************************)

(***************************************************************************)
(* The hypotheses.  Each excludes a way in which the code does leave a     *)
(* process behind: a handle given up while its process may live; a         *)
(* detached process whose handle's drop does not kill it, or whose         *)
(* teardown fails; a kill of the engine between the spawn and the record   *)
(* of it; and a removal of a row whose stop or launch has not finished.    *)
(***************************************************************************)
ReadableProcesses == Faults \cap {"poll", "adopt"} = {}

DetachedLaunchesLand ==
    "detach" \in Commands =>
        /\ "append" \notin Faults
        /\ "record" \notin Faults \/ Faults \cap {"stuck", "control"} = {}

NoKillBeforeRecord ==
    "watch" \in KillAt => DiesWithEngine /\ "detach" \notin Commands

RemovesSettledRows ==
    "remove" \in Commands =>
        /\ Faults \cap {"append", "stuck", "control"} = {}
        /\ KillAt \cap {"watch", "ready", "kill"} = {}

Supervisable ==
    /\ ReadableProcesses /\ DetachedLaunchesLand /\ NoKillBeforeRecord
    /\ RemovesSettledRows

-----------------------------------------------------------------------------
\* The launch in flight is that of process p.
Launches(p) ==
    op.at \in {"watch", "ready"} /\ op.pid = p /\ op.name = owner[p]

LiveIsLocated ==
    up => \A p \in Pids : Alive(p) =>
              \/ held[owner[p]] # NoHandle /\ held[owner[p]].pid = p
              \/ Launches(p)

LiveIsRecorded ==
    \A p \in Pids : Alive(p) =>
        \/ record[owner[p]] # NoRecord /\ record[owner[p]].pid = p
        \/ op.at = "watch" /\ Launches(p)

RestingRowIsDead ==
    \A p \in Pids : Alive(p) =>
        row[owner[p]] \in {"starting", "running", "paused", "stopping"}

\* An operation has no process before it spawns one and after its last died.
OpIsAlone ==
    \A p \in Pids : Alive(p) /\ op.at # "idle" /\ op.name = owner[p] =>
        /\ op.at \in {"watch", "ready", "kill", "signal"}
        /\ op.at \in {"watch", "ready"} => op.pid = p

RemovedIsDead ==
    "remove" \in Commands =>
        \A p \in Pids : Alive(p) /\ row[owner[p]] \in {"starting", "stopping"} =>
            op.at \in {"watch", "ready", "kill"} /\ op.name = owner[p]

NothingDetached ==
    "detach" \notin Commands =>
        /\ op.at # "idle" => ~op.detach
        /\ \A n \in Names : /\ record[n] # NoRecord => ~record[n].detach
                            /\ held[n] # NoHandle => ~held[n].detach

OwnedOK ==
    /\ LiveIsLocated /\ LiveIsRecorded /\ RestingRowIsDead /\ OpIsAlone
    /\ RemovedIsDead /\ NothingDetached

-----------------------------------------------------------------------------
\* A step that starts no process.
NoneSpawned == \A p \in Pids : Alive(p)' => owner'[p] = owner[p] /\ Alive(p)

LEMMA KillSpawnsNone ==
    ASSUME NEW P, Kill(P)
    PROVE  NoneSpawned /\ \A p \in Pids \cap P : ~Alive(p)'
  BY DEF Kill, NoneSpawned, Alive

\* A killed engine takes an attached launch with it where jobs are closed.
LEMMA KilledEffect ==
    ASSUME engine_killed
    PROVE  /\ NoneSpawned
           /\ \A p \in Pids :
                 DiesWithEngine /\ op # Idle /\ ~op.detach /\ p = op.pid => ~Alive(p)'
  <1>1. IF DiesWithEngine THEN Kill(DropAll \cup Launching) ELSE UNCHANGED os
    BY DEF engine_killed
  <1>2. \A p \in Pids : op # Idle /\ ~op.detach /\ p = op.pid => p \in Launching
    BY DEF Launching
  <1>3. UNCHANGED os => NoneSpawned
    BY DEF os, NoneSpawned, Alive
  <1> QED  BY <1>1, <1>2, <1>3, KillSpawnsNone

LEMMA OwnerIsName ==
    ASSUME TypeOK, NEW p \in Pids, Alive(p)
    PROVE  owner[p] \in Names
  BY DEF TypeOK, Alive

\* The jobs the operations begin with.
LEMMA StartJob ==
    ASSUME NEW n \in Names, NEW attempt, NEW detach,
           BeginStart(n, attempt, detach)
    PROVE  op' = Idle \/ (op'.detach = detach /\ op'.attempt = attempt)
  BY DEF BeginStart, Transition, NewJob

LEMMA StopJob ==
    ASSUME NEW n \in Names, NEW then, BeginStop(n, then)
    PROVE  \/ op' = Idle /\ "append" \in Faults
           \/ op'.at = "kill" /\ op'.name = n /\ ~op'.detach
  BY DEF BeginStop, Transition, NewJob

\* A lost handle leaves its record's detach flag alone.
LEMMA LoseHandleJob ==
    ASSUME TypeOK, NEW n \in Names, LoseHandle(n), op = Idle
    PROVE  /\ op' = Idle \/ ~op'.detach
           /\ \A m \in Names : \/ record'[m] = NoRecord
                               \/ /\ record[m] # NoRecord
                                  /\ record'[m].detach = record[m].detach
  <1>1. /\ \A step \in Steps : ~NewJob(n, step).detach
        /\ \A k : ~[NewJob(n, "fail") EXCEPT !.attempt = k].detach
        /\ \A q : ~[NewJob(n, "seed") EXCEPT !.policy = q].detach
    BY DEF NewJob
  <1>2. record \in [Names -> SpawnRecord \cup {NoRecord}]
    BY DEF TypeOK
  <1>3. \A k : record[n] # NoRecord =>
              [record[n] EXCEPT !.count = k].detach = record[n].detach
    BY <1>2 DEF SpawnRecord
  <1>4. CASE plan_restart(n)
    BY <1>1, <1>2, <1>3, <1>4 DEF plan_restart
  <1>5. CASE ~plan_restart(n)
    BY <1>1, <1>5 DEF LoseHandle, Reap, Steps
  <1> QED  BY <1>4, <1>5

LEMMA OwnedStep ==
    ASSUME Supervisable
    PROVE  TypeOK /\ ControlOK /\ OwnedOK /\ [Next]_vars => OwnedOK'
  <1> SUFFICES ASSUME TypeOK, ControlOK, OwnedOK, [Next]_vars
               PROVE  OwnedOK'
    OBVIOUS
  <1> USE NullAssumption, IdleIsIdle
          DEF durable, session, os, history, OwnedOK, LiveIsLocated,
              LiveIsRecorded, RestingRowIsDead, OpIsAlone, RemovedIsDead,
              NothingDetached, Launches, NoneSpawned
  <1>0. /\ row \in [Names -> States \cup {Absent}]
        /\ record \in [Names -> SpawnRecord \cup {NoRecord}]
        /\ held \in [Names -> Supervised \cup {NoHandle}]
        /\ owner \in [Pids -> Names \cup {Nobody}]
        /\ \A p \in Pids : Alive(p) => owner[p] \in Names
    BY DEF TypeOK, Alive
  <1>1. ASSUME NEW n \in Names, register(n)
        PROVE  OwnedOK'
    BY <1>0, <1>1 DEF register, Unlocked, Alive, Absent
  <1>2. ASSUME NEW n \in Names, set_restart_policy(n)
        PROVE  OwnedOK'
    <2>1. PICK q \in Policies : record' = [record EXCEPT ![n] = UpsertPolicy(@, q)]
      BY <1>2 DEF set_restart_policy
    <2>2. record[n] # NoRecord => /\ record'[n] # NoRecord
                                  /\ record'[n].pid = record[n].pid
                                  /\ record'[n].detach = record[n].detach
      <3>1. record[n] # NoRecord => [record[n] EXCEPT !.policy = q] \in SpawnRecord
        BY <1>0, RecordType
      <3> QED  BY <1>0, <2>1, <3>1 DEF UpsertPolicy, SpawnRecord
    <2>3. record[n] = NoRecord => ~record'[n].detach
      BY <1>0, <2>1 DEF UpsertPolicy, PolicySeed
    <2> QED  BY <1>0, <1>2, <2>1, <2>2, <2>3 DEF set_restart_policy, Unlocked, Alive
  <1>3. ASSUME NEW n \in Names, NEW attempt, NEW detach,
               BeginStart(n, attempt, detach), op = Idle,
               "detach" \notin Commands => ~detach,
               UNCHANGED <<record, held, up, owner>>
        PROVE  OwnedOK'
    <2>1. /\ row' = [row EXCEPT ![n] = "starting"]
          /\ row[n] \in {"registered", "stopped", "failed"}
          /\ op' = Idle \/ (op'.at = "launch" /\ op'.name = n /\ op'.detach = detach)
      BY <1>3, BeginStartEffect, StartJob
    <2>2. \A p \in Pids : Alive(p) => owner[p] # n
      BY <1>0, <2>1
    <2> QED  BY <1>0, <1>3, <2>1, <2>2 DEF Alive
  <1>4. ASSUME NEW n \in Names, NEW detach \in BOOLEAN, start(n, detach)
        PROVE  OwnedOK'
    BY <1>3, <1>4 DEF start, Unlocked
  <1>5. ASSUME NEW n \in Names, NEW a \in Attempts, restart(n, a)
        PROVE  OwnedOK'
    <2>1. CASE UNCHANGED <<row, op>>
      BY <1>5, <2>1 DEF restart, Alive
    <2>2. CASE BeginStart(n, a, record[n] # NoRecord /\ record[n].detach)
      BY <1>3, <1>5, <2>2 DEF restart, RestartDue
    <2> QED  BY <1>5, <2>1, <2>2 DEF restart
  <1>6. ASSUME NEW n \in Names, NEW then, BeginStop(n, then), op = Idle,
               UNCHANGED <<record, held, up, owner>>
        PROVE  OwnedOK'
    <2>1. /\ row' = [row EXCEPT ![n] = "stopping"] /\ row[n] \in LiveStates
          /\ \/ op' = Idle /\ "append" \in Faults
             \/ op'.at = "kill" /\ op'.name = n /\ ~op'.detach
      BY <1>6, BeginStopEffect, StopJob
    <2>2. "append" \in Faults => "remove" \notin Commands
      BY DEF Supervisable, RemovesSettledRows
    <2> QED  BY <1>0, <1>6, <2>1, <2>2 DEF Alive, LiveStates
  <1>7. ASSUME NEW n \in Names, stop(n)
        PROVE  OwnedOK'
    BY <1>6, <1>7 DEF stop, Unlocked
  <1>8. ASSUME NEW n \in Names, stop_retry(n)
        PROVE  OwnedOK'
    BY <1>0, <1>8 DEF stop_retry, NewJob, Unlocked, Alive
  <1>9. ASSUME NEW n \in Names, NEW force \in BOOLEAN, remove(n, force)
        PROVE  OwnedOK'
    <2>1. CASE StopsFirst(row[n])
      BY <1>6, <1>9, <2>1 DEF remove, Unlocked
    <2>2. CASE ~StopsFirst(row[n])
      BY <1>0, <1>9, <2>2
         DEF remove, Delete, StopsFirst, LiveStates, Unlocked, Alive
    <2> QED  BY <2>1, <2>2
  <1>10. ASSUME NEW n \in Names, NEW command \in {"pause", "resume"},
                suspend_or_resume(n, command)
         PROVE  OwnedOK'
    <2>1. ~NewJob(n, "signal").detach
      BY DEF NewJob
    <2>2. op' = Idle \/ ~op'.detach
      BY <1>10, <2>1 DEF suspend_or_resume, Transition
    <2>3. /\ row' = [row EXCEPT ![n] = next_state(row[n], command)]
          /\ row[n] \in LiveStates /\ next_state(row[n], command) \in LiveStates
          /\ op' = Idle \/ (op'.at = "signal" /\ op'.name = n)
      BY <1>10, SuspendEffect
    <2>4. op = Idle /\ UNCHANGED <<record, held, up, owner>>
      BY <1>10 DEF suspend_or_resume, Unlocked
    <2> HIDE DEF Idle
    <2> QED  BY <1>0, <2>2, <2>3, <2>4 DEF LiveStates, Alive
  <1>11. ASSUME NEW n \in Names, poll_exited(n) \/ poll_unreadable(n)
         PROVE  OwnedOK'
    <2>1. poll_exited(n)
      BY <1>11 DEF poll_unreadable, Supervisable, ReadableProcesses
    <2>2. LoseHandle(n) /\ op = Idle /\ up /\ ~Alive(held[n].pid)
          /\ owner' = owner /\ up' = up
      BY <2>1 DEF poll_exited, LoseHandle
    <2>3. \A p \in Pids : Alive(p) => owner[p] # n
      BY <2>2
    <2>4. /\ row' = row /\ held' = [held EXCEPT ![n] = NoHandle]
          /\ op' = Idle \/ op'.name = n
          /\ op'.at \in {"idle", "seed", "fail", "clear"}
          /\ \A m \in Names \ {n} : record'[m] = record[m]
      BY <2>2, LoseHandleEffect
    <2>5. /\ op' = Idle \/ ~op'.detach
          /\ \A m \in Names : \/ record'[m] = NoRecord
                              \/ /\ record[m] # NoRecord
                                 /\ record'[m].detach = record[m].detach
      BY <2>2, LoseHandleJob
    <2> QED  BY <1>0, <2>2, <2>3, <2>4, <2>5 DEF Alive
  <1>12. CASE launch_fails \/ watch_startup_exit
    BY <1>0, <1>12, JobInFlight DEF launch_fails, watch_startup_exit, Alive, Steps
  <1>13. ASSUME NEW p \in Pids, spawn(p)
         PROVE  OwnedOK'
    <2>1. op \in Job /\ op.name \in Names
      BY <1>13, JobInFlight DEF spawn, Steps
    <2>2. /\ op'.at = "watch" /\ op'.name = op.name /\ op'.pid = p
          /\ op'.detach = op.detach
      BY <1>13, <2>1 DEF spawn, Goto, Job
    <2>3. row[op.name] = "starting"
      BY <1>13 DEF spawn, ControlOK, OpMatchesRow, Idle
    <2> QED  BY <1>0, <1>13, <2>1, <2>2, <2>3 DEF spawn, Fresh, Alive
  <1>14. CASE write_spawn_record
    <2>1. op \in Job /\ op.name \in Names
      BY <1>14, JobInFlight DEF write_spawn_record, Steps
    <2>2. NewSpawnRecord \in SpawnRecord /\ NewSpawnRecord.pid = op.pid
          /\ NewSpawnRecord.detach = op.detach
      BY <2>1 DEF NewSpawnRecord, SpawnRecord, Job
    <2>3. /\ op'.at = "ready" /\ op'.name = op.name
          /\ op'.pid = op.pid /\ op'.detach = op.detach
      BY <1>14, <2>1, GotoEffect DEF write_spawn_record
    <2> QED  BY <1>0, <1>14, <2>1, <2>2, <2>3 DEF write_spawn_record, Alive
  <1>15. CASE write_spawn_record_fails
    <2>1. op \in Job /\ op.name \in Names
      BY <1>15, JobInFlight DEF write_spawn_record_fails, Steps
    <2>2. Kill({op.pid})
      BY <1>15, <2>1
         DEF write_spawn_record_fails, Teardown, Supervisable, DetachedLaunchesLand
    <2>3. \A q \in Pids : Alive(q)' => owner'[q] = owner[q] /\ Alive(q) /\ q # op.pid
      BY <2>2, KillSpawnsNone
    <2> QED  BY <1>0, <1>15, <2>1, <2>3 DEF write_spawn_record_fails
  <1>16. CASE become_running
    <2>1. op \in Job /\ op.name \in Names /\ op.pid \in Pids
      BY <1>16, JobInFlight DEF become_running, Steps, ControlOK, LaunchKnowsPid
    <2>2. /\ row' = [row EXCEPT ![op.name] = "running"] /\ op' = Idle
          /\ record' = record /\ up' = up /\ op.at = "ready"
      BY <1>16 DEF become_running
    <2>3. CASE /\ held' = [held EXCEPT ![op.name] = NewHandle(op.pid, op.detach)]
               /\ Kill(DropKills(held[op.name]))
      <3>1. NoneSpawned
        BY <2>3, KillSpawnsNone
      <3>2. /\ NewHandle(op.pid, op.detach) # NoHandle
            /\ NewHandle(op.pid, op.detach).pid = op.pid
            /\ NewHandle(op.pid, op.detach).detach = op.detach
        <4>1. NewHandle(op.pid, op.detach) \in Supervised
          BY <2>1 DEF NewHandle, Supervised, Job
        <4> QED  BY <4>1 DEF NewHandle
      <3> QED  BY <1>0, <2>1, <2>2, <2>3, <3>1, <3>2
    <2>4. CASE /\ "append" \in Faults /\ held' = held
               /\ Kill(DropKills(NewHandle(op.pid, op.detach)))
      <3>1. DropKills(NewHandle(op.pid, op.detach)) = {op.pid}
        <4>1. ~op.detach
          BY <2>2, <2>4 DEF Supervisable, DetachedLaunchesLand
        <4>2. NewHandle(op.pid, op.detach) \in Supervised
          BY <2>1 DEF NewHandle, Supervised, Job
        <4> QED  BY <4>1, <4>2 DEF NewHandle, DropKills
      <3>2. \A q \in Pids : Alive(q)' => owner'[q] = owner[q] /\ Alive(q) /\ q # op.pid
        BY <2>4, <3>1, KillSpawnsNone
      <3> QED  BY <1>0, <2>1, <2>2, <2>4, <3>2
    <2> QED  BY <1>16, <2>3, <2>4 DEF become_running
  <1>17. CASE backend_stop
    <2>1. op \in Job /\ op.name \in Names
      BY <1>17, JobInFlight DEF backend_stop, Steps
    <2>2. /\ op'.at = "clear" /\ op'.name = op.name /\ op'.detach = op.detach
          /\ held' = [held EXCEPT ![op.name] = NoHandle]
          /\ UNCHANGED <<row, record, up>> /\ op.at = "kill"
      BY <1>17, <2>1, GotoEffect DEF backend_stop
    <2>3. \A q \in Pids : Alive(q)' =>
             /\ owner'[q] = owner[q] /\ Alive(q)
             /\ held[op.name] = NoHandle \/ held[op.name].pid # q
      BY <1>17, KillSpawnsNone DEF backend_stop
    <2>4. up
      BY <2>2 DEF ControlOK, NoSessionIsIdle
    <2> QED  BY <1>0, <2>1, <2>2, <2>3, <2>4
  <1>18. CASE backend_stop_unconfirmed
    <2>1. op \in Job /\ op.name \in Names
      BY <1>18, JobInFlight DEF backend_stop_unconfirmed, Steps
    <2>2. /\ held[op.name] \in Supervised
          /\ held' = [held EXCEPT ![op.name].stop_unconfirmed = TRUE]
      BY <1>0, <1>18, <2>1 DEF backend_stop_unconfirmed
    <2>3. /\ held'[op.name] \in Supervised
          /\ held'[op.name].pid = held[op.name].pid
          /\ held'[op.name].detach = held[op.name].detach
          /\ \A m \in Names \ {op.name} : held'[m] = held[m]
      BY <1>0, <2>1, <2>2 DEF Supervised
    <2>4. "remove" \notin Commands
      BY <1>18 DEF backend_stop_unconfirmed, Supervisable, RemovesSettledRows
    <2>5. op' = Idle /\ UNCHANGED <<row, record, up, owner>> /\ op.at = "kill"
      BY <1>18 DEF backend_stop_unconfirmed
    <2>6. \A m \in Names : held[m] # NoHandle =>
             /\ held'[m] # NoHandle
             /\ held'[m].pid = held[m].pid /\ held'[m].detach = held[m].detach
      BY <1>0, <2>1, <2>2, <2>3
    <2>7. \A m \in Names : held[m] = NoHandle => held'[m] = NoHandle
      BY <1>0, <2>2, <2>3
    <2> QED  BY <1>0, <2>1, <2>4, <2>5, <2>6, <2>7 DEF Alive
  <1>19. CASE backend_stop_fails
    BY <1>0, <1>19 DEF backend_stop_fails, Alive, Supervisable, RemovesSettledRows
  <1>20. CASE signal_backend
    BY <1>0, <1>20 DEF signal_backend, Alive
  <1>21. CASE clear_spawn_record
    <2>1. op \in Job /\ op.name \in Names
      BY <1>21, JobInFlight DEF clear_spawn_record, Steps
    <2> QED  BY <1>0, <1>21, <2>1, GotoEffect DEF clear_spawn_record, Alive
  <1>22. CASE become_stopped
    <2>1. op \in Job /\ op.name \in Names
      BY <1>22, JobInFlight DEF become_stopped, Steps
    <2>2. row' = [row EXCEPT ![op.name] = "stopped"]
          /\ (op' = Idle \/ op' = Goto("delete"))
      BY <1>22 DEF become_stopped, Transition
    <2> QED  BY <1>0, <1>22, <2>1, <2>2, GotoEffect DEF become_stopped, Alive
  <1>23. CASE delete_stopped
    <2>1. op \in Job /\ op.name \in Names
      BY <1>23, JobInFlight DEF delete_stopped, Steps
    <2> QED  BY <1>0, <1>23, <2>1 DEF delete_stopped, Delete, Alive
  <1>24. CASE settle_terminal_record
    <2>1. op \in Job /\ op.name \in Names
      BY <1>24, JobInFlight DEF settle_terminal_record, Steps
    <2>2. UpsertPolicy(record[op.name], op.policy).detach =>
             record[op.name] # NoRecord /\ record[op.name].detach
      BY <1>0, <2>1 DEF UpsertPolicy, PolicySeed, SpawnRecord
    <2>3. /\ op'.at = "settled" /\ op'.name = op.name /\ op'.detach = op.detach
          /\ UNCHANGED <<row, held, up, owner>> /\ op.at = "seed"
      BY <1>24, <2>1, GotoEffect DEF settle_terminal_record
    <2>4. \/ record' = [record EXCEPT ![op.name] = UpsertPolicy(@, op.policy)]
          \/ record' = record
      BY <1>24 DEF settle_terminal_record
    <2>5. \A p \in Pids : Alive(p) => owner[p] # op.name
      BY <2>3
    <2> QED  BY <1>0, <2>1, <2>2, <2>3, <2>4, <2>5 DEF Alive
  <1>25. CASE become_failed
    <2>1. op \in Job /\ op.name \in Names
      BY <1>25, JobInFlight DEF become_failed, Steps
    <2> QED  BY <1>0, <1>25, <2>1 DEF become_failed, Alive
  <1>26. CASE engine_killed
    <2>1. /\ up' = FALSE /\ op' = Idle /\ UNCHANGED <<row, record>>
          /\ op.at \in KillAt
          /\ held' = [n \in Names |-> NoHandle]
      BY <1>26 DEF engine_killed, EndSession
    <2>2. NoneSpawned
      BY <1>26, KilledEffect
    <2>3. op.at = "watch" => \A p \in Pids : p = op.pid => ~Alive(p)'
      <3>1. op.at = "watch" => op # Idle
        BY JobInFlight DEF Steps
      <3>2. op.at = "watch" => DiesWithEngine /\ ~op.detach
        BY <2>1, <3>1 DEF Supervisable, NoKillBeforeRecord
      <3> QED  BY <1>26, <3>1, <3>2, KilledEffect
    <2>4. "remove" \in Commands => op.at \notin {"watch", "ready", "kill"}
      BY <2>1 DEF Supervisable, RemovesSettledRows
    <2> HIDE DEF Idle
    <2> QED  BY <1>0, <2>1, <2>2, <2>3, <2>4
  <1>27. CASE engine_exits
    <2>1. /\ up' = FALSE /\ op' = Idle /\ op = Idle /\ UNCHANGED <<row, record>>
          /\ held' = [n \in Names |-> NoHandle]
      BY <1>27 DEF engine_exits, EndSession, Unlocked
    <2>2. NoneSpawned
      BY <1>27, KillSpawnsNone DEF engine_exits
    <2> QED  BY <1>0, <2>1, <2>2
  <1>28. CASE open
    <2>1. PICK uncleared \in SUBSET Names : adopt_orphans({}, uncleared)
      BY <1>28 DEF open, Supervisable, ReadableProcesses
    <2>2. op = Idle /\ op' = Idle /\ owner' = owner
      BY <1>28 DEF open, ControlOK, NoSessionIsIdle
    <2>3. \A n \in Names : Adopts(n, {}) =>
             /\ held'[n] # NoHandle /\ held'[n].pid = record[n].pid
             /\ record'[n] = record[n] /\ row'[n] = row[n]
      <3>1. ASSUME NEW n \in Names, Adopts(n, {})
            PROVE  NewHandle(record[n].pid, record[n].detach) \in Supervised
        BY <1>0, <3>1 DEF Adopts, Survives, SpawnRecord, NewHandle, Supervised
      <3> QED  BY <1>0, <2>1, <3>1 DEF adopt_orphans, IsOrphan, NewHandle
    <2>4. \A p \in Pids : Alive(p) =>
             /\ Adopts(owner[p], {}) /\ record[owner[p]].pid = p
      BY <1>0, <2>2 DEF Adopts, Survives
    <2>5. \A n \in Names : held'[n] # NoHandle =>
             record[n] # NoRecord /\ held'[n].detach = record[n].detach
      BY <2>1 DEF adopt_orphans, NewHandle, Adopts, Survives
    <2>6. \A n \in Names : record'[n] # NoRecord => record'[n] = record[n]
      BY <2>1 DEF adopt_orphans
    <2> QED  BY <1>0, <2>2, <2>3, <2>4, <2>5, <2>6 DEF Alive
  <1>29. ASSUME NEW p \in Pids, process_exits(p)
         PROVE  OwnedOK'
    <2>1. NoneSpawned
      BY <1>29, KillSpawnsNone DEF process_exits
    <2> QED  BY <1>0, <1>29, <2>1 DEF process_exits
  <1>30. CASE UNCHANGED vars
    BY <1>30 DEF vars, Alive
  <1> QED
    BY <1>1, <1>2, <1>4, <1>5, <1>7, <1>8, <1>9, <1>10, <1>11, <1>12, <1>13,
       <1>14, <1>15, <1>16, <1>17, <1>18, <1>19, <1>20, <1>21, <1>22, <1>23,
       <1>24, <1>25, <1>26, <1>27, <1>28, <1>29, <1>30
       DEF Next, Operator, Reaper, Continue

LEMMA OwnedInit == Init => OwnedOK
  BY IdleIsIdle
     DEF Init, OwnedOK, LiveIsLocated, LiveIsRecorded, RestingRowIsDead,
         OpIsAlone, RemovedIsDead, NothingDetached, Alive

Owns == TypeOK /\ ControlOK /\ OwnedOK

LEMMA OwnsInvariant ==
    ASSUME Supervisable
    PROVE  Spec => []Owns
  <1>1. Init => Owns
    BY InitOK, OwnedInit DEF Owns
  <1>2. Owns /\ [Next]_vars => Owns'
    BY TypeStep, ControlStep, OwnedStep DEF Owns, ControlOK
  <1> QED  BY <1>1, <1>2, PTL DEF Spec

(***************************************************************************)
(* No process escapes supervision: in a session it is held or being        *)
(* launched, between sessions its record names it, for adopt_orphans to    *)
(* find (NFR-1).                                                           *)
(***************************************************************************)
THEOREM Supervision ==
    ASSUME Supervisable
    PROVE  Spec => []NoOrphan
  <1>1. Owns => NoOrphan
    BY OwnerIsName, IdleIsIdle
       DEF Owns, OwnedOK, LiveIsLocated, LiveIsRecorded, Launches, NoOrphan,
           ControlOK, NoSessionIsIdle
  <1> QED  BY <1>1, OwnsInvariant, PTL

(***************************************************************************)
(* start_inner never launches a second process beside a first one, and an  *)
(* adopted process is the only one of its instance.                        *)
(***************************************************************************)
THEOREM AtMostOneProcess ==
    ASSUME Supervisable
    PROVE  Spec => []OneProcess
  <1>1. Owns => OneProcess
    BY NullAssumption
       DEF Owns, OwnedOK, LiveIsRecorded, OpIsAlone, Launches, OneProcess,
           Live, Alive
  <1> QED  BY <1>1, OwnsInvariant, PTL

-----------------------------------------------------------------------------
(***************************************************************************)
(* Supervisor implements AgentInstance: every step of the engine, of its   *)
(* crashes and of its adoptions is, for each instance, a step its operator *)
(* was promised, or none.                                                  *)
(***************************************************************************)

(***************************************************************************)
(* Beyond the hypotheses of supervision, the host commits what the engine  *)
(* writes: a record that fails and an append that fails end a launch by    *)
(* killing its process and moving its row at once, which is two of the     *)
(* promise's steps.                                                        *)
(***************************************************************************)
WritesLand == Faults \cap {"append", "record"} = {}

\* The fingerprint of a launch is not that of the handle it replaces.
LaunchIsFresh ==
    op.at \in {"watch", "ready"} /\ held[op.name] # NoHandle =>
        held[op.name].pid # op.pid

-----------------------------------------------------------------------------
Lives(n) == Live(n) # {}

(***************************************************************************)
(* What Promise!Next asks of one instance, in the supervisor's variables.  *)
(***************************************************************************)
Appears(n) == /\ row[n] = Absent /\ row'[n] = "registered"
              /\ ~Lives(n) /\ ~Lives(n)'

Launched(n) == /\ row[n] = "starting" /\ row'[n] = row[n]
               /\ ~Lives(n) /\ Lives(n)'

Dwindles(n) == row'[n] = row[n] /\ (Lives(n)' => Lives(n))

Advances(n) ==
    /\ <<row[n], row'[n]>> \in Edges
    /\ Lives(n)' <=> Lives(n)
    /\ row'[n] \in {"stopped", "failed"} => ~Lives(n)
    /\ row[n] \in {"registered", "stopped", "failed"} => ~Lives(n)

Vanishes(n) == /\ row[n] \notin {Absent, "running"} /\ row'[n] = Absent
               /\ ~Lives(n) /\ ~Lives(n)'

Promised(n) ==
    Appears(n) \/ Launched(n) \/ Dwindles(n) \/ Advances(n) \/ Vanishes(n)

LEMMA SameTable == Promise!Edges = Edges
  BY DEF Promise!Edges, Edges, Promise!CommandEdges, CommandEdges,
         Promise!EventEdges, EventEdges

LEMMA PromisedIsNext ==
    ASSUME \A n \in Names : Promised(n)
    PROVE  Promise!Next
  <1> SUFFICES ASSUME NEW n \in Names
               PROVE  \/ Promise!Moves(n)
                      \/ /\ row'[n] = row[n]
                         /\ Lives(n)' = Lives(n)
    BY DEF Promise!Next, Promise!Keeps, Lives
  <1> USE SameTable DEF Lives
  <1>1. CASE Appears(n)
    BY <1>1 DEF Appears, Promise!Moves, Promise!Register, Absent
  <1>2. CASE Launched(n)
    BY <1>2 DEF Launched, Promise!Moves, Promise!Launch, Promise!Keeps
  <1>3. CASE Dwindles(n)
    BY <1>3 DEF Dwindles, Promise!Moves, Promise!Exit, Promise!Keeps
  <1>4. CASE Advances(n)
    BY <1>4 DEF Advances, Promise!Moves, Promise!Advance, Promise!Keeps
  <1>5. CASE Vanishes(n)
    BY <1>5 DEF Vanishes, Promise!Moves, Promise!Delete, Absent
  <1> QED  BY <1>1, <1>2, <1>3, <1>4, <1>5 DEF Promised

-----------------------------------------------------------------------------
LEMMA LivesMeans ==
    ASSUME NEW n \in Names
    PROVE  /\ Lives(n) <=> \E p \in Pids : Alive(p) /\ owner[p] = n
           /\ Lives(n)' <=> \E p \in Pids : Alive(p)' /\ owner'[p] = n
  BY NullAssumption DEF Lives, Live, Alive

\* A step of one instance leaves the others where they are.
LEMMA OneMoves ==
    ASSUME NoneSpawned, NEW n \in Names, Promised(n),
           \A m \in Names \ {n} : row'[m] = row[m]
    PROVE  \A m \in Names : Promised(m)
  BY LivesMeans DEF NoneSpawned, Promised, Dwindles

LEMMA NoneMoves ==
    ASSUME NoneSpawned, row' = row
    PROVE  \A m \in Names : Promised(m)
  BY LivesMeans DEF NoneSpawned, Promised, Dwindles

LEMMA OwnerKept ==
    ASSUME UNCHANGED owner
    PROVE  NoneSpawned /\ \A n \in Names : Lives(n)' = Lives(n)
  BY DEF NoneSpawned, Alive, Lives, Live

\* A row moves along an edge and the processes stay.
LEMMA EdgeMoves ==
    ASSUME UNCHANGED owner, NEW n \in Names,
           \A m \in Names \ {n} : row'[m] = row[m],
           <<row[n], row'[n]>> \in Edges,
           row'[n] \in {"stopped", "failed"} => ~Lives(n),
           row[n] \in {"registered", "stopped", "failed"} => ~Lives(n)
    PROVE  \A m \in Names : Promised(m)
  BY OwnerKept, OneMoves DEF Promised, Advances

PromiseInv == Owns /\ LaunchIsFresh

LEMMA PromiseStep ==
    ASSUME Supervisable, WritesLand
    PROVE  PromiseInv /\ [Next]_vars =>
               LaunchIsFresh' /\ \A m \in Names : Promised(m)
  <1> SUFFICES ASSUME PromiseInv, [Next]_vars
               PROVE  LaunchIsFresh' /\ \A m \in Names : Promised(m)
    OBVIOUS
  <1> DEFINE Moves == \A m \in Names : Promised(m)
             Launch == op'.at \in {"watch", "ready"}
  <1> USE NullAssumption, IdleIsIdle DEF durable, session, os, history
  <1>0. /\ row \in [Names -> States \cup {Absent}]
        /\ record \in [Names -> SpawnRecord \cup {NoRecord}]
        /\ held \in [Names -> Supervised \cup {NoHandle}]
        /\ owner \in [Pids -> Names \cup {Nobody}]
        /\ TypeOK /\ ControlOK /\ OwnedOK
        /\ "append" \notin Faults /\ "record" \notin Faults
    BY DEF PromiseInv, Owns, TypeOK, WritesLand
  \* What the inductive invariant says of an instance at rest.
  <1>a. \A n \in Names :
           Lives(n) => row[n] \in {"starting", "running", "paused", "stopping"}
    BY <1>0, LivesMeans DEF OwnedOK, RestingRowIsDead
  <1>b. \A n \in Names :
           op.at # "idle" /\ op.name = n /\ Lives(n) =>
               op.at \in {"watch", "ready", "kill", "signal"}
    BY <1>0, LivesMeans DEF OwnedOK, OpIsAlone
  <1>c. ~Launch => LaunchIsFresh'
    BY DEF LaunchIsFresh
  <1>d. op'.at = "idle" => ~Launch
    OBVIOUS
  <1>1. ASSUME NEW n \in Names, register(n)
        PROVE  LaunchIsFresh' /\ Moves
    <2>1. row[n] = Absent /\ row' = [row EXCEPT ![n] = "registered"]
          /\ UNCHANGED owner /\ op' = Idle
      BY <1>1 DEF register, Unlocked
    <2>2. Appears(n)
      BY <1>0, <1>a, <2>1, OwnerKept DEF Appears, Absent
    <2> QED  BY <1>0, <1>c, <2>1, <2>2, OwnerKept, OneMoves DEF Promised
  <1>2. ASSUME NEW n \in Names, set_restart_policy(n)
        PROVE  LaunchIsFresh' /\ Moves
    <2>1. row' = row /\ UNCHANGED owner /\ op' = Idle
      BY <1>2 DEF set_restart_policy, Unlocked
    <2> QED  BY <1>c, <2>1, OwnerKept, NoneMoves
  <1>3. ASSUME NEW n \in Names, NEW attempt, NEW detach,
               BeginStart(n, attempt, detach), UNCHANGED owner
        PROVE  LaunchIsFresh' /\ Moves
    <2>1. /\ row' = [row EXCEPT ![n] = "starting"]
          /\ row[n] \in {"registered", "stopped", "failed"}
          /\ <<row[n], "starting">> \in Edges /\ ~Launch
      BY <1>3, BeginStartEffect
    <2> QED  BY <1>0, <1>3, <1>a, <1>c, <2>1, EdgeMoves
  <1>4. ASSUME NEW n \in Names, NEW detach \in BOOLEAN, start(n, detach)
        PROVE  LaunchIsFresh' /\ Moves
    BY <1>3, <1>4 DEF start
  <1>5. ASSUME NEW n \in Names, NEW a \in Attempts, restart(n, a)
        PROVE  LaunchIsFresh' /\ Moves
    <2>1. CASE UNCHANGED <<row, op>>
      BY <1>5, <1>c, <2>1, OwnerKept, NoneMoves DEF restart, RestartDue
    <2>2. CASE BeginStart(n, a, record[n] # NoRecord /\ record[n].detach)
      BY <1>3, <1>5, <2>2 DEF restart
    <2> QED  BY <1>5, <2>1, <2>2 DEF restart
  <1>6. ASSUME NEW n \in Names, NEW then, BeginStop(n, then), UNCHANGED owner
        PROVE  LaunchIsFresh' /\ Moves
    <2>1. /\ row' = [row EXCEPT ![n] = "stopping"] /\ row[n] \in LiveStates
          /\ <<row[n], "stopping">> \in Edges /\ ~Launch
      BY <1>6, BeginStopEffect
    <2> QED  BY <1>0, <1>6, <1>c, <2>1, EdgeMoves DEF LiveStates
  <1>7. ASSUME NEW n \in Names, stop(n)
        PROVE  LaunchIsFresh' /\ Moves
    BY <1>6, <1>7 DEF stop
  <1>8. ASSUME NEW n \in Names, stop_retry(n)
        PROVE  LaunchIsFresh' /\ Moves
    <2>1. row' = row /\ UNCHANGED owner /\ op'.at = "clear"
      BY <1>8 DEF stop_retry, NewJob
    <2> QED  BY <1>c, <2>1, OwnerKept, NoneMoves
  <1>9. ASSUME NEW n \in Names, NEW force \in BOOLEAN, remove(n, force)
        PROVE  LaunchIsFresh' /\ Moves
    <2>1. CASE StopsFirst(row[n])
      BY <1>6, <1>9, <2>1 DEF remove
    <2>2. CASE ~StopsFirst(row[n])
      <3>1. /\ row' = [row EXCEPT ![n] = Absent] /\ UNCHANGED owner /\ op' = Idle
            /\ row[n] \notin {Absent, "running", "paused"} /\ op = Idle
            /\ "remove" \in Commands
        BY <1>9, <2>2 DEF remove, Delete, Unlocked, StopsFirst, LiveStates
      <3>2. ~Lives(n)
        BY <1>0, <1>a, <3>1, LivesMeans DEF OwnedOK, RemovedIsDead
      <3>3. Vanishes(n)
        BY <1>0, <3>1, <3>2, OwnerKept DEF Vanishes
      <3> QED  BY <1>0, <1>c, <3>1, <3>3, OwnerKept, OneMoves DEF Promised
    <2> QED  BY <2>1, <2>2
  <1>10. ASSUME NEW n \in Names, NEW command \in {"pause", "resume"},
                suspend_or_resume(n, command)
         PROVE  LaunchIsFresh' /\ Moves
    <2> DEFINE s == next_state(row[n], command)
    <2>1. /\ row' = [row EXCEPT ![n] = s] /\ row[n] \in LiveStates
          /\ s \in LiveStates /\ <<row[n], s>> \in Edges /\ ~Launch
      BY <1>10, SuspendEffect
    <2>2. UNCHANGED owner
      BY <1>10 DEF suspend_or_resume
    <2> HIDE DEF s
    <2> QED  BY <1>0, <1>c, <2>1, <2>2, EdgeMoves DEF LiveStates
  <1>11. ASSUME NEW n \in Names, poll_exited(n) \/ poll_unreadable(n)
         PROVE  LaunchIsFresh' /\ Moves
    <2>1. poll_exited(n)
      BY <1>11 DEF poll_unreadable, Supervisable, ReadableProcesses
    <2>2. LoseHandle(n) /\ op = Idle /\ UNCHANGED owner /\ row' = row
      BY <2>1 DEF poll_exited, LoseHandle
    <2>3. ~Launch
      BY <1>0, <2>2, LoseHandleEffect
    <2> QED  BY <1>c, <2>2, <2>3, OwnerKept, NoneMoves
  <1>12. CASE launch_fails
    <2>1. /\ op.name \in Names /\ row[op.name] = "starting" /\ ~Lives(op.name)
          /\ row' = [row EXCEPT ![op.name] = "failed"] /\ op' = Idle /\ UNCHANGED owner
      BY <1>0, <1>12, <1>b, JobInFlight
         DEF launch_fails, Steps, ControlOK, OpMatchesRow
    <2> QED  BY <1>0, <1>c, <2>1, EdgeFacts, EdgeMoves
  <1>13. CASE watch_startup_exit
    <2>1. /\ op.name \in Names /\ row[op.name] = "starting"
          /\ row' = [row EXCEPT ![op.name] = "failed"] /\ op' = Idle /\ UNCHANGED owner
      BY <1>0, <1>13, JobInFlight
         DEF watch_startup_exit, Steps, ControlOK, OpMatchesRow
    <2>2. ~Lives(op.name)
      BY <1>0, <1>13, <2>1, LivesMeans DEF watch_startup_exit, OwnedOK, OpIsAlone
    <2> QED  BY <1>0, <1>c, <2>1, <2>2, EdgeFacts, EdgeMoves
  <1>14. ASSUME NEW p \in Pids, spawn(p)
         PROVE  LaunchIsFresh' /\ Moves
    <2>1. op \in Job /\ op.at = "launch"
      BY <1>0, <1>14, JobInFlight DEF spawn, Steps
    <2>2. PICK n \in Names : n = op.name
      BY <1>0, <2>1, JobInFlight DEF Steps
    <2>3. /\ op'.name = n /\ op'.pid = p /\ UNCHANGED <<row, held>>
          /\ owner' = [owner EXCEPT ![p] = n]
      BY <1>14, <2>1, <2>2 DEF spawn, Goto, Job
    <2>4. ~Alive(p) /\ (held[n] # NoHandle => held[n].pid # p)
      BY <1>14 DEF spawn, Fresh
    <2>5. Launched(n)
      <3>1. row[n] = "starting" /\ ~Lives(n)
        BY <1>0, <1>b, <2>1, <2>2 DEF ControlOK, OpMatchesRow, Idle
      <3>2. Lives(n)'
        BY <1>0, <2>3 DEF Lives, Live
      <3> QED  BY <2>3, <3>1, <3>2 DEF Launched
    <2>6. \A m \in Names \ {n} : Dwindles(m)
      BY <1>0, <2>3 DEF Dwindles, Lives, Live
    <2> QED  BY <2>3, <2>4, <2>5, <2>6 DEF LaunchIsFresh, Promised
  <1>15. CASE write_spawn_record
    <2>1. op \in Job
      BY <1>0, <1>15, JobInFlight DEF write_spawn_record, Steps
    <2>2. /\ op'.name = op.name /\ op'.pid = op.pid /\ op.at = "watch"
          /\ UNCHANGED <<row, held, owner>>
      BY <1>15, <2>1, GotoEffect DEF write_spawn_record
    <2> QED  BY <2>2, OwnerKept, NoneMoves DEF PromiseInv, LaunchIsFresh
  <1>16. CASE write_spawn_record_fails
    BY <1>0, <1>16 DEF write_spawn_record_fails
  <1>17. CASE become_running
    <2>1. PICK n \in Names : n = op.name
      BY <1>0, <1>17, JobInFlight DEF become_running, Steps
    <2>2. /\ row[n] = "starting" /\ op.at = "ready"
          /\ row' = [row EXCEPT ![n] = "running"] /\ op' = Idle
          /\ Kill(DropKills(held[n]))
      BY <1>0, <1>17, <2>1 DEF become_running, ControlOK, OpMatchesRow, Idle
    <2>3. op.pid \notin DropKills(held[n])
      BY <2>1, <2>2 DEF PromiseInv, LaunchIsFresh, DropKills
    <2>4. \A p \in Pids : p \notin DropKills(held[n]) => owner'[p] = owner[p]
      BY <2>2 DEF Kill
    <2>5. Lives(n) => Lives(n)'
      <3>1. ASSUME NEW p \in Pids, Alive(p), owner[p] = n
            PROVE  p = op.pid
        BY <1>0, <2>1, <2>2, <3>1 DEF OwnedOK, OpIsAlone
      <3> QED  BY <2>3, <2>4, <3>1, LivesMeans DEF Alive
    <2>6. NoneSpawned
      BY <2>2, KillSpawnsNone
    <2>7. Lives(n)' => Lives(n)
      BY <2>6, LivesMeans DEF NoneSpawned
    <2>8. Advances(n)
      BY <1>0, <2>2, <2>5, <2>7, EdgeFacts DEF Advances
    <2> QED  BY <1>0, <1>c, <2>2, <2>6, <2>8, OneMoves DEF Promised
  <1>18. CASE backend_stop
    <2>1. op \in Job
      BY <1>0, <1>18, JobInFlight DEF backend_stop, Steps
    <2>2. row' = row /\ op'.at = "clear" /\ NoneSpawned
      BY <1>18, <2>1, GotoEffect, KillSpawnsNone DEF backend_stop
    <2> QED  BY <1>c, <2>2, NoneMoves
  <1>19. CASE backend_stop_unconfirmed \/ backend_stop_fails \/ signal_backend
    <2>1. row' = row /\ op' = Idle /\ UNCHANGED owner
      BY <1>19 DEF backend_stop_unconfirmed, backend_stop_fails, signal_backend
    <2> QED  BY <1>c, <2>1, OwnerKept, NoneMoves
  <1>20. CASE clear_spawn_record \/ settle_terminal_record
    <2>1. op \in Job
      BY <1>0, <1>20, JobInFlight DEF clear_spawn_record, settle_terminal_record, Steps
    <2>2. row' = row /\ op'.at \in {"idle", "settle", "settled"} /\ UNCHANGED owner
      BY <1>20, <2>1, GotoEffect DEF clear_spawn_record, settle_terminal_record
    <2> QED  BY <1>c, <2>2, OwnerKept, NoneMoves
  <1>21. CASE become_stopped
    <2>1. /\ op \in Job /\ op.name \in Names /\ row[op.name] = "stopping"
          /\ ~Lives(op.name)
      BY <1>0, <1>21, <1>b, JobInFlight
         DEF become_stopped, Steps, ControlOK, OpMatchesRow
    <2>2. /\ row' = [row EXCEPT ![op.name] = "stopped"]
          /\ op'.at \in {"idle", "delete"} /\ UNCHANGED owner
      BY <1>21, <2>1, GotoEffect DEF become_stopped, Transition
    <2> QED  BY <1>0, <1>c, <2>1, <2>2, EdgeFacts, EdgeMoves
  <1>22. CASE delete_stopped
    <2>1. PICK n \in Names : n = op.name
      BY <1>0, <1>22, JobInFlight DEF delete_stopped, Steps
    <2>2. /\ row[n] = "stopped" /\ ~Lives(n)
          /\ row' = [row EXCEPT ![n] = Absent] /\ op' = Idle /\ UNCHANGED owner
      BY <1>0, <1>22, <1>b, <2>1
         DEF delete_stopped, Delete, ControlOK, OpMatchesRow, Idle
    <2>3. Vanishes(n)
      BY <1>0, <2>2, OwnerKept DEF Vanishes, Absent
    <2> QED  BY <1>0, <1>c, <2>2, <2>3, OwnerKept, OneMoves DEF Promised
  <1>23. CASE become_failed
    <2>1. /\ op.name \in Names /\ row[op.name] \in LiveStates /\ ~Lives(op.name)
          /\ row' = [row EXCEPT ![op.name] = "failed"] /\ op' = Idle /\ UNCHANGED owner
      BY <1>0, <1>23, <1>b, JobInFlight
         DEF become_failed, Steps, ControlOK, OpMatchesRow
    <2> QED  BY <1>0, <1>c, <2>1, EdgeFacts, EdgeMoves DEF LiveStates
  <1>24. CASE engine_killed \/ engine_exits
    <2>1. row' = row /\ op' = Idle
      BY <1>24 DEF engine_killed, engine_exits, Unlocked
    <2>2. NoneSpawned
      BY <1>24, KilledEffect, KillSpawnsNone DEF engine_exits
    <2> QED  BY <1>c, <2>1, <2>2, NoneMoves
  <1>25. CASE open
    <2>1. PICK uncleared \in SUBSET Names : adopt_orphans({}, uncleared)
      BY <1>25 DEF open, Supervisable, ReadableProcesses
    <2>2. op = Idle /\ op' = Idle /\ UNCHANGED owner
      BY <1>0, <1>25 DEF open, ControlOK, NoSessionIsIdle
    <2>3. ASSUME NEW n \in Names, row'[n] # row[n]
          PROVE  row[n] \in LiveStates /\ row'[n] = "failed" /\ ~Adopts(n, {})
      BY <1>0, <2>1, <2>3 DEF adopt_orphans, reconcile_orphan_failed, IsOrphan
    <2>4. \A n \in Names : Lives(n) => Adopts(n, {})
      BY <1>0, <2>2, LivesMeans DEF OwnedOK, LiveIsRecorded, Adopts, Survives
    <2>5. ASSUME NEW n \in Names
          PROVE  Promised(n)
      <3>1. CASE row'[n] = row[n]
        BY <2>2, <3>1, OwnerKept DEF Promised, Dwindles
      <3>2. CASE row'[n] # row[n]
        BY <2>2, <2>3, <2>4, <3>2, OwnerKept, EdgeFacts DEF Promised, Advances, LiveStates
      <3> QED  BY <3>1, <3>2
    <2> QED  BY <1>c, <2>2, <2>5
  <1>26. ASSUME NEW p \in Pids, process_exits(p)
         PROVE  LaunchIsFresh' /\ Moves
    <2>1. UNCHANGED <<row, op, held>> /\ NoneSpawned
      BY <1>26, KillSpawnsNone DEF process_exits
    <2> QED  BY <2>1, NoneMoves DEF PromiseInv, LaunchIsFresh
  <1>27. CASE UNCHANGED vars
    <2>1. UNCHANGED <<row, op, held, owner>>
      BY <1>27 DEF vars
    <2> QED  BY <2>1, OwnerKept, NoneMoves DEF PromiseInv, LaunchIsFresh
  <1> QED
    BY <1>1, <1>2, <1>4, <1>5, <1>7, <1>8, <1>9, <1>10, <1>11, <1>12, <1>13,
       <1>14, <1>15, <1>16, <1>17, <1>18, <1>19, <1>20, <1>21, <1>22, <1>23,
       <1>24, <1>25, <1>26, <1>27
       DEF Next, Operator, Reaper, Continue

LEMMA PromiseInit == Init => Promise!Init
  <1> SUFFICES ASSUME Init PROVE Promise!Init
    OBVIOUS
  <1>1. \A n \in Names : (Live(n) # {}) = FALSE
    BY NullAssumption DEF Init, Live
  <1>2. [n \in Names |-> Live(n) # {}] = [n \in Names |-> FALSE]
    BY <1>1
  <1> QED  BY <1>2 DEF Init, Promise!Init, Absent

-----------------------------------------------------------------------------
(***************************************************************************)
(* The supervisor keeps AgentInstance's promise: a process appears only    *)
(* under a starting row, the rows that rest have none, and every move of   *)
(* an instance, with any number of engines dying under it, is one the      *)
(* operator was told of.                                                   *)
(***************************************************************************)
THEOREM PromiseKept ==
    ASSUME Supervisable, WritesLand
    PROVE  Spec => ImplementsPromise
  <1>1. Init => PromiseInv /\ Promise!Init
    BY InitOK, OwnedInit, PromiseInit, IdleIsIdle
       DEF PromiseInv, Owns, LaunchIsFresh, Init
  <1>2. PromiseInv /\ [Next]_vars => PromiseInv' /\ Promise!Next
    BY TypeStep, ControlStep, OwnedStep, PromiseStep, PromisedIsNext
       DEF PromiseInv, Owns, ControlOK
  <1>3. PromiseInv /\ [Next]_vars => [Promise!Next]_(Promise!vars)
    BY <1>2
  <1> QED  BY <1>1, <1>2, <1>3, PTL DEF Spec, ImplementsPromise, Promise!Spec

-----------------------------------------------------------------------------
(***************************************************************************)
(* The crash-loop protection of Supervisor: what bounds the automatic      *)
(* restarts of an instance between two starts by its operator, through     *)
(* any faults of the host and any kills of the engine.                     *)
(***************************************************************************)

(***************************************************************************)
(* The count travels from the record to the plan (plan_restart), from the  *)
(* plan to the launch (restart) and from the launch back into the record   *)
(* (write_spawn_record).  Along that way autos, the restarts there really  *)
(* were, never exceeds it, and is below it while a restart is planned.     *)
(***************************************************************************)
\* One backoff at most: nothing plans a second one while the first sleeps.
OnePlan ==
    \A n \in Names : \A a, b \in InFlight(n) : a = b /\ plans[n][a] = 1

PlannedRowRests ==
    \A n \in Names : InFlight(n) # {} => row[n] \in {"failed", "registered", Absent}

PlanIsAhead == \A n \in Names : \A a \in InFlight(n) : autos[n] < a

LaunchIsCounted ==
    op.at \in {"launch", "watch", "ready"} =>
        autos[op.name] <= op.attempt /\ op.attempt < MaxFailures

ReadyIsCounted ==
    op.at = "ready" => /\ record[op.name] # NoRecord
                       /\ record[op.name].pid # NoPid
                       /\ record[op.name].count = op.attempt

FailIsAhead ==
    /\ op.at = "fail" => autos[op.name] < op.attempt /\ op.attempt < MaxFailures
    /\ op.at \in {"seed", "settled"} => op.attempt = 0

RecordIsCounted ==
    \A n \in Names : row[n] \in LiveStates =>
        /\ held[n] # NoHandle => record[n] # NoRecord /\ record[n].pid # NoPid
        /\ record[n] # NoRecord /\ record[n].pid # NoPid =>
               autos[n] <= record[n].count

\* The reaper has taken the handle out when the crash path runs.
CrashedIsLost ==
    op.at \in {"seed", "settled", "fail"} => held[op.name] = NoHandle

LoopOK ==
    /\ OnePlan /\ PlannedRowRests /\ PlanIsAhead /\ LaunchIsCounted
    /\ ReadyIsCounted /\ FailIsAhead /\ RecordIsCounted /\ CrashedIsLost
    /\ CrashLoopBounded

(***************************************************************************)
(* The operator does not start an instance whose backoff is in flight.     *)
(* The code lets them (start does not look at the timers), and then the    *)
(* timer of the old streak may restart the new one.                        *)
(***************************************************************************)
Patient ==
    \A n \in Names, detach \in BOOLEAN : start(n, detach) => InFlight(n) = {}

-----------------------------------------------------------------------------
(***************************************************************************)
(* What the steps that carry the count do to it.                           *)
(***************************************************************************)
LEMMA LaunchJob ==
    ASSUME NEW n \in Names, NEW attempt, NEW detach,
           BeginStart(n, attempt, detach)
    PROVE  /\ row' = [row EXCEPT ![n] = "starting"]
           /\ op' = Idle \/ /\ op'.at = "launch" /\ op'.name = n
                            /\ op'.attempt = attempt
  BY StartTable DEF BeginStart, Transition, NewJob

LEMMA GotoAttempt ==
    ASSUME op \in Job, NEW s
    PROVE  /\ Goto(s).at = s /\ Goto(s).name = op.name
           /\ Goto(s).pid = op.pid /\ Goto(s).attempt = op.attempt
  BY DEF Goto, Job

\* The crash path plans a restart one above the count of the record.
LEMMA PlanCounts ==
    ASSUME TypeOK, NEW n \in Names, plan_restart(n)
    PROVE  /\ op'.name = n
           /\ \/ op'.at = "seed" /\ op'.attempt = 0
              \/ /\ op'.at = "fail" /\ op'.attempt = restart_count(n) + 1
                 /\ op'.attempt < MaxFailures
           /\ \A m \in Names \ {n} : record'[m] = record[m]
           /\ \/ record'[n] = NoRecord
              \/ /\ record[n] # NoRecord /\ record'[n] # NoRecord
                 /\ record'[n].pid = record[n].pid
                 /\ record'[n].count >= record[n].count
  <1> DEFINE next == restart_count(n) + 1
  <1>0. /\ restart_count(n) \in 0 .. MaxFailures /\ MaxFailures \in Nat
        /\ record \in [Names -> SpawnRecord \cup {NoRecord}]
    BY EffectivePolicyType, MaxFailuresAssumption DEF TypeOK
  <1>1. CASE ~restarts_on_crash(effective_restart_policy(n)) \/ is_crash_loop(next)
    <2>1. /\ op' = [NewJob(n, "seed") EXCEPT !.policy = effective_restart_policy(n)]
          /\ record' = [record EXCEPT ![n] = NoRecord] \/ record' = record
      BY <1>1 DEF plan_restart
    <2>2. op'.name = n /\ op'.at = "seed" /\ op'.attempt = 0
      BY <2>1 DEF NewJob
    <2>3. record[n] # NoRecord => record[n].count \in Nat
      BY <1>0 DEF SpawnRecord
    <2> QED  BY <1>0, <2>1, <2>2, <2>3
  <1>2. CASE ~(~restarts_on_crash(effective_restart_policy(n)) \/ is_crash_loop(next))
    <2>1. /\ op' = [NewJob(n, "fail") EXCEPT !.attempt = next]
          /\ \/ record' = [record EXCEPT ![n] =
                             IF @ = NoRecord THEN @ ELSE [@ EXCEPT !.count = next]]
             \/ record' = record
      BY <1>2 DEF plan_restart
    <2>2. op'.name = n /\ op'.at = "fail" /\ op'.attempt = next
      BY <2>1 DEF NewJob
    <2>3. next < MaxFailures
      BY <1>0, <1>2 DEF is_crash_loop
    <2>4. record[n] # NoRecord => record[n] \in SpawnRecord /\ record[n].count \in Nat
      BY <1>0 DEF SpawnRecord
    <2>5. record[n] # NoRecord =>
             /\ [record[n] EXCEPT !.count = next] \in SpawnRecord
             /\ [record[n] EXCEPT !.count = next].pid = record[n].pid
             /\ [record[n] EXCEPT !.count = next].count = record[n].count + 1
      <3>1. next \in 0 .. MaxFailures
        BY <1>0, <2>3
      <3>2. record[n] # NoRecord => next = record[n].count + 1
        BY DEF restart_count
      <3> HIDE DEF next
      <3> QED  BY <2>4, <3>1, <3>2, RecordType DEF SpawnRecord
    <2> HIDE DEF next
    <2>6. \A m \in Names \ {n} : record'[m] = record[m]
      BY <1>0, <2>1
    <2>7. \/ record'[n] = NoRecord
          \/ /\ record[n] # NoRecord /\ record'[n] # NoRecord
             /\ record'[n].pid = record[n].pid
             /\ record'[n].count >= record[n].count
      <3>1. record[n] # NoRecord => [record[n] EXCEPT !.count = next] # NoRecord
        BY <2>5, NullAssumption
      <3>2. CASE record[n] = NoRecord
        BY <1>0, <2>1, <3>2
      <3>3. CASE record[n] # NoRecord
        <4>1. \/ record'[n] = [record[n] EXCEPT !.count = next]
              \/ record'[n] = record[n]
          BY <1>0, <2>1, <3>3
        <4> DEFINE rec == [record[n] EXCEPT !.count = next]
        <4>2. /\ rec # NoRecord /\ rec.pid = record[n].pid
              /\ rec.count = record[n].count + 1 /\ record[n].count \in Nat
          BY <2>4, <2>5, <3>1, <3>3
        <4>3. record'[n] \in {rec, record[n]}
          BY <4>1
        <4> HIDE DEF rec
        <4> QED  BY <3>3, <4>2, <4>3
      <3> QED  BY <3>2, <3>3
    <2> QED  BY <2>2, <2>3, <2>6, <2>7 DEF next
  <1> QED  BY <1>1, <1>2

LEMMA LoseHandleCounts ==
    ASSUME TypeOK, NEW n \in Names, LoseHandle(n), op = Idle
    PROVE  /\ UNCHANGED <<row, plans, autos>>
           /\ held' = [held EXCEPT ![n] = NoHandle]
           /\ \/ op' = Idle /\ record' = record
              \/ op'.at = "clear" /\ record' = record
              \/ row[n] \in LiveStates /\ plan_restart(n)
  <1>1. NewJob(n, "clear").at = "clear"
    BY DEF NewJob
  <1> QED  BY <1>1 DEF LoseHandle, Reap, history

\* A step that leaves the count alone and makes no row live.
LEMMA CountKept ==
    ASSUME LoopOK, UNCHANGED <<record, plans, autos>>,
           \A m \in Names : held'[m] # NoHandle => held[m] # NoHandle,
           \A m \in Names : row'[m] \in LiveStates => row[m] \in LiveStates,
           \A m \in Names : InFlight(m) # {} =>
               row'[m] \in {"failed", "registered", Absent},
           op'.at \notin {"launch", "watch", "ready", "seed", "settled", "fail"}
    PROVE  LoopOK'
  BY DEF LoopOK, OnePlan, PlannedRowRests, PlanIsAhead, LaunchIsCounted,
         ReadyIsCounted, FailIsAhead, RecordIsCounted, CrashedIsLost,
         CrashLoopBounded, InFlight

LEMMA LoopStep ==
    TypeOK /\ ControlOK /\ LoopOK /\ [Next /\ Patient]_vars => LoopOK'
  <1> SUFFICES ASSUME TypeOK, ControlOK, LoopOK, [Next /\ Patient]_vars
               PROVE  LoopOK'
    OBVIOUS
  <1> USE NullAssumption, MaxFailuresAssumption, IdleIsIdle
          DEF durable, session, os, history, LoopOK, OnePlan, PlannedRowRests,
              PlanIsAhead, LaunchIsCounted, ReadyIsCounted, FailIsAhead,
              RecordIsCounted, CrashedIsLost, CrashLoopBounded, InFlight
  <1>0. /\ row \in [Names -> States \cup {Absent}]
        /\ record \in [Names -> SpawnRecord \cup {NoRecord}]
        /\ held \in [Names -> Supervised \cup {NoHandle}]
        /\ plans \in [Names -> [Attempts -> Nat]]
        /\ autos \in [Names -> 0 .. MaxFailures]
        /\ Attempts = 1 .. MaxFailures - 1
    BY DEF TypeOK, Attempts
  <1>1. ASSUME NEW n \in Names, register(n)
        PROVE  LoopOK'
    <2>1. \A m \in Names : row'[m] \in LiveStates => row[m] \in LiveStates
      BY <1>0, <1>1 DEF register, LiveStates
    <2>2. op' = Idle /\ UNCHANGED <<record, held, plans, autos>>
      BY <1>1 DEF register, Unlocked
    <2>3. \A m \in Names : InFlight(m) # {} => row'[m] \in {"failed", "registered", Absent}
      BY <1>0, <1>1 DEF register
    <2> QED  BY <2>1, <2>2, <2>3, CountKept
  <1>2. ASSUME NEW n \in Names, set_restart_policy(n)
        PROVE  LoopOK'
    <2>1. PICK q \in Policies : record' = [record EXCEPT ![n] = UpsertPolicy(@, q)]
      BY <1>2 DEF set_restart_policy
    <2>2. record[n] # NoRecord => /\ record'[n] # NoRecord
                                  /\ record'[n].pid = record[n].pid
                                  /\ record'[n].count = record[n].count
      <3>1. record[n] # NoRecord => [record[n] EXCEPT !.policy = q] \in SpawnRecord
        BY <1>0, RecordType
      <3> QED  BY <1>0, <2>1, <3>1 DEF UpsertPolicy, SpawnRecord
    <2>3. record[n] = NoRecord => record'[n].pid = NoPid
      BY <1>0, <2>1 DEF UpsertPolicy, PolicySeed
    <2>4. /\ op' = op /\ op = Idle /\ UNCHANGED <<row, held, plans, autos>>
          /\ \A m \in Names \ {n} : record'[m] = record[m]
      BY <1>0, <1>2, <2>1 DEF set_restart_policy, Unlocked
    <2>5. (OnePlan /\ PlannedRowRests /\ PlanIsAhead)'
      BY <1>0, <2>2, <2>3, <2>4
    <2>6. (LaunchIsCounted /\ ReadyIsCounted /\ FailIsAhead /\ CrashedIsLost)'
      BY <1>0, <2>2, <2>3, <2>4
    <2>7. (RecordIsCounted /\ CrashLoopBounded)'
      <3>1. ASSUME NEW m \in Names, row'[m] \in LiveStates
            PROVE  /\ held'[m] # NoHandle => record'[m] # NoRecord /\ record'[m].pid # NoPid
                   /\ record'[m] # NoRecord /\ record'[m].pid # NoPid =>
                          autos'[m] <= record'[m].count
        <4>1. CASE m = n
          BY <2>2, <2>3, <2>4, <3>1, <4>1
        <4>2. CASE m # n
          BY <2>4, <3>1, <4>2
        <4> QED  BY <4>1, <4>2
      <3> QED  BY <2>4, <3>1
    <2> QED  BY <2>5, <2>6, <2>7
  <1>3. ASSUME NEW n \in Names, NEW detach \in BOOLEAN, start(n, detach), Patient
        PROVE  LoopOK'
    <2>1. /\ row' = [row EXCEPT ![n] = "starting"]
          /\ op' = Idle \/ (op'.at = "launch" /\ op'.name = n /\ op'.attempt = 0)
      BY <1>3, LaunchJob DEF start
    <2>2. InFlight(n) = {}
      BY <1>3 DEF Patient
    <2>3. autos' = [autos EXCEPT ![n] = 0] /\ UNCHANGED <<record, held, plans>>
      BY <1>3 DEF start
    <2>4. /\ row'[n] = "starting" /\ \A m \in Names \ {n} : row'[m] = row[m]
          /\ autos'[n] = 0 /\ \A m \in Names \ {n} : autos'[m] = autos[m]
      BY <1>0, <2>1, <2>3
    <2>5. (OnePlan /\ PlannedRowRests /\ PlanIsAhead)'
      BY <1>0, <2>1, <2>2, <2>3, <2>4 DEF LiveStates
    <2>6. (LaunchIsCounted /\ ReadyIsCounted /\ FailIsAhead /\ CrashedIsLost)'
      BY <1>0, <2>1, <2>2, <2>3, <2>4 DEF LiveStates
    <2>7. (RecordIsCounted /\ CrashLoopBounded)'
      BY <1>0, <2>1, <2>2, <2>3, <2>4 DEF LiveStates
    <2> QED  BY <2>5, <2>6, <2>7
  <1>4. ASSUME NEW n \in Names, NEW a \in Attempts, restart(n, a)
        PROVE  LoopOK'
    <2>1. /\ plans[n][a] > 0 /\ op = Idle /\ UNCHANGED <<record, held>>
          /\ plans' = [plans EXCEPT ![n][a] = @ - 1]
      BY <1>4 DEF restart, RestartDue
    <2>2. \A m \in Names \ {n} : plans'[m] = plans[m]
      BY <1>0, <2>1
    <2>3. \A b \in Attempts : plans'[n][b] <= plans[n][b]
      BY <1>0, <2>1
    <2>4. \A b \in Attempts : ~(plans'[n][b] > 0)
      BY <1>0, <2>1
    <2>5. CASE UNCHANGED <<row, op, autos>>
      BY <1>0, <2>1, <2>2, <2>4, <2>5
    <2>6. CASE /\ BeginStart(n, a, record[n] # NoRecord /\ record[n].detach)
               /\ autos' = [autos EXCEPT ![n] = IF @ < MaxFailures THEN @ + 1
                                                                   ELSE @]
      <3>1. /\ row' = [row EXCEPT ![n] = "starting"]
            /\ op' = Idle \/ (op'.at = "launch" /\ op'.name = n /\ op'.attempt = a)
        BY <2>6, LaunchJob
      <3>2. autos[n] < a /\ a < MaxFailures /\ a \in Nat /\ autos[n] \in Nat
        BY <1>0, <2>1
      <3>3. /\ autos'[n] = autos[n] + 1
            /\ \A m \in Names \ {n} : autos'[m] = autos[m]
        BY <1>0, <2>6, <3>2
      <3>4. row'[n] = "starting" /\ \A m \in Names \ {n} : row'[m] = row[m]
        BY <1>0, <3>1
      <3>5. (OnePlan /\ PlannedRowRests /\ PlanIsAhead)'
        <4>1. OnePlan'
          BY <1>0, <2>1, <2>2, <2>4, <3>1, <3>2, <3>3, <3>4 DEF LiveStates
        <4>2. PlannedRowRests'
          BY <1>0, <2>1, <2>2, <2>4, <3>1, <3>2, <3>3, <3>4 DEF LiveStates
        <4>3. PlanIsAhead'
          BY <1>0, <2>1, <2>2, <2>4, <3>1, <3>2, <3>3, <3>4 DEF LiveStates
        <4> QED  BY <4>1, <4>2, <4>3
      <3>6. (LaunchIsCounted /\ ReadyIsCounted /\ FailIsAhead /\ CrashedIsLost)'
        BY <1>0, <2>1, <2>2, <2>4, <3>1, <3>2, <3>3, <3>4 DEF LiveStates
      <3>7. (RecordIsCounted /\ CrashLoopBounded)'
        <4>1. RecordIsCounted'
          BY <1>0, <2>1, <3>3, <3>4 DEF LiveStates
        <4>2. CrashLoopBounded'
          <5>1. autos'[n] < MaxFailures
            BY <3>2, <3>3
          <5> QED  BY <3>3, <5>1
        <4> QED  BY <4>1, <4>2
      <3> QED  BY <3>5, <3>6, <3>7
    <2> QED  BY <1>4, <2>5, <2>6 DEF restart
  <1>5. ASSUME NEW n \in Names, NEW then, BeginStop(n, then),
               UNCHANGED <<record, held, plans, autos>>
        PROVE  LoopOK'
    <2>1. /\ row' = [row EXCEPT ![n] = "stopping"] /\ row[n] \in LiveStates
          /\ op'.at \in {"idle", "kill"}
      BY <1>5, BeginStopEffect
    <2>2. \A m \in Names : row'[m] \in LiveStates => row[m] \in LiveStates
      BY <1>0, <2>1 DEF LiveStates
    <2>3. \A m \in Names : InFlight(m) # {} => row'[m] \in {"failed", "registered", Absent}
      BY <1>0, <2>1 DEF LiveStates, Absent
    <2> QED  BY <1>5, <2>1, <2>2, <2>3, CountKept
  <1>6. ASSUME NEW n \in Names, stop(n)
        PROVE  LoopOK'
    BY <1>5, <1>6 DEF stop
  <1>7. ASSUME NEW n \in Names, stop_retry(n)
        PROVE  LoopOK'
    <2>1. op'.at = "clear" /\ UNCHANGED <<row, record, plans, autos>>
      BY <1>7 DEF stop_retry, NewJob
    <2>2. \A m \in Names : held'[m] # NoHandle => held[m] # NoHandle
      BY <1>0, <1>7 DEF stop_retry
    <2> QED  BY <2>1, <2>2, CountKept
  <1>8. ASSUME NEW n \in Names, NEW force \in BOOLEAN, remove(n, force)
        PROVE  LoopOK'
    <2>1. CASE StopsFirst(row[n])
      BY <1>5, <1>8, <2>1 DEF remove
    <2>2. CASE ~StopsFirst(row[n])
      <3>1. /\ op' = op /\ op = Idle /\ UNCHANGED <<held, plans, autos>>
            /\ row'[n] = Absent /\ \A m \in Names \ {n} : row'[m] = row[m]
            /\ \A m \in Names \ {n} : record'[m] = record[m]
        BY <1>0, <1>8, <2>2 DEF remove, Delete, Unlocked
      <3>2. (OnePlan /\ PlannedRowRests /\ PlanIsAhead)'
        <4>1. OnePlan'
          BY <3>1
        <4>2. PlannedRowRests'
          BY <1>0, <3>1 DEF LiveStates, Absent
        <4>3. PlanIsAhead'
          BY <1>0, <3>1 DEF LiveStates, Absent
        <4> QED  BY <4>1, <4>2, <4>3
      <3>3. (LaunchIsCounted /\ ReadyIsCounted /\ FailIsAhead /\ CrashedIsLost)'
        BY <1>0, <3>1 DEF LiveStates, Absent
      <3>4. (RecordIsCounted /\ CrashLoopBounded)'
        BY <1>0, <3>1 DEF LiveStates, Absent
      <3> QED  BY <3>2, <3>3, <3>4
    <2> QED  BY <2>1, <2>2
  <1>9. ASSUME NEW n \in Names, NEW command \in {"pause", "resume"},
               suspend_or_resume(n, command)
        PROVE  LoopOK'
    <2> DEFINE s == next_state(row[n], command)
    <2>0. /\ row' = [row EXCEPT ![n] = s] /\ row[n] \in LiveStates
          /\ op' = Idle \/ op'.at = "signal"
      BY <1>9, SuspendEffect
    <2>1. \A m \in Names : row'[m] \in LiveStates => row[m] \in LiveStates
      BY <1>0, <2>0
    <2>2. op'.at \in {"idle", "signal"} /\ UNCHANGED <<record, held, plans, autos>>
      BY <1>9, <2>0 DEF suspend_or_resume
    <2> HIDE DEF s
    <2>3. \A m \in Names : InFlight(m) # {} => row'[m] \in {"failed", "registered", Absent}
      BY <1>0, <2>0 DEF LiveStates, Absent
    <2> QED  BY <2>1, <2>2, <2>3, CountKept
  <1>10. ASSUME NEW n \in Names, held[n] # NoHandle, LoseHandle(n), op = Idle
         PROVE  LoopOK'
    <2>1. /\ UNCHANGED <<row, plans, autos>>
          /\ held' = [held EXCEPT ![n] = NoHandle]
      BY <1>10, LoseHandleCounts
    <2>2. CASE op'.at \in {"idle", "clear"} /\ record' = record
      BY <1>0, <2>1, <2>2, CountKept
    <2>3. CASE row[n] \in LiveStates /\ plan_restart(n)
      <3>1. /\ record[n] # NoRecord /\ restart_count(n) = record[n].count
            /\ autos[n] <= record[n].count
        BY <1>10, <2>3 DEF restart_count
      <3>2. record[n].count \in Nat /\ autos[n] \in Nat
        BY <1>0, <3>1 DEF SpawnRecord
      <3>3. /\ op'.name = n
            /\ \/ op'.at = "seed" /\ op'.attempt = 0
               \/ /\ op'.at = "fail" /\ op'.attempt = restart_count(n) + 1
                  /\ op'.attempt < MaxFailures
        BY <2>3, PlanCounts
      <3>4. op'.at = "fail" => autos[n] < op'.attempt
        BY <3>1, <3>2, <3>3
      <3>5. /\ \A m \in Names \ {n} : record'[m] = record[m]
            /\ \/ record'[n] = NoRecord
               \/ /\ record'[n] # NoRecord
                  /\ record'[n].pid = record[n].pid
                  /\ record'[n].count >= record[n].count
        BY <2>3, PlanCounts
      <3>6. record'[n] # NoRecord => autos[n] <= record'[n].count
        <4>1. record' \in [Names -> SpawnRecord \cup {NoRecord}]
          BY <2>3, PlanType
        <4>2. record'[n] # NoRecord => record'[n].count \in Nat
          BY <4>1 DEF SpawnRecord
        <4> QED  BY <3>1, <3>2, <3>5, <4>2
      <3> QED  BY <1>0, <2>1, <3>3, <3>4, <3>5, <3>6
    <2> QED  BY <1>10, <2>2, <2>3, LoseHandleCounts
  <1>11. ASSUME NEW n \in Names, poll_exited(n) \/ poll_unreadable(n)
         PROVE  LoopOK'
    BY <1>10, <1>11 DEF poll_exited, poll_unreadable
  <1>12. CASE launch_fails \/ watch_startup_exit \/ write_spawn_record_fails
    BY <1>0, <1>12 DEF launch_fails, watch_startup_exit,
                       write_spawn_record_fails, LiveStates
  <1>13. ASSUME NEW p \in Pids, spawn(p)
         PROVE  LoopOK'
    <2>1. op \in Job /\ op.name \in Names
      BY <1>13, JobInFlight DEF spawn, Steps
    <2>2. op'.at = "watch" /\ op'.name = op.name /\ op'.attempt = op.attempt
      BY <1>13, <2>1 DEF spawn, Goto, Job
    <2> QED  BY <1>13, <2>2 DEF spawn
  <1>14. CASE write_spawn_record
    <2>1. op \in Job /\ op.name \in Names /\ op.pid \in Pids
      BY <1>14, JobInFlight DEF write_spawn_record, Steps, ControlOK, LaunchKnowsPid
    <2>2. NewSpawnRecord \in SpawnRecord /\ NewSpawnRecord.pid = op.pid
          /\ NewSpawnRecord.count = op.attempt
      BY <2>1 DEF NewSpawnRecord, SpawnRecord, Job
    <2>3. /\ op'.at = "ready" /\ op'.name = op.name
          /\ op'.pid = op.pid /\ op'.attempt = op.attempt
      BY <1>14, <2>1, GotoAttempt DEF write_spawn_record
    <2>4. record' = [record EXCEPT ![op.name] = NewSpawnRecord] /\ op.at = "watch"
          /\ UNCHANGED <<row, held, plans, autos>>
      BY <1>14 DEF write_spawn_record
    <2>5. row[op.name] \notin LiveStates
      BY <2>4 DEF ControlOK, OpMatchesRow, LiveStates, Idle
    <2> QED  BY <1>0, <2>1, <2>2, <2>3, <2>4, <2>5
  <1>15. CASE become_running
    <2>1. op \in Job /\ op.name \in Names
      BY <1>15, JobInFlight DEF become_running, Steps
    <2>2. /\ row' = [row EXCEPT ![op.name] = "running"] /\ op.at = "ready"
          /\ op' = Idle /\ UNCHANGED <<record, plans, autos>>
          /\ \A m \in Names \ {op.name} : held'[m] = held[m]
      BY <1>0, <1>15, <2>1 DEF become_running
    <2>3. row[op.name] = "starting"
      BY <2>2 DEF ControlOK, OpMatchesRow, Idle
    <2> QED  BY <1>0, <2>1, <2>2, <2>3 DEF Absent
  <1>16. CASE backend_stop \/ backend_stop_unconfirmed \/ backend_stop_fails
    <2>1. op \in Job /\ op.name \in Names
      BY <1>16, JobInFlight
         DEF backend_stop, backend_stop_unconfirmed, backend_stop_fails, Steps
    <2>2. UNCHANGED <<row, record, plans, autos>> /\ op'.at \in {"idle", "clear"}
      BY <1>16, <2>1, GotoEffect
         DEF backend_stop, backend_stop_unconfirmed, backend_stop_fails
    <2>3. \A m \in Names : held'[m] # NoHandle => held[m] # NoHandle
      BY <1>0, <1>16, <2>1
         DEF backend_stop, backend_stop_unconfirmed, backend_stop_fails
    <2> QED  BY <2>2, <2>3, CountKept
  <1>17. CASE clear_spawn_record
    <2>1. op \in Job /\ op.name \in Names /\ row[op.name] = "stopping"
      BY <1>17, JobInFlight DEF clear_spawn_record, Steps, ControlOK, OpMatchesRow
    <2>2. op'.at \in {"idle", "settle"} /\ UNCHANGED <<row, held, plans, autos>>
      BY <1>17, <2>1, GotoEffect DEF clear_spawn_record
    <2>3. \A m \in Names \ {op.name} : record'[m] = record[m]
      BY <1>0, <1>17, <2>1 DEF clear_spawn_record
    <2>4. (OnePlan /\ PlannedRowRests /\ PlanIsAhead)'
      BY <1>0, <2>1, <2>2, <2>3 DEF LiveStates
    <2>5. (LaunchIsCounted /\ ReadyIsCounted /\ FailIsAhead /\ CrashedIsLost)'
      BY <1>0, <2>1, <2>2, <2>3 DEF LiveStates
    <2>6. (RecordIsCounted /\ CrashLoopBounded)'
      BY <1>0, <2>1, <2>2, <2>3 DEF LiveStates
    <2> QED  BY <2>4, <2>5, <2>6
  <1>18. CASE become_stopped
    <2>1. op \in Job /\ op.name \in Names /\ row[op.name] = "stopping"
      BY <1>18, JobInFlight DEF become_stopped, Steps, ControlOK, OpMatchesRow
    <2>2. /\ row' = [row EXCEPT ![op.name] = "stopped"]
          /\ op'.at \in {"idle", "delete"} /\ UNCHANGED <<record, held, plans, autos>>
      BY <1>18, <2>1, GotoEffect DEF become_stopped, Transition
    <2> QED  BY <1>0, <2>1, <2>2 DEF LiveStates, Absent
  <1>19. CASE delete_stopped
    <2>1. op \in Job /\ op.name \in Names
      BY <1>19, JobInFlight DEF delete_stopped, Steps
    <2> QED  BY <1>0, <1>19, <2>1 DEF delete_stopped, Delete, LiveStates, Absent
  <1>20. CASE signal_backend
    BY <1>20, CountKept DEF signal_backend
  <1>21. CASE settle_terminal_record
    <2>1. op \in Job /\ op.name \in Names
      BY <1>21, JobInFlight DEF settle_terminal_record, Steps
    <2>2. /\ op'.at = "settled" /\ op'.name = op.name /\ op'.attempt = op.attempt
          /\ UNCHANGED <<row, held, plans, autos>> /\ op.at = "seed"
      BY <1>21, <2>1, GotoAttempt DEF settle_terminal_record
    <2>3. /\ record[op.name] # NoRecord =>
                /\ UpsertPolicy(record[op.name], op.policy) # NoRecord
                /\ UpsertPolicy(record[op.name], op.policy).pid = record[op.name].pid
                /\ UpsertPolicy(record[op.name], op.policy).count = record[op.name].count
          /\ record[op.name] = NoRecord =>
                UpsertPolicy(record[op.name], op.policy).pid = NoPid
      <3>1. op.policy \in Policies
        BY <2>1 DEF Job
      <3>2. record[op.name] # NoRecord =>
               [record[op.name] EXCEPT !.policy = op.policy] \in SpawnRecord
        BY <1>0, <2>1, <3>1, RecordType
      <3> QED  BY <1>0, <2>1, <3>2 DEF UpsertPolicy, PolicySeed, SpawnRecord
    <2>4. \/ record' = [record EXCEPT ![op.name] = UpsertPolicy(@, op.policy)]
          \/ record' = record
      BY <1>21 DEF settle_terminal_record
    <2>5. /\ \A m \in Names \ {op.name} : record'[m] = record[m]
          /\ record[op.name] # NoRecord =>
                /\ record'[op.name] # NoRecord
                /\ record'[op.name].pid = record[op.name].pid
                /\ record'[op.name].count = record[op.name].count
          /\ record[op.name] = NoRecord =>
                record'[op.name] = NoRecord \/ record'[op.name].pid = NoPid
      BY <1>0, <2>1, <2>3, <2>4
    <2>6. (OnePlan /\ PlannedRowRests /\ PlanIsAhead)'
      BY <1>0, <2>1, <2>2, <2>5
    <2>7. (LaunchIsCounted /\ ReadyIsCounted /\ FailIsAhead /\ CrashedIsLost)'
      BY <1>0, <2>1, <2>2, <2>5
    <2>8. (RecordIsCounted /\ CrashLoopBounded)'
      BY <1>0, <2>1, <2>2, <2>5
    <2> QED  BY <2>6, <2>7, <2>8
  <1>22. CASE become_failed
    <2>1. op \in Job /\ op.name \in Names /\ row[op.name] \in LiveStates
      BY <1>22, JobInFlight DEF become_failed, Steps, ControlOK, OpMatchesRow
    <2>2. /\ row' = [row EXCEPT ![op.name] = "failed"] /\ op' = Idle
          /\ UNCHANGED <<record, held, autos>>
      BY <1>22 DEF become_failed
    <2>3. CASE plans' = plans
      BY <1>0, <2>1, <2>2, <2>3 DEF LiveStates
    <2>4. CASE plans' = [plans EXCEPT ![op.name][op.attempt] = @ + 1] /\ op.attempt # 0
      <3>1. op.at = "fail"
        BY <1>22, <2>4 DEF become_failed
      <3>2. op.attempt \in Attempts /\ autos[op.name] < op.attempt
        BY <1>0, <2>1, <3>1 DEF Job
      <3>3. InFlight(op.name) = {}
        BY <2>1 DEF LiveStates, Absent
      <3>4. \A m \in Names \ {op.name} : plans'[m] = plans[m]
        BY <1>0, <2>1, <2>4
      <3>5. /\ plans'[op.name][op.attempt] = 1
            /\ \A b \in Attempts \ {op.attempt} : plans'[op.name][b] = plans[op.name][b]
        <4>1. plans[op.name] \in [Attempts -> Nat]
          BY <1>0, <2>1
        <4>2. plans[op.name][op.attempt] = 0
          BY <3>2, <3>3, <4>1
        <4> QED  BY <1>0, <2>1, <2>4, <3>2, <4>1, <4>2
      <3>6. \A b \in Attempts : plans'[op.name][b] > 0 => b = op.attempt
        <4>1. \A b \in Attempts : ~(plans[op.name][b] > 0)
          BY <3>3
        <4> QED  BY <3>5, <4>1
      <3>7. /\ row'[op.name] = "failed"
            /\ \A m \in Names \ {op.name} : row'[m] = row[m]
        BY <1>0, <2>1, <2>2
      <3>8. (OnePlan /\ PlannedRowRests /\ PlanIsAhead)'
        <4>1. OnePlan'
          <5>1. ASSUME NEW m \in Names, NEW b \in InFlight(m)', NEW c \in InFlight(m)'
                PROVE  b = c /\ plans'[m][b] = 1
            <6>1. CASE m = op.name
              BY <3>5, <3>6, <5>1, <6>1
            <6>2. CASE m # op.name
              BY <3>4, <5>1, <6>2
            <6> QED  BY <6>1, <6>2
          <5> QED  BY <5>1
        <4>2. PlannedRowRests'
          BY <1>0, <2>1, <2>2, <3>2, <3>4, <3>5, <3>6, <3>7 DEF LiveStates
        <4>3. PlanIsAhead'
          BY <1>0, <2>1, <2>2, <3>2, <3>4, <3>5, <3>6, <3>7 DEF LiveStates
        <4> QED  BY <4>1, <4>2, <4>3
      <3>9. (LaunchIsCounted /\ ReadyIsCounted /\ FailIsAhead /\ CrashedIsLost)'
        BY <1>0, <2>1, <2>2, <3>2, <3>4, <3>5, <3>6, <3>7 DEF LiveStates
      <3>10. (RecordIsCounted /\ CrashLoopBounded)'
        BY <1>0, <2>1, <2>2, <3>2, <3>4, <3>5, <3>6, <3>7 DEF LiveStates
      <3> QED  BY <3>8, <3>9, <3>10
    <2> QED  BY <1>22, <2>3, <2>4 DEF become_failed
  <1>23. CASE engine_killed \/ engine_exits
    <2>1. /\ op' = Idle /\ UNCHANGED <<row, record, autos>>
          /\ held' = [n \in Names |-> NoHandle] /\ plans' = NoPlans
      BY <1>23 DEF engine_killed, engine_exits, Unlocked, EndSession
    <2>2. \A n \in Names : \A a \in Attempts : ~(plans'[n][a] > 0)
      BY <2>1 DEF NoPlans
    <2> QED  BY <2>1, <2>2
  <1>24. CASE open
    <2>1. PICK unreadable, uncleared \in SUBSET Names :
             adopt_orphans(unreadable, uncleared)
      BY <1>24 DEF open
    <2>2. op = Idle /\ op' = Idle /\ UNCHANGED <<plans, autos>>
      BY <1>24 DEF open, ControlOK, NoSessionIsIdle
    <2>3. \A m \in Names : /\ row'[m] = row[m] \/ row'[m] = "failed"
                           /\ row'[m] \in LiveStates =>
                                row[m] \in LiveStates /\ record'[m] = record[m]
      BY <1>0, <2>1 DEF adopt_orphans, reconcile_orphan_failed, LiveStates
    <2>4. \A m \in Names : held'[m] # NoHandle =>
             record[m] # NoRecord /\ record[m].pid # NoPid
      BY <2>1 DEF adopt_orphans, Adopts, Survives
    <2> QED  BY <1>0, <2>2, <2>3, <2>4
  <1>25. ASSUME NEW p \in Pids, process_exits(p)
         PROVE  LoopOK'
    BY <1>25 DEF process_exits
  <1>26. CASE UNCHANGED vars
    BY <1>26 DEF vars
  <1> QED
    BY <1>1, <1>2, <1>3, <1>4, <1>6, <1>7, <1>8, <1>9, <1>11, <1>12, <1>13,
       <1>14, <1>15, <1>16, <1>17, <1>18, <1>19, <1>20, <1>21, <1>22, <1>23,
       <1>24, <1>25, <1>26
       DEF Next, Operator, Reaper, Continue

LEMMA LoopInit == Init => LoopOK
  BY IdleIsIdle, MaxFailuresAssumption
     DEF Init, NoPlans, LoopOK, OnePlan, PlannedRowRests, PlanIsAhead,
         LaunchIsCounted, ReadyIsCounted, FailIsAhead, RecordIsCounted,
         CrashedIsLost, CrashLoopBounded, InFlight, LiveStates, Absent

-----------------------------------------------------------------------------
(***************************************************************************)
(* plan_restart's limit holds for the restarts there really were: between  *)
(* two starts by the operator there are fewer than MaxFailures automatic   *)
(* ones, whatever fails and wherever the engine is killed, as long as the  *)
(* operator waits for a backoff in flight.                                 *)
(***************************************************************************)
THEOREM CrashLoopStops == Spec /\ [][Patient]_vars => []CrashLoopBounded
  <1> DEFINE IInv == TypeOK /\ ControlOK /\ LoopOK
  <1>1. Init => IInv
    BY InitOK, LoopInit
  <1>2. IInv /\ [Next]_vars /\ [Patient]_vars => IInv'
    BY TypeStep, ControlStep, LoopStep DEF ControlOK
  <1>3. IInv => CrashLoopBounded
    BY DEF LoopOK
  <1> QED  BY <1>1, <1>2, <1>3, PTL DEF Spec

(***************************************************************************)
(* The bound of the runs, MaxPlans = 1, makes every operator patient.      *)
(***************************************************************************)
THEOREM CrashLoopStopsInRuns ==
    ASSUME MaxPlans <= 1
    PROVE  Spec => []CrashLoopBounded
  <1> DEFINE IInv == TypeOK /\ ControlOK /\ LoopOK
  <1>1. Init => IInv
    BY InitOK, LoopInit
  <1>2. TypeOK => Patient
    <2> SUFFICES ASSUME TypeOK, NEW n \in Names, NEW detach \in BOOLEAN, start(n, detach)
                 PROVE  InFlight(n) = {}
      BY DEF Patient
    <2>1. plans[n] \in [Attempts -> Nat] /\ \A a \in Attempts : plans[n][a] < MaxPlans
      BY DEF start, TypeOK
    <2> QED  BY <2>1, SupervisorAssumption DEF InFlight
  <1>3. IInv /\ [Next]_vars => IInv'
    BY <1>2, TypeStep, ControlStep, LoopStep DEF ControlOK
  <1>4. IInv => CrashLoopBounded
    BY DEF LoopOK
  <1> QED  BY <1>1, <1>3, <1>4, PTL DEF Spec

-----------------------------------------------------------------------------
(***************************************************************************)
(* Supervisor's guaranteed pause: the state an operator reads and the      *)
(* signals the process received agree, through crashes, restarts, kills of *)
(* the engine and adoptions.                                               *)
(***************************************************************************)

(***************************************************************************)
(* The hypotheses.  Each excludes a step after which the code does leave   *)
(* the row and the process apart: the row is committed before the signal   *)
(* is sent, so a failed append, a signal the host refuses, and a kill of   *)
(* the engine between the two all lose the signal.                         *)
(***************************************************************************)
SignalsFollow ==
    Faults \cap {"append", "control"} = {} /\ "signal" \notin KillAt

-----------------------------------------------------------------------------
Records(n, p) == record[n] # NoRecord /\ record[n].pid = p

Holds(n, p) == held[n] # NoHandle /\ held[n].pid = p

Starts(n, p) == op.at \in {"watch", "ready"} /\ op.name = n /\ op.pid = p

Signals(n) == op.at = "signal" /\ op.name = n

Crashing(n) == op.at \in {"seed", "settled", "fail"} /\ op.name = n

\* Whatever refers to a live process is of the instance it was spawned for.
ReferencesAreOwn ==
    \A n \in Names, p \in Pids :
        Alive(p) /\ (Records(n, p) \/ Holds(n, p) \/ Starts(n, p)) => owner[p] = n

FrozenIsAlive == \A p \in frozen : Alive(p)

LaunchRuns == op.at \in {"watch", "ready"} => op.pid \notin frozen

\* The signal will find the process the record names.
RecordedIsHeld ==
    up => \A n \in Names, p \in Pids :
              /\ row[n] \in LiveStates /\ Records(n, p) /\ Alive(p)
              /\ ~Crashing(n)
              => held[n] # NoHandle

PausedIsFrozen ==
    \A n \in GuaranteedPause, p \in Pids :
        /\ row[n] \in LiveStates /\ Records(n, p) /\ Alive(p)
        /\ ~Signals(n)
        => (row[n] = "paused" <=> p \in frozen)

PauseOK ==
    /\ ReferencesAreOwn /\ FrozenIsAlive /\ LaunchRuns /\ RecordedIsHeld
    /\ PausedIsFrozen

-----------------------------------------------------------------------------
\* The processes may die in the step, and nothing else happens to them.
Dies ==
    /\ \A p \in Pids : Alive(p)' => /\ Alive(p) /\ owner'[p] = owner[p]
                                    /\ p \in frozen' <=> p \in frozen
    /\ \A p \in frozen' : p \in frozen /\ Alive(p)'

LEMMA KillDies ==
    ASSUME TypeOK, FrozenIsAlive, NEW P, Kill(P)
    PROVE  Dies
  BY DEF TypeOK, FrozenIsAlive, Kill, Dies, Alive

LEMMA KeepDies ==
    ASSUME FrozenIsAlive, UNCHANGED os
    PROVE  Dies
  BY DEF FrozenIsAlive, os, Dies, Alive

(***************************************************************************)
(* A step after which every reference to a process was there before, a     *)
(* live row is one that already was and is held unless it crashes.         *)
(***************************************************************************)
Quiet ==
    /\ Dies /\ (up' => up)
    /\ \A m \in Names, p \in Pids : /\ Records(m, p)' => Records(m, p)
                                    /\ Holds(m, p)' => Holds(m, p)
                                    /\ Starts(m, p)' => Starts(m, p)
    /\ op'.at \in {"watch", "ready"} =>
           op.at \in {"watch", "ready"} /\ op'.pid = op.pid
    /\ \A m \in Names : row'[m] \in LiveStates =>
           /\ row'[m] = row[m]
           /\ ~Crashing(m)' => ~Crashing(m)
           /\ Signals(m) => Signals(m)'
           /\ up' /\ ~Crashing(m)' /\ held[m] # NoHandle => held'[m] # NoHandle

LEMMA PauseKept ==
    ASSUME PauseOK, Quiet
    PROVE  PauseOK'
  <1> USE DEF PauseOK, Quiet
  <1>1. ReferencesAreOwn'
    BY DEF ReferencesAreOwn, Dies
  <1>2. FrozenIsAlive' /\ LaunchRuns'
    BY DEF FrozenIsAlive, LaunchRuns, Dies
  <1>3. RecordedIsHeld'
    BY DEF RecordedIsHeld, Dies
  <1>4. PausedIsFrozen'
    <2>1. ASSUME NEW n \in GuaranteedPause, NEW p \in Pids,
                 row'[n] \in LiveStates, Records(n, p)', Alive(p)', ~Signals(n)'
          PROVE  row'[n] = "paused" <=> p \in frozen'
      <3>1. n \in Names
        BY SupervisorAssumption
      <3> QED  BY <2>1, <3>1 DEF PausedIsFrozen, Dies
    <2> QED  BY <2>1 DEF PausedIsFrozen
  <1> QED  BY <1>1, <1>2, <1>3, <1>4

\* The crash path clears a record or counts in it: its process is the same.
LEMMA PlanKeepsPid ==
    ASSUME TypeOK, NEW n \in Names, plan_restart(n)
    PROVE  \A p \in Pids : Records(n, p)' => Records(n, p)
  <1> DEFINE next == restart_count(n) + 1
  <1>0. record \in [Names -> SpawnRecord \cup {NoRecord}]
    BY DEF TypeOK
  <1>1. record[n] # NoRecord => \A k : [record[n] EXCEPT !.count = k].pid = record[n].pid
    BY <1>0 DEF SpawnRecord
  <1>2. \/ record' = [record EXCEPT ![n] = NoRecord]
        \/ record' = record
        \/ record' = [record EXCEPT ![n] =
                        IF @ = NoRecord THEN @ ELSE [@ EXCEPT !.count = next]]
    BY DEF plan_restart
  <1> HIDE DEF next
  <1> QED  BY <1>0, <1>1, <1>2 DEF Records

LEMMA PauseStep ==
    ASSUME SignalsFollow
    PROVE  TypeOK /\ ControlOK /\ RecordOK /\ PauseOK /\ [Next]_vars => PauseOK'
  <1> SUFFICES ASSUME TypeOK, ControlOK, RecordOK, PauseOK, [Next]_vars
               PROVE  PauseOK'
    OBVIOUS
  <1> USE NullAssumption, IdleIsIdle
          DEF durable, session, os, history, Records, Holds, Starts, Signals,
              Crashing
  <1>0. /\ row \in [Names -> States \cup {Absent}]
        /\ record \in [Names -> SpawnRecord \cup {NoRecord}]
        /\ held \in [Names -> Supervised \cup {NoHandle}]
        /\ "append" \notin Faults /\ "control" \notin Faults
        /\ "signal" \notin KillAt /\ GuaranteedPause \subseteq Names
        /\ FrozenIsAlive
    BY SupervisorAssumption DEF TypeOK, SignalsFollow, PauseOK
  <1> DEFINE Kept == UNCHANGED <<owner, frozen>>
  <1>k. Kept => Dies
    BY <1>0, KeepDies
  <1>1. ASSUME NEW n \in Names, register(n)
        PROVE  PauseOK'
    <2>1. Quiet
      BY <1>0, <1>1, <1>k DEF register, Unlocked, LiveStates, Quiet
    <2> QED  BY <2>1, PauseKept
  <1>2. ASSUME NEW n \in Names, set_restart_policy(n)
        PROVE  PauseOK'
    <2>1. PICK q \in Policies : record' = [record EXCEPT ![n] = UpsertPolicy(@, q)]
      BY <1>2 DEF set_restart_policy
    <2>2. /\ record[n] # NoRecord => record'[n].pid = record[n].pid
          /\ record[n] = NoRecord => record'[n].pid = NoPid
          /\ \A m \in Names \ {n} : record'[m] = record[m]
      <3>1. record[n] # NoRecord => [record[n] EXCEPT !.policy = q] \in SpawnRecord
        BY <1>0, RecordType
      <3> QED  BY <1>0, <2>1, <3>1 DEF UpsertPolicy, PolicySeed, SpawnRecord
    <2>3. Quiet
      BY <1>0, <1>2, <2>2, <1>k DEF set_restart_policy, Unlocked, Quiet
    <2> QED  BY <2>3, PauseKept
  <1>3. ASSUME NEW n \in Names, NEW attempt, NEW detach,
               BeginStart(n, attempt, detach), op = Idle,
               UNCHANGED <<record, held, up, os>>
        PROVE  PauseOK'
    <2>1. /\ row' = [row EXCEPT ![n] = "starting"]
          /\ op' = Idle \/ (op'.at = "launch" /\ op'.name = n)
      BY <1>3, BeginStartEffect
    <2>2. Quiet
      BY <1>0, <1>3, <2>1, <1>k DEF LiveStates, Quiet
    <2> QED  BY <2>2, PauseKept
  <1>4. ASSUME NEW n \in Names, NEW detach \in BOOLEAN, start(n, detach)
        PROVE  PauseOK'
    BY <1>3, <1>4 DEF start, Unlocked
  <1>5. ASSUME NEW n \in Names, NEW a \in Attempts, restart(n, a)
        PROVE  PauseOK'
    <2>1. CASE UNCHANGED <<row, op>>
      <3>1. Quiet
        BY <1>5, <2>1, <1>k DEF restart, RestartDue, Quiet
      <3> QED  BY <3>1, PauseKept
    <2>2. CASE BeginStart(n, a, record[n] # NoRecord /\ record[n].detach)
      BY <1>3, <1>5, <2>2 DEF restart, RestartDue
    <2> QED  BY <1>5, <2>1, <2>2 DEF restart
  <1>6. ASSUME NEW n \in Names, NEW then, BeginStop(n, then), op = Idle,
               UNCHANGED <<record, held, up, os>>
        PROVE  PauseOK'
    <2>1. /\ row' = [row EXCEPT ![n] = "stopping"]
          /\ op' = Idle \/ op'.at = "kill"
      BY <1>6, BeginStopEffect
    <2>2. Quiet
      BY <1>0, <1>6, <2>1, <1>k DEF LiveStates, Quiet
    <2> QED  BY <2>2, PauseKept
  <1>7. ASSUME NEW n \in Names, stop(n)
        PROVE  PauseOK'
    BY <1>6, <1>7 DEF stop, Unlocked
  <1>8. ASSUME NEW n \in Names, stop_retry(n)
        PROVE  PauseOK'
    <2>1. Quiet
      BY <1>0, <1>8, <1>k
         DEF stop_retry, Unconfirmed, NewJob, Unlocked, LiveStates, Quiet
    <2> QED  BY <2>1, PauseKept
  <1>9. ASSUME NEW n \in Names, NEW force \in BOOLEAN, remove(n, force)
        PROVE  PauseOK'
    <2>1. CASE StopsFirst(row[n])
      BY <1>6, <1>9, <2>1 DEF remove, Unlocked
    <2>2. CASE ~StopsFirst(row[n])
      <3>1. Quiet
        BY <1>0, <1>9, <2>2, <1>k
           DEF remove, Delete, LiveStates, Absent, Unlocked, Quiet
      <3> QED  BY <3>1, PauseKept
    <2> QED  BY <2>1, <2>2
  <1>10. ASSUME NEW n \in Names, NEW command \in {"pause", "resume"},
                suspend_or_resume(n, command)
         PROVE  PauseOK'
    <2>1. /\ op' = IF n \in GuaranteedPause THEN NewJob(n, "signal") ELSE Idle
          /\ op = Idle /\ UNCHANGED <<record, held, up, os>>
      BY <1>0, <1>10 DEF suspend_or_resume, Transition, Unlocked
    <2>2. /\ n \in GuaranteedPause => op'.at = "signal" /\ op'.name = n
          /\ n \notin GuaranteedPause => op' = Idle
          /\ op'.at \in {"signal", "idle"}
      BY <2>1 DEF NewJob
    <2>3. /\ \A m \in Names \ {n} : row'[m] = row[m]
          /\ row[n] \in LiveStates
      BY <1>0, <1>10, SuspendEffect
    <2>4. (ReferencesAreOwn /\ FrozenIsAlive /\ LaunchRuns)'
      BY <2>1, <2>2
         DEF PauseOK, ReferencesAreOwn, FrozenIsAlive, LaunchRuns, Alive
    <2>5. RecordedIsHeld'
      BY <2>1, <2>2, <2>3 DEF PauseOK, RecordedIsHeld, Alive
    <2>6. PausedIsFrozen'
      BY <1>0, <2>1, <2>2, <2>3 DEF PauseOK, PausedIsFrozen, Alive
    <2> QED  BY <2>4, <2>5, <2>6 DEF PauseOK
  <1>11. ASSUME NEW n \in Names, poll_exited(n) \/ poll_unreadable(n)
         PROVE  PauseOK'
    <2>1. LoseHandle(n) /\ op = Idle /\ up' = up
      BY <1>11 DEF poll_exited, poll_unreadable, LoseHandle
    <2>2. /\ row' = row /\ held' = [held EXCEPT ![n] = NoHandle]
          /\ \/ op'.at \in {"seed", "fail"} /\ op'.name = n
             \/ op'.at = "clear"
             \/ row[n] \notin LiveStates /\ op' = op
          /\ \/ row[n] \notin LiveStates
             \/ op'.at \in {"seed", "fail"} /\ op'.name = n
          /\ \A m \in Names \ {n} : record'[m] = record[m]
      BY <2>1, LoseHandleEffect DEF LiveStates
    <2>3. \A p \in Pids : Records(n, p)' => Records(n, p)
      <3>1. CASE row[n] \in LiveStates
        <4>1. plan_restart(n)
          BY <2>1, <3>1 DEF LoseHandle, Reap, Unconfirmed, LiveStates
        <4> QED  BY <4>1, PlanKeepsPid
      <3>2. CASE row[n] \notin LiveStates
        BY <2>1, <3>2, LoseHandleEffect
      <3> QED  BY <3>1, <3>2
    <2>4. Dies
      BY <1>0, <1>11, <1>k, KillDies DEF poll_exited, poll_unreadable
    <2>5. Quiet
      BY <1>0, <2>1, <2>2, <2>3, <2>4 DEF Quiet
    <2> QED  BY <2>5, PauseKept
  <1>12. CASE launch_fails \/ watch_startup_exit
    <2>1. Quiet
      BY <1>0, <1>12, <1>k DEF launch_fails, watch_startup_exit, LiveStates, Quiet
    <2> QED  BY <2>1, PauseKept
  <1>13. ASSUME NEW p \in Pids, spawn(p)
         PROVE  PauseOK'
    <2>1. op \in Job /\ op.name \in Names
      BY <1>13, JobInFlight DEF spawn, Steps
    <2>2. /\ op'.at = "watch" /\ op'.name = op.name /\ op'.pid = p
          /\ op.at = "launch" /\ UNCHANGED <<row, record, held, up, frozen>>
          /\ owner'[p] = op.name /\ \A q \in Pids \ {p} : owner'[q] = owner[q]
      BY <1>13, <2>1 DEF spawn, Goto, Job, TypeOK
    <2>3. ~Alive(p) /\ \A m \in Names : ~Records(m, p) /\ ~Holds(m, p)
      BY <1>13 DEF spawn, Fresh
    <2>4. p \notin frozen
      BY <1>0, <2>3 DEF FrozenIsAlive
    <2>5. op.name # Nobody
      BY <2>1
    <2>6. ReferencesAreOwn'
      BY <2>2, <2>3 DEF PauseOK, ReferencesAreOwn, Alive
    <2>7. FrozenIsAlive' /\ LaunchRuns'
      BY <1>0, <2>2, <2>4 DEF FrozenIsAlive, LaunchRuns, Alive, TypeOK
    <2>8. RecordedIsHeld' /\ PausedIsFrozen'
      BY <1>0, <2>2, <2>3 DEF PauseOK, RecordedIsHeld, PausedIsFrozen, Alive
    <2> QED  BY <2>6, <2>7, <2>8 DEF PauseOK
  <1>14. CASE write_spawn_record
    <2>1. op \in Job /\ op.name \in Names
      BY <1>14, JobInFlight DEF write_spawn_record, Steps
    <2>2. NewSpawnRecord \in SpawnRecord /\ NewSpawnRecord.pid = op.pid
      BY <2>1 DEF NewSpawnRecord, SpawnRecord, Job
    <2>3. /\ op'.at = "ready" /\ op'.name = op.name /\ op'.pid = op.pid
          /\ op.at = "watch" /\ UNCHANGED <<row, held, up, owner, frozen>>
          /\ record'[op.name] = NewSpawnRecord
          /\ \A m \in Names \ {op.name} : record'[m] = record[m]
      BY <1>0, <1>14, <2>1, GotoEffect DEF write_spawn_record
    <2>4. row[op.name] \notin LiveStates
      BY <2>3 DEF ControlOK, OpMatchesRow, LiveStates, Idle
    <2>5. (ReferencesAreOwn /\ FrozenIsAlive /\ LaunchRuns)'
      BY <2>1, <2>2, <2>3
         DEF PauseOK, ReferencesAreOwn, FrozenIsAlive, LaunchRuns, Alive
    <2>6. RecordedIsHeld' /\ PausedIsFrozen'
      BY <1>0, <2>1, <2>3, <2>4 DEF PauseOK, RecordedIsHeld, PausedIsFrozen, Alive
    <2> QED  BY <2>5, <2>6 DEF PauseOK
  <1>15. CASE write_spawn_record_fails
    <2>1. Dies
      BY <1>0, <1>15, <1>k, KillDies DEF write_spawn_record_fails, Teardown
    <2>2. Quiet
      BY <1>0, <1>15, <2>1 DEF write_spawn_record_fails, LiveStates, Quiet
    <2> QED  BY <2>2, PauseKept
  <1>16. CASE become_running
    <2>1. op \in Job /\ op.name \in Names /\ op.pid \in Pids
      BY <1>16, JobInFlight DEF become_running, Steps, ControlOK, LaunchKnowsPid
    <2>2. NewHandle(op.pid, op.detach) # NoHandle /\ NewHandle(op.pid, op.detach).pid = op.pid
      <3>1. NewHandle(op.pid, op.detach) \in Supervised
        BY <2>1 DEF NewHandle, Supervised, Job
      <3> QED  BY <3>1 DEF NewHandle
    <2>3. /\ row'[op.name] = "running" /\ \A m \in Names \ {op.name} : row'[m] = row[m]
          /\ held'[op.name] # NoHandle /\ held'[op.name].pid = op.pid
          /\ \A m \in Names \ {op.name} : held'[m] = held[m]
          /\ op' = Idle /\ op.at = "ready" /\ UNCHANGED <<record, up>>
      BY <1>0, <1>16, <2>1, <2>2 DEF become_running
    <2>4. Dies
      BY <1>0, <1>16, KillDies DEF become_running
    <2>5. Records(op.name, op.pid) /\ op.pid \notin frozen
      BY <2>3 DEF RecordOK, ReadyIsRecorded, PauseOK, LaunchRuns
    <2>6. (ReferencesAreOwn /\ FrozenIsAlive /\ LaunchRuns)'
      BY <2>1, <2>3, <2>4
         DEF PauseOK, ReferencesAreOwn, FrozenIsAlive, LaunchRuns, Dies
    <2>7. RecordedIsHeld'
      BY <2>1, <2>3, <2>4 DEF PauseOK, RecordedIsHeld, Dies
    <2>8. PausedIsFrozen'
      BY <1>0, <2>1, <2>3, <2>4, <2>5 DEF PauseOK, PausedIsFrozen, Dies
    <2> QED  BY <2>6, <2>7, <2>8 DEF PauseOK
  <1>17. CASE backend_stop \/ backend_stop_unconfirmed \/ backend_stop_fails
    <2>1. /\ op \in Job /\ op.name \in Names /\ op.at = "kill"
          /\ row[op.name] \notin LiveStates
      BY <1>17, JobInFlight
         DEF backend_stop, backend_stop_unconfirmed, backend_stop_fails, Steps,
             ControlOK, OpMatchesRow, LiveStates
    <2>2. Dies
      BY <1>0, <1>17, <1>k, KillDies
         DEF backend_stop, backend_stop_unconfirmed, backend_stop_fails
    <2>3. op'.at \in {"idle", "clear"} /\ UNCHANGED <<row, record, up>>
      BY <1>17, <2>1, GotoEffect
         DEF backend_stop, backend_stop_unconfirmed, backend_stop_fails
    <2>4. /\ \A m \in Names \ {op.name} : held'[m] = held[m]
          /\ held'[op.name] # NoHandle =>
                held[op.name] # NoHandle /\ held'[op.name].pid = held[op.name].pid
      <3>1. CASE backend_stop_unconfirmed
        <4>1. /\ held[op.name] \in Supervised
              /\ held' = [held EXCEPT ![op.name] =
                            [held[op.name] EXCEPT !.stop_unconfirmed = TRUE]]
          BY <1>0, <2>1, <3>1 DEF backend_stop_unconfirmed
        <4>2. [held[op.name] EXCEPT !.stop_unconfirmed = TRUE].pid = held[op.name].pid
          BY <4>1 DEF Supervised
        <4>3. held[op.name] # NoHandle
          BY <4>1
        <4> QED  BY <1>0, <2>1, <4>1, <4>2, <4>3
      <3>2. CASE backend_stop
        BY <1>0, <2>1, <3>2 DEF backend_stop
      <3>3. CASE backend_stop_fails
        BY <3>3 DEF backend_stop_fails
      <3> QED  BY <1>17, <3>1, <3>2, <3>3
    <2>5. \A m \in Names, p \in Pids : Holds(m, p)' => Holds(m, p)
      BY <2>4
    <2>6. Quiet
      BY <2>1, <2>2, <2>3, <2>4, <2>5 DEF Quiet
    <2> QED  BY <2>6, PauseKept
  <1>18. CASE clear_spawn_record
    <2>1. op \in Job /\ op.name \in Names
      BY <1>18, JobInFlight DEF clear_spawn_record, Steps
    <2>2. Quiet
      BY <1>0, <1>18, <1>k, <2>1, GotoEffect DEF clear_spawn_record, Quiet
    <2> QED  BY <2>2, PauseKept
  <1>19. CASE become_stopped
    <2>1. op \in Job /\ op.name \in Names
      BY <1>19, JobInFlight DEF become_stopped, Steps
    <2>2. /\ row' = [row EXCEPT ![op.name] = "stopped"]
          /\ op'.at \in {"idle", "delete"} /\ op.at = "settle"
          /\ UNCHANGED <<record, held, up, owner, frozen>>
      BY <1>19, <2>1, GotoEffect DEF become_stopped, Transition
    <2>3. Quiet
      BY <1>0, <1>k, <2>1, <2>2 DEF LiveStates, Quiet
    <2> QED  BY <2>3, PauseKept
  <1>20. CASE delete_stopped
    <2>1. op \in Job /\ op.name \in Names
      BY <1>20, JobInFlight DEF delete_stopped, Steps
    <2>2. Quiet
      BY <1>0, <1>20, <1>k, <2>1 DEF delete_stopped, Delete, LiveStates, Absent, Quiet
    <2> QED  BY <2>2, PauseKept
  <1>21. CASE signal_backend
    <2>1. /\ op \in Job /\ op.name \in Names /\ row[op.name] \in LiveStates
          /\ op.at = "signal" /\ op' = Idle /\ UNCHANGED <<row, record, held, up, owner>>
      BY <1>21, JobInFlight DEF signal_backend, Steps, ControlOK, OpMatchesRow
    <2> DEFINE P == IF held[op.name] = NoHandle THEN {}
                    ELSE {q \in {held[op.name].pid} : Alive(q)}
    <2>2. frozen' = Signalled(row[op.name], P)
      BY <1>0, <1>21 DEF signal_backend
    <2>3. \A p \in Pids : p \in P <=> Holds(op.name, p) /\ Alive(p)
      OBVIOUS
    <2>4. P \subseteq Pids
      BY <1>0, <2>1 DEF Supervised
    <2> HIDE DEF P
    <2>5. /\ \A p \in Pids : ~Holds(op.name, p) \/ ~Alive(p) => (p \in frozen' <=> p \in frozen)
          /\ \A p \in Pids : Holds(op.name, p) /\ Alive(p) =>
                 (row[op.name] = "paused" <=> p \in frozen')
          /\ \A p \in frozen' : p \in frozen \/ (p \in Pids /\ Alive(p))
      BY <2>2, <2>3, <2>4 DEF Signalled
    <2>6. (ReferencesAreOwn /\ FrozenIsAlive /\ LaunchRuns /\ RecordedIsHeld)'
      BY <2>1, <2>5
         DEF PauseOK, ReferencesAreOwn, FrozenIsAlive, LaunchRuns, RecordedIsHeld, Alive
    <2>7. ASSUME NEW n \in GuaranteedPause, NEW p \in Pids,
                 row[n] \in LiveStates, Records(n, p), Alive(p)
          PROVE  row[n] = "paused" <=> p \in frozen'
      <3>1. n \in Names /\ owner[p] = n
        BY <1>0, <2>7 DEF PauseOK, ReferencesAreOwn
      <3>2. CASE n = op.name
        <4>1. up
          BY <2>1 DEF ControlOK, NoSessionIsIdle
        <4>2. Holds(n, p)
          BY <2>1, <2>7, <3>1, <3>2, <4>1
             DEF PauseOK, RecordedIsHeld, RecordOK, HandleIsRecorded
        <4> QED  BY <2>5, <2>7, <3>2, <4>2
      <3>3. CASE n # op.name
        <4>1. ~Holds(op.name, p)
          BY <2>1, <2>7, <3>1, <3>3 DEF PauseOK, ReferencesAreOwn
        <4> QED  BY <2>5, <2>7, <3>1, <3>3, <4>1 DEF PauseOK, PausedIsFrozen
      <3> QED  BY <3>2, <3>3
    <2>8. PausedIsFrozen'
      BY <2>1, <2>7 DEF PausedIsFrozen, Alive
    <2> QED  BY <2>6, <2>8 DEF PauseOK
  <1>22. CASE settle_terminal_record
    <2>1. op \in Job /\ op.name \in Names
      BY <1>22, JobInFlight DEF settle_terminal_record, Steps
    <2>2. /\ op'.at = "settled" /\ op'.name = op.name /\ op.at = "seed"
          /\ UNCHANGED <<row, held, up, owner, frozen>>
      BY <1>22, <2>1, GotoEffect DEF settle_terminal_record
    <2>3. /\ record[op.name] # NoRecord =>
                UpsertPolicy(record[op.name], op.policy).pid = record[op.name].pid
          /\ record[op.name] = NoRecord =>
                UpsertPolicy(record[op.name], op.policy).pid = NoPid
      BY <1>0, <2>1 DEF UpsertPolicy, PolicySeed, SpawnRecord
    <2>4. \/ record' = [record EXCEPT ![op.name] = UpsertPolicy(@, op.policy)]
          \/ record' = record
      BY <1>22 DEF settle_terminal_record
    <2>5. \A m \in Names, p \in Pids : Records(m, p)' => Records(m, p)
      BY <1>0, <2>1, <2>3, <2>4
    <2>6. Quiet
      BY <1>k, <2>2, <2>5 DEF Quiet
    <2> QED  BY <2>6, PauseKept
  <1>23. CASE become_failed
    <2>1. op \in Job /\ op.name \in Names
      BY <1>23, JobInFlight DEF become_failed, Steps
    <2>2. Quiet
      BY <1>0, <1>23, <1>k, <2>1 DEF become_failed, LiveStates, Quiet
    <2> QED  BY <2>2, PauseKept
  <1>24. CASE engine_killed \/ engine_exits
    <2>1. /\ op' = Idle /\ up' = FALSE /\ op.at # "signal" /\ UNCHANGED <<row, record>>
          /\ held' = [n \in Names |-> NoHandle]
      BY <1>0, <1>24 DEF engine_killed, engine_exits, Unlocked, EndSession
    <2>2. Dies
      BY <1>0, <1>24, <1>k, KillDies DEF engine_killed, engine_exits
    <2> QED  BY <2>1, <2>2
                DEF PauseOK, ReferencesAreOwn, FrozenIsAlive, LaunchRuns,
                    RecordedIsHeld, PausedIsFrozen, Dies
  <1>25. CASE open
    <2>1. PICK unreadable, uncleared \in SUBSET Names :
             adopt_orphans(unreadable, uncleared)
      BY <1>25 DEF open
    <2>2. op = Idle /\ op' = Idle /\ UNCHANGED <<owner, frozen>>
      BY <1>25 DEF open, ControlOK, NoSessionIsIdle
    <2>3. \A m \in Names, p \in Pids : Records(m, p)' => Records(m, p)
      BY <1>0, <2>1 DEF adopt_orphans
    <2>4. \A m \in Names, p \in Pids : Holds(m, p)' => Records(m, p)
      BY <2>1 DEF adopt_orphans, NewHandle, Adopts, Survives
    <2>5. \A m \in Names : row'[m] \in LiveStates =>
             row'[m] = row[m] /\ ~IsOrphan(m, unreadable)
      BY <1>0, <2>1 DEF adopt_orphans, reconcile_orphan_failed, LiveStates
    <2>6. ASSUME NEW m \in Names, NEW p \in Pids, row'[m] \in LiveStates,
                 Records(m, p)
          PROVE  held'[m] # NoHandle
      <3>1. Adopts(m, unreadable)
        BY <2>5, <2>6 DEF IsOrphan
      <3>2. NewHandle(record[m].pid, record[m].detach) \in Supervised
        BY <1>0, <3>1 DEF Adopts, Survives, SpawnRecord, NewHandle, Supervised
      <3> QED  BY <2>1, <3>1, <3>2 DEF adopt_orphans
    <2>7. (ReferencesAreOwn /\ FrozenIsAlive /\ LaunchRuns)'
      BY <2>2, <2>3, <2>4
         DEF PauseOK, ReferencesAreOwn, FrozenIsAlive, LaunchRuns, Alive
    <2>8. RecordedIsHeld'
      BY <2>3, <2>6 DEF RecordedIsHeld
    <2>9. PausedIsFrozen'
      BY <1>0, <2>2, <2>3, <2>5 DEF PauseOK, PausedIsFrozen, Alive
    <2> QED  BY <2>7, <2>8, <2>9 DEF PauseOK
  <1>26. ASSUME NEW p \in Pids, process_exits(p)
         PROVE  PauseOK'
    <2>1. Quiet
      BY <1>0, <1>26, KillDies DEF process_exits, Quiet
    <2> QED  BY <2>1, PauseKept
  <1>27. CASE UNCHANGED vars
    <2>1. Quiet
      BY <1>27, <1>k DEF vars, Quiet
    <2> QED  BY <2>1, PauseKept
  <1> QED
    BY <1>1, <1>2, <1>4, <1>5, <1>7, <1>8, <1>9, <1>10, <1>11, <1>12, <1>13,
       <1>14, <1>15, <1>16, <1>17, <1>18, <1>19, <1>20, <1>21, <1>22, <1>23,
       <1>24, <1>25, <1>26, <1>27
       DEF Next, Operator, Reaper, Continue

LEMMA PauseInit == Init => PauseOK
  BY IdleIsIdle
     DEF Init, PauseOK, ReferencesAreOwn, FrozenIsAlive, LaunchRuns,
         RecordedIsHeld, PausedIsFrozen, Records, Holds, Starts, Alive

-----------------------------------------------------------------------------
(***************************************************************************)
(* A paused instance whose adapter guarantees the pause is stopped, and a  *)
(* running one is not, between any two operations: pause and resume commit *)
(* the row and then signal the process the table holds, and neither a      *)
(* restart nor an adoption mistakes one process for another.               *)
(***************************************************************************)
THEOREM PausesAreReal ==
    ASSUME SignalsFollow
    PROVE  Spec => []PauseIsReal
  <1> DEFINE IInv == TypeOK /\ ControlOK /\ RecordOK /\ PauseOK
  <1>1. Init => IInv
    BY InitOK, PauseInit
  <1>2. "append" \notin Faults
    BY DEF SignalsFollow
  <1>3. IInv /\ [Next]_vars => IInv'
    BY <1>2, TypeStep, ControlStep, RecordStep, PauseStep DEF ControlOK
  <1>4. IInv => PauseIsReal
    <2> SUFFICES ASSUME IInv, up, op = Idle, NEW n \in GuaranteedPause,
                        row[n] \in LiveStates, held[n] # NoHandle, Alive(held[n].pid)
                 PROVE  row[n] = "paused" <=> held[n].pid \in frozen
      BY DEF PauseIsReal
    <2>1. n \in Names /\ held[n] \in Supervised
      BY SupervisorAssumption DEF TypeOK
    <2>2. held[n].pid \in Pids /\ Records(n, held[n].pid)
      BY <2>1 DEF RecordOK, HandleIsRecorded, Records, Supervised
    <2> QED  BY <2>2, IdleIsIdle DEF PauseOK, PausedIsFrozen, Signals
  <1> QED  BY <1>1, <1>3, <1>4, PTL DEF Spec
=============================================================================
