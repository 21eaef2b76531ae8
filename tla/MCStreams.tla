------------------------------ MODULE MCStreams ------------------------------
(***************************************************************************)
(* What flows between an agent, its engine, a Host and a provider, on      *)
(* small instances: the committed events (EventStream), the agent's        *)
(* signals and stdin on Unix (ProcessHandles), its model traffic (Relay)   *)
(* and its output (OutputCapture).  They share no variable and are checked *)
(* side by side: a behaviour is one of a single part, chosen in its first  *)
(* state, and the others stay initial (or idle, OutputCapture).            *)
(***************************************************************************)
EXTENDS EventStream, ProcessHandles, Relay

VARIABLES
    part,
    \* OutputCapture
    raw, output, starts, captures, run, log_agent, log_handle, state, mirror,
    follower, notes, log_crashes, bound

logVars == <<raw, output, starts, captures, run, log_agent, log_handle, state,
             mirror, follower, notes, log_crashes, bound>>
mcVars  == <<part, vars, handleVars, relayVars, logVars>>

-----------------------------------------------------------------------------
(* Instances and their bounds.                                             *)

Groups(sp, op_, cr, st, co, se, fo, sk, rf, sg) ==
    [spawns |-> sp, opens |-> op_, crashes |-> cr, stops |-> st, controls |-> co,
     sends |-> se, forks |-> fo, stuck |-> sk, readFailures |-> rf, strangers |-> sg]
MCGroups ==
    {Groups(1, 2, 1, 1, 0, 0, 0, 1, 1, 1), Groups(1, 1, 1, 1, 1, 0, 1, 0, 0, 1),
     Groups(2, 1, 0, 1, 0, 2, 0, 0, 0, 0), Groups(2, 0, 0, 1, 1, 0, 1, 1, 1, 0)}

Request(method, chat, json, body, options, size) ==
    [method |-> method, chat |-> chat, json |-> json, body |-> body,
     options |-> options, size |-> size]
MCRequests ==
    {Request("POST", TRUE, TRUE, "stream", "none", "fits"),
     Request("POST", TRUE, TRUE, "stream", "exclude", "fits"),
     Request("POST", FALSE, TRUE, "stream", "none", "fits"),
     Request("POST", TRUE, TRUE, "whole", "none", "huge"),
     Request("POST", TRUE, TRUE, "whole", "none", "fits")}

Written(r, b, n, c, f) == [runs |-> r, bytes |-> b, notes |-> n, crashes |-> c, readers |-> f]
MCWritten ==
    {Written(2, 2, 0, 0, 0), Written(2, 1, 0, 1, 0), Written(1, 3, 0, 0, 0),
     Written(1, 1, 1, 0, 1)}

O == INSTANCE OutputCapture WITH
        MAX_TAIL_BYTES_PER_PASS <- 2, MAX_TAIL_LINES_PER_PASS <- 1,
        LOG_ROTATE_MAX_BYTES <- 2, MaxLine <- 2, Bounds <- MCWritten,
        agent <- log_agent, handle <- log_handle, crashes <- log_crashes

ASSUME EventStreamConstants /\ RelayConstants

-----------------------------------------------------------------------------
Unused(v) == v = "unused"

LogUnused ==
    Unused(raw) /\ Unused(output) /\ Unused(starts) /\ Unused(captures) /\ Unused(run)
    /\ Unused(log_agent) /\ Unused(log_handle) /\ Unused(state) /\ Unused(mirror)
    /\ Unused(follower) /\ Unused(notes) /\ Unused(log_crashes) /\ Unused(bound)

MCInit ==
    /\ part \in {"stream", "log", "process", "relay"}
    /\ Init
    /\ HandleInit /\ (part # "process" => limits = CHOOSE b \in HandleBounds : TRUE)
    /\ RelayInit
    /\ IF part = "log" THEN O!OutputInit ELSE LogUnused

MCNext ==
    \/ part = "stream" /\ Next /\ UNCHANGED <<part, handleVars, relayVars, logVars>>
    \/ part = "process" /\ HandleNext /\ UNCHANGED <<part, vars, relayVars, logVars>>
    \/ part = "relay" /\ RelayNext /\ UNCHANGED <<part, vars, handleVars, logVars>>
    \/ part = "log" /\ O!OutputNext /\ UNCHANGED <<part, vars, handleVars, relayVars>>

\* The fairness each module states, in the behaviours of its part.
MCFairness ==
    /\ WF_vars(part = "stream" /\ publish)
    /\ WF_vars(part = "stream" /\ Host)
    /\ WF_handleVars(part = "process" /\ poll)
    /\ WF_handleVars(part = "process" /\ Stopping)
    /\ WF_handleVars(part = "process" /\ control_signal)
    /\ WF_handleVars(part = "process" /\ Writing)
    /\ WF_handleVars(part = "process" /\ Dropping)
    /\ \A c \in {1, 2} : WF_logVars(part = "log" /\ c \in DOMAIN captures /\ O!tailer(c))
    /\ WF_logVars(part = "log" /\ O!send_engine_line)
    /\ WF_logVars(part = "log" /\ O!following)
    /\ WF_logVars(part = "log" /\ O!final_deadline)

MCSpec == MCInit /\ [][MCNext]_mcVars /\ MCFairness

-----------------------------------------------------------------------------
(* Checked besides: StreamIsTrue, TearIsTold and Converges (EventStream),  *)
(* GoneIsGone, NoTornInput, ExitSparesDetachedOnly and DeathIsNoticed      *)
(* (ProcessHandles), RelayIsHonest (Relay).                                *)

\* Every variable has its type, OutputCapture's when that part is under way.
TypesOK ==
    /\ TypeOK /\ HandleTypeOK /\ RelayTypeOK
    /\ part = "log" => O!OutputTypeOK

\* OutputCapture: the attributed log and its follower are the agent's output.
LogIsExact == part = "log" => O!AttributedExactly /\ O!FollowIsExact

\* The capture appends what it owes, and a follower of an ended run ends.
LogMovesOn ==
    /\ (part = "log" /\ O!BacklogOwed) ~> (part = "log" /\ ~O!BacklogOwed)
    /\ <>[](part = "log" /\ O!LeftRunning)
          => ((part = "log" /\ O!FollowerRuns) ~> (part = "log" /\ ~O!FollowerRuns))
=============================================================================
