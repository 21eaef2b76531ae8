---------------------------- MODULE AgentInstance ----------------------------
(***************************************************************************)
(* What the supervisor promises an operator about each Agent Instance, with*)
(* no engine in it: the state the operator reads, and whether a process of *)
(* the instance exists.  Engines come and go without a trace here.         *)
(***************************************************************************)
EXTENDS Lifecycle

CONSTANT Names

VARIABLES
    state,   \* the lifecycle state shown, or "absent"
    live     \* a process of the instance exists

vars == <<state, live>>

Init ==
    /\ state = [n \in Names |-> "absent"]
    /\ live = [n \in Names |-> FALSE]

Keeps(n, f, g) == g[n] = f[n]

Register(n) ==
    /\ state[n] = "absent" /\ state'[n] = "registered"
    /\ ~live[n] /\ ~live'[n]

\* A process appears only while the instance says it is starting.
Launch(n) ==
    /\ state[n] = "starting" /\ Keeps(n, state, state')
    /\ ~live[n] /\ live'[n]

\* A process may end at any moment, and stays ended.
Exit(n) ==
    /\ Keeps(n, state, state')
    /\ live[n] /\ ~live'[n]

(***************************************************************************)
(* A lifecycle edge.  Nothing is left running by the edges to stopped and  *)
(* to failed, and nothing is running when a start is accepted.             *)
(***************************************************************************)
Advance(n) ==
    /\ <<state[n], state'[n]>> \in Edges
    /\ Keeps(n, live, live')
    /\ state'[n] \in {"stopped", "failed"} => ~live[n]
    /\ state[n] \in {"registered", "stopped", "failed"} => ~live[n]

Delete(n) ==
    /\ state[n] \notin {"absent", "running"} /\ state'[n] = "absent"
    /\ ~live[n] /\ ~live'[n]

Moves(n) == Register(n) \/ Launch(n) \/ Exit(n) \/ Advance(n) \/ Delete(n)

\* Several instances may move at once: an engine's end, an engine's opening.
Next == \A n \in Names :
            Moves(n) \/ (Keeps(n, state, state') /\ Keeps(n, live, live'))

Spec == Init /\ [][Next]_vars

=============================================================================
