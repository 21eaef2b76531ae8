----------------------------- MODULE EventStream -----------------------------
(***************************************************************************)
(* The committed events of one Agent Instance and the two ways a Host      *)
(* learns of them: live from the bounded broadcast bus, and by a resync    *)
(* from the durable records.  Three families of records are appended, each *)
(* to a place of its own; the bus carries all three in commit order.       *)
(*                                                                         *)
(* A log file is a sequence of terminated lines and what stands behind the *)
(* last newline.  An append writes the record and then the newline, so a   *)
(* kill or a full disk leaves part of a record, or a record without its    *)
(* newline, and the next append fuses with either.                         *)
(***************************************************************************)
EXTENDS Naturals, Sequences, Functions

CONSTANTS
    EVENT_BUS_CAPACITY,
    MaxEvents,     \* bound: events over all families and sessions
    MaxCrashes     \* bound: kills of the engine, and with it of the Host

\* What a configuration of this module gives them.
EventStreamConstants ==
    /\ EVENT_BUS_CAPACITY \in Nat \ {0}
    /\ MaxEvents \in Nat /\ MaxCrashes \in Nat

VARIABLES
    files,      \* instance.log, breaches.log and the usage_events rows
    committing, \* the event a commit point has appended and not yet published
    sent,       \* what the bus of this session has carried
    receiver,   \* the Host's receiver: the number of events it is past
    host,       \* what the Host knows
    next,       \* the next event
    acked,      \* history: events whose append returned Ok
    crashes     \* counts the kills

vars == <<files, committing, sent, receiver, host, next, acked, crashes>>

-----------------------------------------------------------------------------
Logs     == {"transition", "breach"}
Families == Logs \cup {"usage"}
Events   == 1 .. MaxEvents

NoEvent  == 0     \* no commit under way
Fused    == 0     \* a terminated line that no reader can parse
Clean    == 0     \* the file ends with a newline
Fragment == MaxEvents + 1   \* it ends in part of a record
Closed   == MaxEvents + 1   \* no receiver

File == [lines : Seq(Events \cup {Fused}), tail : 0 .. Fragment]

Commit == [event : Events \cup {NoEvent}, family : Families]
Idle   == [event |-> NoEvent, family |-> "usage"]

\* order: what the Host did first in this session; cursor: ResyncCursor.
HostState ==
    [order : {"none", "subscribe", "resync"},
     phase : {"behind", "live", "failed"},
     cursor : [Families -> Nat], view : SUBSET Events,
     torn : BOOLEAN]

START == [f \in Families |-> 0]

-----------------------------------------------------------------------------
(* Appending.                                                              *)

\* What an append of e leaves when all of it is written, or all but the
\* newline, or less.
Whole(file, e) ==
    [lines |-> Append(file.lines, IF file.tail = Clean THEN e ELSE Fused),
     tail |-> Clean]

Unterminated(file, e) ==
    [file EXCEPT !.tail = IF @ = Clean THEN e ELSE Fragment]

Torn(file) == [file EXCEPT !.tail = Fragment]

Partial(file, e) == {Unterminated(file, e), Torn(file)}

Unlocked == committing.event = NoEvent

\* The append, or the transaction of the ledger, returns Ok.
append_event(f) ==
    /\ Unlocked /\ next \in Events
    /\ files' = [files EXCEPT ![f] = Whole(@, next)]
    /\ acked' = acked \cup {[event |-> next, family |-> f]}
    /\ committing' = [event |-> next, family |-> f]
    /\ next' = next + 1
    /\ UNCHANGED <<sent, receiver, host, crashes>>

\* Mutant: the bus is told of the event although its append failed.
append_event_fails_published(f) ==
    /\ Unlocked /\ next \in Events /\ f \in Logs
    /\ \E file \in Partial(files[f], next) : files' = [files EXCEPT ![f] = file]
    /\ committing' = [event |-> next, family |-> f]
    /\ next' = next + 1
    /\ UNCHANGED <<sent, receiver, host, acked, crashes>>

\* The disk fills up in the middle: an error, and nothing is published.
append_event_fails(f) ==
    /\ Unlocked /\ next \in Events /\ f \in Logs
    /\ \E file \in Partial(files[f], next) : files' = [files EXCEPT ![f] = file]
    /\ next' = next + 1
    /\ UNCHANGED <<committing, sent, receiver, host, acked, crashes>>

\* EventBus.publish never waits for a receiver.
publish ==
    /\ ~Unlocked
    /\ sent' = Append(sent, committing.event)
    /\ committing' = Idle
    /\ UNCHANGED <<files, receiver, host, next, acked, crashes>>

\* The engine is killed, between two steps or inside an append.  The Host,
\* which embeds it, keeps what it has stored with its cursor.
kill_engine ==
    /\ crashes < MaxCrashes
    /\ \/ UNCHANGED <<files, next>>
       \/ /\ Unlocked /\ next \in Events
          /\ \E f \in Logs : \E file \in Partial(files[f], next) :
                files' = [files EXCEPT ![f] = file]
          /\ next' = next + 1
    /\ crashes' = crashes + 1
    /\ sent' = <<>> /\ receiver' = Closed /\ committing' = Idle
    /\ host' = [host EXCEPT !.order = "none", !.phase = "behind"]
    /\ UNCHANGED acked

-----------------------------------------------------------------------------
(* Reading the records.                                                    *)

\* The lines a reader of the file finds, an unterminated one included.
Lines(file) ==
    IF file.tail = Clean THEN file.lines
    ELSE Append(file.lines, IF file.tail = Fragment THEN Fused ELSE file.tail)

\* read_events_from and read_breach_events_from take no unparseable line.
StrictlyReadable(file) == Fused \notin Range(Lines(file))

\* One unparseable line is skipped: the last, when no newline ends it.
TornTail(file) == file.tail = Fragment

Records(file) ==
    IF TornTail(file) THEN file.lines ELSE Lines(file)

read_json_lines_tolerant(file) ==
    [ok |-> Fused \notin Range(Records(file)),
     records |-> Records(file), torn |-> TornTail(file)]

\* Mutant: only the transition log's flag reaches the batch.
torn_tail_skipped_one_log == read_json_lines_tolerant(files["transition"]).torn

torn_tail_skipped == \E f \in Logs : read_json_lines_tolerant(files[f]).torn

reject_truncated_family(f, after) == after[f] > Len(Records(files[f]))

Past(f, n) == Range(SubSeq(Records(files[f]), n + 1, Len(Records(files[f]))))

\* Mutant: one record too many is skipped.
assemble_skipping_one(after) ==
    [events |-> UNION {Past(f, after[f] + 1) : f \in Families},
     cursor |-> [f \in Families |-> Len(Records(files[f]))]]

\* The records past the cursor, and the cursor behind them.
assemble(after) ==
    [events |-> UNION {Past(f, after[f]) : f \in Families},
     cursor |-> [f \in Families |-> Len(Records(files[f]))]]

\* The typed error, for a family that is corrupt or shorter than the cursor.
ReadFails(after) ==
    \E f \in Families :
        \/ ~read_json_lines_tolerant(files[f]).ok
        \/ reject_truncated_family(f, after)

read_committed(after) ==
    [ok |-> ~ReadFails(after), batch |-> assemble(after), torn |-> torn_tail_skipped]

-----------------------------------------------------------------------------
(* The Host, which follows the documented protocol: subscribe, then resync *)
(* from the stored cursor, then receive; after Lagged, resync again.  Or   *)
(* it resyncs first, which leaves a window.                                *)

\* subscribe takes no lock: it may fall between an append and its publish.
subscribe ==
    /\ receiver = Closed
    /\ receiver' = Len(sent)
    /\ host' = [host EXCEPT !.order = IF @ = "none" THEN "subscribe" ELSE @]
    /\ UNCHANGED <<files, committing, sent, next, acked, crashes>>

\* resync_events holds the registry lock, as every commit point does.
resync_events ==
    /\ Unlocked /\ host.phase = "behind"
    /\ LET first == IF host.order = "none" THEN "resync" ELSE host.order
           read == read_committed(host.cursor)
       IN host' = IF read.ok
                  THEN [host EXCEPT !.phase = "live", !.order = first,
                            !.view = @ \cup read.batch.events,
                            !.cursor = read.batch.cursor, !.torn = read.torn]
                  ELSE [host EXCEPT !.phase = "failed", !.order = first]
    /\ UNCHANGED <<files, committing, sent, receiver, next, acked, crashes>>

Missed == Len(sent) - receiver - EVENT_BUS_CAPACITY

\* Mutant: a Host that takes no notice of Lagged.
recv_lagged_unnoticed ==
    /\ receiver < Len(sent) /\ Missed > 0
    /\ receiver' = receiver + Missed
    /\ UNCHANGED <<files, committing, sent, host, next, acked, crashes>>

\* recv answers Lagged once, with the receiver moved to the oldest event kept.
recv_lagged ==
    /\ receiver < Len(sent) /\ Missed > 0
    /\ receiver' = receiver + Missed
    /\ host' = [host EXCEPT !.phase = IF @ = "live" THEN "behind" ELSE @]
    /\ UNCHANGED <<files, committing, sent, next, acked, crashes>>

recv ==
    /\ receiver < Len(sent) /\ ~(Missed > 0)
    /\ receiver' = receiver + 1
    /\ host' = [host EXCEPT !.view = @ \cup {sent[receiver + 1]}]
    /\ UNCHANGED <<files, committing, sent, next, acked, crashes>>

-----------------------------------------------------------------------------
Init ==
    /\ files = [f \in Families |-> [lines |-> <<>>, tail |-> Clean]]
    /\ committing = Idle /\ sent = <<>> /\ receiver = Closed
    /\ host = [order |-> "none", phase |-> "behind", cursor |-> START,
               view |-> {}, torn |-> FALSE]
    /\ next = 1 /\ acked = {} /\ crashes = 0

Engine == \/ \E f \in Families : append_event(f) \/ append_event_fails(f)
          \/ publish \/ kill_engine

Host == subscribe \/ resync_events \/ recv_lagged \/ recv

Next == Engine \/ Host

\* A commit point that has appended goes on to publish.  The Host is a
\* program that keeps calling.
Fairness == WF_vars(publish) /\ WF_vars(Host)

Spec == Init /\ [][Next]_vars /\ Fairness

-----------------------------------------------------------------------------
(* Properties.                                                             *)

TypeOK ==
    /\ files \in [Families -> File]
    /\ committing \in Commit
    /\ sent \in Seq(Events)
    /\ receiver \in 0 .. Closed
    /\ host \in HostState
    /\ next \in 1 .. MaxEvents + 1
    /\ acked \subseteq Commit
    /\ crashes \in 0 .. MaxCrashes

\* The buffered events of the Host's receiver, and the one about to come.
Coming ==
    {sent[i] : i \in {j \in DOMAIN sent : j > receiver}}
        \cup (IF Unlocked THEN {} ELSE {committing.event})

Lagging == receiver < Len(sent) /\ Missed > 0

Intact(c) == c.event \in Range(files[c.family].lines)

\* Committed truth only: the bus carries events whose append returned Ok, and
\* such an event is, now and for good, a line of its log or a row of the
\* ledger, or it fused with a torn line and every reader of that log fails:
\* the loss of a committed record is never silent.
CommittedTruth ==
    /\ Range(sent) \subseteq {c.event : c \in acked}
    /\ \A c \in acked :
          \/ Intact(c)
          \/ /\ ~StrictlyReadable(files[c.family])
             /\ ~read_json_lines_tolerant(files[c.family]).ok

\* Subscribe first and there is no gap: a Host that subscribed and then
\* resynced, and is not lagging, has or is about to receive every event whose
\* append returned Ok, torn logs or not.
NoSilentGap ==
    (host.phase = "live" /\ host.order = "subscribe" /\ ~Lagging)
        => \A c \in acked : c.event \in host.view \cup Coming

\* What a Host has seen and rebuilt is committed, and whole.
StreamIsTrue == CommittedTruth /\ NoSilentGap

\* A tear is told: after a resync the Host has every event whose append was
\* ever begun, or the batch said that a tail was skipped, or the read failed.
TellsOfTears ==
    resync_events => \/ 1 .. next - 1 \subseteq host'.view
                     \/ host'.torn \/ host'.phase = "failed"
TearIsTold == [][TellsOfTears]_vars

\* A lagging or restarted Host misses nothing in the end: every committed
\* event reaches its view, or its resync has failed and told it so.  The Host
\* that resyncs before it subscribes has no such promise.
KnowsAll == \/ \A c \in acked : c.event \in host.view
            \/ host.phase = "failed" \/ host.order = "resync"
Converges == []<>KnowsAll
=============================================================================
