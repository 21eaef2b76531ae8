------------------------------- MODULE Relay -------------------------------
(***************************************************************************)
(* The loopback listener of an engine-observed instance: each request of   *)
(* the agent is forwarded to the provider, the response relayed back, and  *)
(* the usage it carries queued for the reaper (Metering takes it from      *)
(* there).  Every connection is served by a task of its own; the listener  *)
(* itself ends with the handle, its connections when the agent hangs up.   *)
(*                                                                         *)
(* A body is what the relay tells apart: a request asks for a stream, or   *)
(* not, and has its own stream_options, or not; a response is one JSON     *)
(* object or a sequence of SSE frames, each with the count of its usage    *)
(* object as the relay can read it, or none (a compressed body is read as  *)
(* one that has none).  A call has one queue entry at most, so an entry names *)
(* its call beside its count, which is all the queue of the code holds.    *)
(***************************************************************************)
EXTENDS Naturals, Sequences, FiniteSetsExt

CONSTANTS
    Calls,     \* the requests that are made
    Requests,  \* what a request may be
    Counts     \* what a provider may count (a pair in the code)

\* A request is a record of what is told apart, and a count is not "no count".
RelayConstants ==
    /\ Requests \subseteq
          [method : STRING, chat : BOOLEAN, json : BOOLEAN, body : {"stream", "whole"},
           options : {"none", "include", "exclude"}, size : {"fits", "huge"}]
    /\ Counts \subseteq Nat \ {0}

VARIABLES
    agent,      \* "runs" or "gone"
    listener,   \* "none", "accepts" or "dropped"
    call,       \* where each request is, and what it became
    queue,      \* ObservedQueue
    taken       \* what the reaper has taken off it

relayVars == <<agent, listener, call, queue, taken>>

NoRequest == [at |-> "none"]
NoUsage == 0   \* no usable usage object: absent, null, partial or not JSON

\* What a provider that was not asked to may answer to anything.
Error    == [status |-> "error", sse |-> FALSE, size |-> "fits", frames |-> <<NoUsage>>]
BadOption == [Error EXCEPT !.status = "bad option"]
BadGateway == [Error EXCEPT !.status = "bad gateway"]

-----------------------------------------------------------------------------
(***************************************************************************)
(* What the relay does to a request and reads off a response.              *)
(***************************************************************************)

\* "POST", JSON, "/chat/completions", "stream": true, and no choice of its own.
Injectable(r) ==
    r.method = "POST" /\ r.chat /\ r.json /\ r.body = "stream" /\ r.options = "none"

\* A broken injection: any streaming endpoint.
inject_everywhere(r) ==
    IF r.method = "POST" /\ r.json /\ r.body = "stream" /\ r.options = "none"
    THEN [r EXCEPT !.options = "include"] ELSE r

inject_include_usage(r) == IF Injectable(r) THEN [r EXCEPT !.options = "include"] ELSE r

\* The frames of a stream whose usage can be counted.
Usable(frames) == {i \in DOMAIN frames : frames[i] # NoUsage}

\* The last usable frame wins.
parse_openai_sse_usage(frames) ==
    IF Usable(frames) = {} THEN NoUsage ELSE frames[Max(Usable(frames))]

\* A whole body that is one JSON object.
parse_openai_usage(frames) == IF Len(frames) = 1 THEN frames[1] ELSE NoUsage

\* The route is the content type of the response, not the path of the request.
usage(res) ==
    IF res.sse THEN parse_openai_sse_usage(res.frames) ELSE parse_openai_usage(res.frames)

-----------------------------------------------------------------------------
(***************************************************************************)
(* The provider.                                                           *)
(***************************************************************************)
Streams(last) ==
    {[status |-> "ok", sse |-> TRUE, size |-> "fits", frames |-> f] :
        f \in {<<NoUsage, last>>, <<NoUsage, last, NoUsage>>, <<NoUsage>>}}

\* A stream tells its usage at its end if it was asked to (some count as they
\* go, or not at all); elsewhere the option is refused; a whole completion
\* carries its usage, and may be too large to buffer.
Answers(r) ==
    {Error} \cup
    IF r.options # "none" /\ ~r.chat THEN {BadOption}
    ELSE IF r.body = "stream"
    THEN (UNION {Streams(c) : c \in IF r.options = "include" THEN Counts
                                    ELSE IF r.chat THEN {NoUsage} ELSE Counts \cup {NoUsage}})
         \cup (IF r.options = "include"
               THEN {[status |-> "ok", sse |-> TRUE, size |-> "fits", frames |-> <<1, c>>] :
                        c \in Counts}
               ELSE {})
    ELSE {[status |-> "ok", sse |-> FALSE, size |-> s, frames |-> <<c>>] :
             s \in {"fits", "huge"}, c \in Counts \cup {NoUsage}}

-----------------------------------------------------------------------------
(***************************************************************************)
(* Steps.                                                                  *)
(***************************************************************************)
RelayInit ==
    /\ agent = "runs" /\ listener = "none"
    /\ call = [c \in Calls |-> NoRequest] /\ queue = <<>> /\ taken = <<>>

\* Bound to the loopback with a usable upstream, before the agent is spawned.
start ==
    /\ listener = "none" /\ agent = "runs"
    /\ listener' = "accepts"
    /\ UNCHANGED <<agent, call, queue, taken>>

\* A request arrives on a connection the loop accepted.
accept(c, r) ==
    /\ agent = "runs" /\ listener = "accepts" /\ call[c] = NoRequest
    /\ call' = [call EXCEPT ![c] = [at |-> "read", asked |-> r]]
    /\ UNCHANGED <<agent, listener, queue, taken>>

Refuse(c) == call' = [call EXCEPT ![c] = [at |-> "relayed", asked |-> call[c].asked,
                                          got |-> BadGateway]]

\* A body over the cap, or no upstream to reach: an honest 502.
forward_fails(c) ==
    /\ call[c].at = "read" /\ Refuse(c)
    /\ UNCHANGED <<agent, listener, queue, taken>>

forward(c) ==
    /\ call[c].at = "read" /\ call[c].asked.size = "fits"
    /\ call' = [call EXCEPT ![c] =
                   [at |-> "sent", asked |-> @.asked, out |-> inject_include_usage(@.asked)]]
    /\ UNCHANGED <<agent, listener, queue, taken>>

\* The provider answers, and from there on it has charged.
answer(c) ==
    /\ call[c].at = "sent"
    /\ \E res \in Answers(call[c].out) :
          call' = [call EXCEPT ![c] = [at |-> "answered", asked |-> @.asked, out |-> @.out,
                                       res |-> res]]
    /\ UNCHANGED <<agent, listener, queue, taken>>

\* A broken order: the response is written, and the usage left for later.
skim_late(c) ==
    /\ call[c].at = "answered"
    /\ call' = [call EXCEPT ![c] = [at |-> "skimmed", asked |-> @.asked,
                                    out |-> @.out, res |-> @.res]]
    /\ UNCHANGED <<agent, listener, queue, taken>>

\* The response is buffered, its usage queued, and only then is it written to
\* the agent.  One that is too large or ends early is a 502, uncounted.
skim(c) ==
    /\ call[c].at = "answered"
    /\ \/ Refuse(c) /\ UNCHANGED queue
       \/ /\ call[c].res.size = "fits"
          /\ call' = [call EXCEPT ![c] = [at |-> "skimmed", asked |-> @.asked,
                                          out |-> @.out, res |-> @.res]]
          /\ queue' = IF usage(call[c].res) = NoUsage THEN queue
                      ELSE Append(queue, <<c, usage(call[c].res)>>)
    /\ UNCHANGED <<agent, listener, taken>>

relay(c) ==
    /\ call[c].at = "skimmed" /\ agent = "runs"
    /\ call' = [call EXCEPT ![c] = [at |-> "relayed", asked |-> @.asked, out |-> @.out,
                                    res |-> @.res, got |-> @.res]]
    /\ UNCHANGED <<agent, listener, queue, taken>>

\* The agent has hung up: the server gives the request up where it is.
hang_up(c) ==
    /\ agent = "gone" /\ call[c].at \in {"read", "sent", "answered", "skimmed"}
    /\ call' = [call EXCEPT ![c].at = "cut"]
    /\ UNCHANGED <<agent, listener, queue, taken>>

\* The supervisor's drain of the queue.
drain ==
    /\ listener = "accepts" /\ queue # <<>>
    /\ taken' = taken \o queue /\ queue' = <<>>
    /\ UNCHANGED <<agent, listener, call>>

agent_ends ==
    /\ agent = "runs" /\ listener = "accepts"
    /\ agent' = "gone"
    /\ UNCHANGED <<listener, call, queue, taken>>

\* The handle and its listener are dropped: the accept loop is aborted, and
\* nobody takes what is queued from now on.
drop ==
    /\ agent = "gone" /\ listener = "accepts"
    /\ listener' = "dropped"
    /\ UNCHANGED <<agent, call, queue, taken>>

RelayNext ==
    \/ start \/ drain \/ agent_ends \/ drop
    \/ \E c \in Calls :
          \/ \E r \in Requests : accept(c, r)
          \/ forward_fails(c) \/ forward(c) \/ answer(c) \/ skim(c) \/ relay(c) \/ hang_up(c)

RelaySpec == RelayInit /\ [][RelayNext]_relayVars

-----------------------------------------------------------------------------
(***************************************************************************)
(* Properties.                                                             *)
(***************************************************************************)
Stages == {"none", "read", "sent", "answered", "skimmed", "relayed", "cut"}
RelayTypeOK ==
    /\ agent \in {"runs", "gone"} /\ listener \in {"none", "accepts", "dropped"}
    /\ \A c \in Calls : call[c].at \in Stages
    /\ queue \in Seq(Calls \X Counts) /\ taken \in Seq(Calls \X Counts)

Entries == taken \o queue
Told(c) == call[c].at = "relayed" /\ call[c].got.status = "ok"

\* The total a response ends on.
Final(frames) == frames[CHOOSE i \in DOMAIN frames :
                    frames[i] # NoUsage /\ \A j \in i + 1 .. Len(frames) : frames[j] = NoUsage]

\* What the agent has been given it is charged for: its usage is queued, or taken,
\* before the response can make the agent act or end, once, and with the total
\* its stream ended on.  Nothing is charged that a provider did not count.
ChargedForWhatItGot ==
    /\ \A c \in Calls : Told(c) /\ Usable(call[c].got.frames) # {}
          => \E i \in DOMAIN Entries : Entries[i] = <<c, Final(call[c].got.frames)>>
    /\ \A i, j \in DOMAIN Entries : Entries[i][1] = Entries[j][1] => i = j
    /\ \A i \in DOMAIN Entries :
          LET k == call[Entries[i][1]]
          IN  /\ k.at \in {"skimmed", "relayed", "cut"}
              /\ Usable(k.res.frames) # {} /\ Entries[i][2] = Final(k.res.frames)

\* Metering never breaks the call it meters: no provider refuses a request for
\* an option the agent did not set, and an option it set is the one it sent.
MeteringIsHarmless ==
    \A c \in Calls : call[c].at \in {"sent", "answered", "skimmed"}
        => /\ call[c].asked.options # "none" => call[c].out = call[c].asked
           /\ call[c].at # "sent" /\ call[c].res = BadOption => call[c].asked.options # "none"

\* An agent is charged for what it was given, and metering never breaks the call
\* it meters.
RelayIsHonest == ChargedForWhatItGot /\ MeteringIsHarmless
=============================================================================
