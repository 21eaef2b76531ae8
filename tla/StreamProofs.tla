---------------------------- MODULE StreamProofs ----------------------------
(***************************************************************************)
(* Theorems about what leaves the engine and what passes through it.       *)
(* EventStream: what reaches a Host is committed, a Host that subscribed   *)
(* first has no silent gap, and a torn log is told.  Relay: an agent is    *)
(* charged for what it was given, and its calls are none the worse for it. *)
(***************************************************************************)
EXTENDS EventStream, Relay, SequenceTheorems, TLAPS

Readable == Events \cup {Fused}

\* The lines of a file in which an append fused with what a tear left.
Ruined(file) == Fused \in Range(file.lines)

\* What the bus carries, or is about to, was committed first.
BusIsCommitted ==
    /\ Range(sent) \subseteq {c.event : c \in acked}
    /\ ~Unlocked => committing \in acked
    /\ Len(sent) + (IF Unlocked THEN 0 ELSE 1) < next

\* A committed record is a line of its own for good, or its log is ruined.
LossIsKept == \A c \in acked : Intact(c) \/ Ruined(files[c.family])

\* An event whose append was begun is a record, or the log it was meant for
\* ends in a fragment or is ruined.
Traced(file, e) == e \in Range(Records(file)) \/ TornTail(file) \/ Ruined(file)

EveryEventLeftATrace ==
    \A e \in Events : e < next => \E f \in Families : Traced(files[f], e)

\* The ledger is a table, and has no torn tail.
LedgerIsWhole == files["usage"].tail = Clean

\* Whatever record stands before the Host's cursor is in its view: a cursor
\* is past the terminated lines by one at most, and only while a record
\* without its newline stands there or has become a fragment.
Covered(file, cursor, view) ==
    /\ cursor <= Len(file.lines) + 1
    /\ file.tail = Clean => cursor <= Len(file.lines)
    /\ \A i \in 1 .. Len(Records(file)) :
          i <= cursor => Records(file)[i] \in view \cup {Fused}

CursorCovers == \A f \in Families : Covered(files[f], host.cursor[f], host.view)

\* A Host that is live and subscribed first has an open receiver.
ReceiverIsOpen ==
    /\ receiver = Closed \/ receiver <= Len(sent)
    /\ host.order = "subscribe" => receiver # Closed
    /\ host.phase = "live" => host.order # "none"

\* The gap that is never there, lagging or not: events the ring has dropped
\* stand between the receiver and the end of what was sent.
NoGapYet ==
    (host.phase = "live" /\ host.order = "subscribe")
        => \A c \in acked : c.event \in host.view \cup Coming

StreamInv ==
    /\ TypeOK
    /\ BusIsCommitted /\ LossIsKept /\ EveryEventLeftATrace /\ LedgerIsWhole
    /\ CursorCovers /\ ReceiverIsOpen /\ NoGapYet

-----------------------------------------------------------------------------
(* The operators: one file, one record more.                               *)

\* A longer sequence has one element more in its range.
LEMMA RangeOfAppend ==
    ASSUME NEW S, NEW s \in Seq(S), NEW e \in S
    PROVE  /\ Append(s, e) \in Seq(S)
           /\ Len(Append(s, e)) = Len(s) + 1
           /\ \A i \in 1 .. Len(s) : Append(s, e)[i] = s[i]
           /\ Append(s, e)[Len(s) + 1] = e
           /\ Range(Append(s, e)) = Range(s) \cup {e}
<1>1. /\ Append(s, e) \in Seq(S)
      /\ Len(Append(s, e)) = Len(s) + 1
      /\ \A i \in 1 .. Len(s) : Append(s, e)[i] = s[i]
      /\ Append(s, e)[Len(s) + 1] = e
  OBVIOUS
<1>2. Len(s) \in Nat /\ DOMAIN s = 1 .. Len(s)
      /\ DOMAIN Append(s, e) = 1 .. Len(s) + 1
  BY <1>1
<1>3. 1 .. Len(s) + 1 = (1 .. Len(s)) \cup {Len(s) + 1}
  BY <1>2
<1>4. Range(Append(s, e)) = Range(s) \cup {e}
  BY <1>1, <1>2, <1>3 DEF Range
<1> QED BY <1>1, <1>4

\* An element of the range stands somewhere, and what stands there is in it.
LEMMA PlacesInSeq ==
    ASSUME NEW S, NEW s \in Seq(S)
    PROVE  /\ Len(s) \in Nat
           /\ Range(s) \subseteq S
           /\ \A i \in 1 .. Len(s) : s[i] \in Range(s)
           /\ \A x \in Range(s) : \E i \in 1 .. Len(s) : s[i] = x
  BY RangeEquality, RangeOfSeq

\* What a reader finds in a file: its lines, and behind them at most the event
\* that lacks its newline.
LEMMA RecordsOfFile ==
    ASSUME EventStreamConstants, NEW file \in File
    PROVE  /\ Records(file) \in Seq(Readable)
           /\ Range(file.lines) \subseteq Range(Records(file))
           /\ Range(Records(file)) \subseteq Range(Lines(file))
           /\ IF file.tail \in {Clean, Fragment}
              THEN Records(file) = file.lines
              ELSE Records(file) = Append(file.lines, file.tail) /\ file.tail \in Events
<1>1. file.lines \in Seq(Readable) /\ file.tail \in 0 .. MaxEvents + 1
  BY DEF File, Readable, Fragment
<1>2. CASE file.tail = Clean
  BY <1>1, <1>2 DEF Records, Lines, TornTail, Clean, Fragment, EventStreamConstants
<1>3. CASE file.tail = Fragment
  <2>1. Records(file) = file.lines /\ Lines(file) = Append(file.lines, Fused)
    BY <1>3 DEF Records, Lines, TornTail, Clean, Fragment, EventStreamConstants
  <2> QED BY <1>1, <1>3, <2>1, RangeOfAppend DEF Readable
<1>4. CASE file.tail \notin {Clean, Fragment}
  <2>1. file.tail \in Events
    BY <1>1, <1>4 DEF Clean, Fragment, Events, EventStreamConstants
  <2>2. Records(file) = Append(file.lines, file.tail) /\ Lines(file) = Records(file)
    BY <1>4 DEF Records, Lines, TornTail
  <2> QED BY <1>1, <1>4, <2>1, <2>2, RangeOfAppend DEF Readable
<1> QED BY <1>2, <1>3, <1>4

\* A ruined file fails every reader.
LEMMA RuinedIsNoticed ==
    ASSUME EventStreamConstants, NEW file \in File, Ruined(file)
    PROVE  ~StrictlyReadable(file) /\ ~read_json_lines_tolerant(file).ok
  BY RecordsOfFile DEF Ruined, StrictlyReadable, read_json_lines_tolerant

\* A whole append adds a line, the event's own unless a tear stood before it.
LEMMA WholeAppend ==
    ASSUME EventStreamConstants, NEW file \in File, NEW e \in Events
    PROVE  /\ Whole(file, e) \in File
           /\ Whole(file, e).tail = Clean
           /\ Records(Whole(file, e)) = Whole(file, e).lines
           /\ Len(Whole(file, e).lines) = Len(file.lines) + 1
           /\ \A i \in 1 .. Len(file.lines) : Whole(file, e).lines[i] = file.lines[i]
           /\ Range(file.lines) \subseteq Range(Whole(file, e).lines)
           /\ file.tail = Clean =>
                 /\ Whole(file, e).lines[Len(file.lines) + 1] = e
                 /\ e \in Range(Whole(file, e).lines)
           /\ file.tail # Clean =>
                 /\ Whole(file, e).lines[Len(file.lines) + 1] = Fused
                 /\ Ruined(Whole(file, e))
<1> DEFINE line == IF file.tail = Clean THEN e ELSE Fused
           new  == Whole(file, e)
<1>1. file.lines \in Seq(Readable) /\ line \in Readable
  BY DEF File, Readable
<1>2. /\ new = [lines |-> Append(file.lines, line), tail |-> Clean]
      /\ new.lines = Append(file.lines, line) /\ new.tail = Clean
  BY DEF Whole
<1>3. /\ new.lines \in Seq(Readable)
      /\ Len(new.lines) = Len(file.lines) + 1
      /\ \A i \in 1 .. Len(file.lines) : new.lines[i] = file.lines[i]
      /\ new.lines[Len(file.lines) + 1] = line
      /\ Range(new.lines) = Range(file.lines) \cup {line}
  <2> HIDE DEF line
  <2> QED BY <1>1, <1>2, RangeOfAppend
<1>4. new \in File
  <2>1. Clean \in 0 .. Fragment
    BY DEF Clean, Fragment, EventStreamConstants
  <2> QED BY <1>2, <1>3, <2>1 DEF File, Readable
<1>5. Records(new) = new.lines
  BY <1>2, <1>4, RecordsOfFile
<1> QED BY <1>2, <1>3, <1>4, <1>5 DEF Ruined

\* An append that stops in the middle changes the tail alone.
LEMMA PartialAppend ==
    ASSUME EventStreamConstants, NEW file \in File, NEW e \in Events,
           NEW new \in Partial(file, e)
    PROVE  /\ new \in File
           /\ new.lines = file.lines
           /\ new.tail # Clean
           /\ new.tail = Fragment \/ (file.tail = Clean /\ new.tail = e)
<1>1. /\ e \in 0 .. Fragment /\ Fragment \in 0 .. Fragment
      /\ e # Clean /\ Fragment # Clean
  BY DEF Events, Fragment, Clean, EventStreamConstants
<1>2. CASE new = Torn(file)
  BY <1>1, <1>2 DEF Torn, File
<1>3. CASE new = Unterminated(file, e)
  BY <1>1, <1>3 DEF Unterminated, File
<1> QED BY <1>2, <1>3 DEF Partial

\* What an append may leave of a file: the whole line, or a part of it.
Left(file, e) == {Whole(file, e)} \cup Partial(file, e)

\* No append hides an event that left a trace, and each leaves its own.
LEMMA TraceIsKept ==
    ASSUME EventStreamConstants, NEW file \in File, NEW e \in Events,
           NEW new \in Left(file, e)
    PROVE  /\ Traced(new, e)
           /\ \A x : Traced(file, x) => Traced(new, x)
<1>1. CASE new = Whole(file, e)
  <2>1. Traced(new, e)
    BY <1>1, WholeAppend DEF Traced
  <2>2. ASSUME NEW x, Traced(file, x) PROVE Traced(new, x)
    <3>1. CASE file.tail # Clean
      BY <1>1, <3>1, WholeAppend DEF Traced
    <3>2. CASE file.tail = Clean
      <4>1. Records(file) = file.lines /\ ~TornTail(file)
        BY <3>2, RecordsOfFile DEF TornTail, Clean, Fragment, EventStreamConstants
      <4> QED BY <1>1, <2>2, <4>1, WholeAppend DEF Traced, Ruined
    <3> QED BY <3>1, <3>2
  <2> QED BY <2>1, <2>2
<1>2. CASE new \in Partial(file, e)
  <2>1. CASE new.tail = Fragment
    BY <2>1 DEF Traced, TornTail
  <2>2. CASE new.tail # Fragment
    <3>1. file.tail = Clean /\ new.tail = e /\ new.lines = file.lines /\ new \in File
          /\ e # Clean
      BY <1>2, <2>2, PartialAppend
    <3>2. Records(file) = file.lines /\ ~TornTail(file)
      BY <3>1, RecordsOfFile DEF TornTail, Clean, Fragment, EventStreamConstants
    <3>3. Records(new) = Append(file.lines, e)
      BY <2>2, <3>1, RecordsOfFile
    <3>4. Range(Records(new)) = Range(file.lines) \cup {e}
      <4>1. file.lines \in Seq(Readable) /\ e \in Readable
        BY DEF File, Readable
      <4> QED BY <3>3, <4>1, RangeOfAppend
    <3> QED BY <3>1, <3>2, <3>4 DEF Traced, Ruined
  <2> QED BY <2>1, <2>2
<1> QED BY <1>1, <1>2 DEF Left

\* A cursor that covers a file covers it after any append.
LEMMA CoverIsKept ==
    ASSUME EventStreamConstants, NEW file \in File, NEW e \in Events,
           NEW new \in Left(file, e), NEW cursor \in Nat, NEW view,
           Covered(file, cursor, view)
    PROVE  Covered(new, cursor, view)
<1>1. file.lines \in Seq(Readable) /\ Len(file.lines) \in Nat
  BY DEF File, Readable
<1>2. \A i \in 1 .. Len(file.lines) :
         i \in 1 .. Len(Records(file)) /\ Records(file)[i] = file.lines[i]
  BY <1>1, RecordsOfFile, RangeOfAppend DEF Readable
<1>3. CASE new = Whole(file, e)
  <2>1. /\ new.tail = Clean /\ Records(new) = new.lines
        /\ Len(new.lines) = Len(file.lines) + 1
        /\ \A i \in 1 .. Len(file.lines) : new.lines[i] = file.lines[i]
        /\ file.tail # Clean => new.lines[Len(file.lines) + 1] = Fused
    BY <1>3, WholeAppend
  <2>2. cursor <= Len(new.lines)
    BY <1>1, <2>1 DEF Covered
  <2>3. ASSUME NEW i \in 1 .. Len(new.lines), i <= cursor
        PROVE  new.lines[i] \in view \cup {Fused}
    <3>1. CASE i \in 1 .. Len(file.lines)
      BY <1>2, <2>1, <2>3, <3>1 DEF Covered
    <3>2. CASE i = Len(file.lines) + 1
      BY <1>1, <2>1, <2>3, <3>2 DEF Covered
    <3> QED BY <1>1, <2>1, <3>1, <3>2
  <2> QED BY <1>1, <2>1, <2>2, <2>3 DEF Covered
<1>4. CASE new \in Partial(file, e)
  <2>1. /\ new \in File /\ new.lines = file.lines /\ new.tail # Clean
        /\ new.tail = Fragment \/ (file.tail = Clean /\ new.tail = e)
    BY <1>4, PartialAppend
  <2>2. cursor <= Len(new.lines) + 1
    BY <1>1, <2>1 DEF Covered
  <2>3. CASE new.tail = Fragment
    <3>1. Records(new) = file.lines
      BY <2>1, <2>3, RecordsOfFile
    <3> QED BY <1>2, <2>1, <2>2, <3>1 DEF Covered
  <2>4. CASE new.tail # Fragment
    <3>1. Records(new) = Append(file.lines, e) /\ cursor <= Len(file.lines)
      BY <1>1, <2>1, <2>4, RecordsOfFile DEF Covered
    <3>2. \A i \in 1 .. Len(file.lines) : Records(new)[i] = file.lines[i]
      BY <1>1, <3>1, RangeOfAppend DEF Readable
    <3>3. ASSUME NEW i \in 1 .. Len(Records(new)), i <= cursor
          PROVE  Records(new)[i] \in view \cup {Fused}
      <4>1. i \in 1 .. Len(file.lines)
        BY <1>1, <3>1, <3>3
      <4> QED BY <1>2, <3>2, <3>3, <4>1 DEF Covered
    <3> QED BY <2>1, <2>2, <3>3 DEF Covered
  <2> QED BY <2>3, <2>4
<1> QED BY <1>3, <1>4 DEF Left

-----------------------------------------------------------------------------
(* The steps.                                                              *)

\* What an append does to the records, however far it comes.
LEMMA AppendKeepsRecords ==
    ASSUME EventStreamConstants, StreamInv, next \in Events,
           NEW f \in Families, NEW new \in Left(files[f], next),
           f = "usage" => new = Whole(files[f], next),
           files' = [files EXCEPT ![f] = new], next' = next + 1,
           host'.cursor = host.cursor, host'.view = host.view
    PROVE  /\ files' \in [Families -> File] /\ next' \in 1 .. MaxEvents + 1
           /\ EveryEventLeftATrace' /\ LedgerIsWhole' /\ CursorCovers'
           /\ \A c \in acked : Intact(c)' \/ Ruined(files[c.family])'
<1>1. /\ files \in [Families -> File] /\ files[f] \in File
      /\ next \in Nat /\ MaxEvents \in Nat /\ next <= MaxEvents
      /\ host.cursor \in [Families -> Nat]
  BY DEF StreamInv, TypeOK, HostState, Events, EventStreamConstants
<1>2. /\ new \in File
      /\ Range(files[f].lines) \subseteq Range(new.lines)
      /\ f = "usage" => new.tail = Clean
  <2>1. CASE new = Whole(files[f], next)
    BY <1>1, <2>1, WholeAppend
  <2>2. CASE new \in Partial(files[f], next)
    <3>1. new \in File /\ new.lines = files[f].lines
      BY <1>1, <2>2, PartialAppend
    <3>2. f = "usage" => new.tail = Clean
      BY <1>1, WholeAppend
    <3> QED BY <3>1, <3>2
  <2> QED BY <2>1, <2>2 DEF Left
<1>3. /\ files' \in [Families -> File]
      /\ files'[f] = new
      /\ \A g \in Families \ {f} : files'[g] = files[g]
  BY <1>1, <1>2
<1>4. next' \in 1 .. MaxEvents + 1
  BY <1>1
<1>5. EveryEventLeftATrace'
  <2> SUFFICES ASSUME NEW e \in Events, e < next'
               PROVE  \E g \in Families : Traced(files'[g], e)
    BY DEF EveryEventLeftATrace, Events
  <2>1. CASE e = next
    BY <1>1, <1>3, <2>1, TraceIsKept
  <2>2. CASE e < next
    <3>1. PICK g \in Families : Traced(files[g], e)
      BY <2>2 DEF StreamInv, EveryEventLeftATrace
    <3>2. CASE g = f
      BY <1>1, <1>3, <3>1, <3>2, TraceIsKept
    <3>3. CASE g # f
      BY <1>3, <3>1, <3>3
    <3> QED BY <3>2, <3>3
  <2> QED BY <1>1, <2>1, <2>2 DEF Events
<1>6. LedgerIsWhole'
  BY <1>2, <1>3 DEF StreamInv, LedgerIsWhole, Families
<1>7. CursorCovers'
  <2> SUFFICES ASSUME NEW g \in Families
               PROVE  Covered(files'[g], host.cursor[g], host.view)
    BY DEF CursorCovers, Families, Logs
  <2>1. Covered(files[g], host.cursor[g], host.view)
    BY DEF StreamInv, CursorCovers
  <2>2. CASE g = f
    BY <1>1, <1>3, <2>1, <2>2, CoverIsKept
  <2>3. CASE g # f
    BY <1>3, <2>1, <2>3
  <2> QED BY <2>2, <2>3
<1>8. ASSUME NEW c \in acked
      PROVE  Intact(c)' \/ Ruined(files[c.family])'
  <2>1. c.family \in Families /\ (Intact(c) \/ Ruined(files[c.family]))
    BY DEF StreamInv, TypeOK, Commit, LossIsKept
  <2>2. Range(files[c.family].lines) \subseteq Range(files'[c.family].lines)
    BY <1>2, <1>3, <2>1
  <2> QED BY <2>1, <2>2 DEF Intact, Ruined
<1> QED BY <1>3, <1>4, <1>5, <1>6, <1>7, <1>8

LEMMA AppendStep ==
    ASSUME EventStreamConstants, StreamInv, NEW f \in Families, append_event(f)
    PROVE  StreamInv'
<1> DEFINE commit == [event |-> next, family |-> f]
<1>1. /\ Unlocked /\ next \in Events
      /\ files' = [files EXCEPT ![f] = Whole(files[f], next)]
      /\ acked' = acked \cup {commit} /\ committing' = commit
      /\ next' = next + 1
      /\ sent' = sent /\ receiver' = receiver /\ host' = host /\ crashes' = crashes
  BY DEF append_event
<1>2. /\ files \in [Families -> File] /\ files[f] \in File
      /\ next \in Nat /\ next # NoEvent /\ commit \in Commit
      /\ sent \in Seq(Events) /\ Len(sent) \in Nat
  BY <1>1 DEF StreamInv, TypeOK, Events, Commit, NoEvent, EventStreamConstants
<1>3. /\ files' \in [Families -> File] /\ next' \in 1 .. MaxEvents + 1
      /\ EveryEventLeftATrace' /\ LedgerIsWhole' /\ CursorCovers'
      /\ \A c \in acked : Intact(c)' \/ Ruined(files[c.family])'
  BY <1>1, AppendKeepsRecords DEF Left
<1>4. TypeOK'
  BY <1>1, <1>2, <1>3 DEF StreamInv, TypeOK
<1>5. ~Unlocked'
  BY <1>1, <1>2 DEF Unlocked
<1>6. BusIsCommitted'
  BY <1>1, <1>2, <1>5 DEF StreamInv, BusIsCommitted
<1>7. LossIsKept'
  <2>1. files'[f] = Whole(files[f], next)
    BY <1>1, <1>2
  <2>2. next \in Range(files'[f].lines) \/ Ruined(files'[f])
    BY <1>1, <1>2, <2>1, WholeAppend
  <2>3. ASSUME NEW c \in acked' PROVE Intact(c)' \/ Ruined(files'[c.family])
    <3>1. CASE c \in acked
      BY <1>3, <3>1
    <3>2. CASE c = commit
      BY <2>2, <3>2 DEF Intact
    <3> QED BY <1>1, <3>1, <3>2
  <2> QED BY <2>3 DEF LossIsKept
<1>8. ReceiverIsOpen'
  BY <1>1 DEF StreamInv, ReceiverIsOpen
<1>9. NoGapYet'
  <2> SUFFICES ASSUME host.phase = "live", host.order = "subscribe"
               PROVE  \A c \in acked' : c.event \in host.view \cup Coming'
    BY <1>1 DEF NoGapYet
  <2>1. \A c \in acked : c.event \in host.view \cup Coming
    BY DEF StreamInv, NoGapYet
  <2>2. Coming' = Coming \cup {next}
    BY <1>1, <1>5 DEF Coming
  <2> QED BY <1>1, <2>1, <2>2
<1> QED BY <1>3, <1>4, <1>6, <1>7, <1>8, <1>9 DEF StreamInv

\* An append that fails leaves the bus and the Host alone.
LEMMA AppendFailsStep ==
    ASSUME EventStreamConstants, StreamInv, NEW f \in Families, append_event_fails(f)
    PROVE  StreamInv'
<1>1. /\ Unlocked /\ next \in Events /\ f \in Logs
      /\ \E file \in Partial(files[f], next) : files' = [files EXCEPT ![f] = file]
      /\ next' = next + 1
      /\ UNCHANGED <<committing, sent, receiver, host, acked, crashes>>
  BY DEF append_event_fails
<1>2. PICK file \in Partial(files[f], next) : files' = [files EXCEPT ![f] = file]
  BY <1>1
<1>3. /\ files' \in [Families -> File] /\ next' \in 1 .. MaxEvents + 1
      /\ EveryEventLeftATrace' /\ LedgerIsWhole' /\ CursorCovers'
      /\ \A c \in acked : Intact(c)' \/ Ruined(files[c.family])'
  <2>1. f # "usage" /\ file \in Left(files[f], next)
    BY <1>1 DEF Logs, Left
  <2> QED BY <1>1, <1>2, <2>1, AppendKeepsRecords
<1>4. TypeOK'
  BY <1>1, <1>3 DEF StreamInv, TypeOK
<1>5. BusIsCommitted'
  <2>1. next \in Nat /\ Len(sent) \in Nat
    BY <1>1 DEF StreamInv, TypeOK, Events, EventStreamConstants
  <2> QED BY <1>1, <2>1 DEF StreamInv, BusIsCommitted, Unlocked
<1>6. LossIsKept'
  BY <1>1, <1>3 DEF LossIsKept
<1>7. ReceiverIsOpen' /\ NoGapYet'
  BY <1>1 DEF StreamInv, ReceiverIsOpen, NoGapYet, Coming, Unlocked
<1> QED BY <1>3, <1>4, <1>5, <1>6, <1>7 DEF StreamInv

\* What a step does that touches no record.
LEMMA RecordsUnchanged ==
    ASSUME StreamInv, UNCHANGED <<files, next, acked>>
    PROVE  EveryEventLeftATrace' /\ LedgerIsWhole' /\ LossIsKept'
  BY DEF StreamInv, EveryEventLeftATrace, LedgerIsWhole, LossIsKept, Intact

LEMMA PublishStep ==
    ASSUME EventStreamConstants, StreamInv, publish
    PROVE  StreamInv'
<1> DEFINE e == committing.event
<1>1. /\ ~Unlocked /\ sent' = Append(sent, e) /\ committing' = Idle
      /\ UNCHANGED <<files, receiver, host, next, acked, crashes>>
  BY DEF publish
<1>2. /\ sent \in Seq(Events) /\ committing \in Commit /\ e \in Events
      /\ Len(sent) \in Nat /\ next \in Nat /\ committing \in acked
      /\ Len(sent) + 1 < next
  BY <1>1 DEF StreamInv, TypeOK, Commit, Unlocked, BusIsCommitted, EventStreamConstants,
              Events, NoEvent
<1>3. /\ sent' \in Seq(Events) /\ Len(sent') = Len(sent) + 1
      /\ Range(sent') = Range(sent) \cup {e}
      /\ \A i \in 1 .. Len(sent) : sent'[i] = sent[i]
      /\ sent'[Len(sent) + 1] = e
      /\ DOMAIN sent = 1 .. Len(sent) /\ DOMAIN sent' = 1 .. Len(sent')
  <2> HIDE DEF e
  <2> QED BY <1>1, <1>2, RangeOfAppend
<1>4. Unlocked' /\ Idle \in Commit
  BY <1>1 DEF Unlocked, Idle, Commit, NoEvent, Families
<1>5. TypeOK'
  BY <1>1, <1>3, <1>4 DEF StreamInv, TypeOK
<1>6. BusIsCommitted'
  <2> HIDE DEF e
  <2>1. e \in {c.event : c \in acked}
    BY <1>2 DEF e
  <2> QED BY <1>1, <1>2, <1>3, <1>4, <2>1 DEF StreamInv, BusIsCommitted
<1>7. CursorCovers'
  BY <1>1 DEF StreamInv, CursorCovers
<1>8. ReceiverIsOpen'
  <2>1. receiver = Closed \/ receiver <= Len(sent)
    BY DEF StreamInv, ReceiverIsOpen
  <2>2. receiver \in Nat
    BY DEF StreamInv, TypeOK, Closed, EventStreamConstants
  <2> QED BY <1>1, <1>2, <1>3, <2>1, <2>2 DEF StreamInv, ReceiverIsOpen
<1>9. NoGapYet'
  <2> SUFFICES ASSUME host.phase = "live", host.order = "subscribe"
               PROVE  \A c \in acked : c.event \in host.view \cup Coming'
    BY <1>1 DEF NoGapYet
  <2>1. \A c \in acked : c.event \in host.view \cup Coming
    BY DEF StreamInv, NoGapYet
  <2>2. receiver \in Nat /\ receiver <= Len(sent)
    BY DEF StreamInv, ReceiverIsOpen, TypeOK, Closed, EventStreamConstants
  <2>3. Coming \subseteq Coming'
    <3>1. ASSUME NEW x \in Coming PROVE x \in Coming'
      <4>1. CASE x = e
        <5>1. Len(sent) + 1 \in DOMAIN sent' /\ Len(sent) + 1 > receiver
          BY <1>2, <1>3, <2>2
        <5> QED BY <1>1, <1>3, <4>1, <5>1 DEF Coming
      <4>2. CASE x # e
        <5>1. PICK i \in DOMAIN sent : i > receiver /\ x = sent[i]
          BY <4>2 DEF Coming
        <5>2. i \in DOMAIN sent' /\ sent'[i] = sent[i]
          BY <1>2, <1>3
        <5> QED BY <1>1, <5>1, <5>2 DEF Coming
      <4> QED BY <4>1, <4>2
    <3> QED BY <3>1
  <2> QED BY <2>1, <2>3
<1> QED BY <1>1, <1>5, <1>6, <1>7, <1>8, <1>9, RecordsUnchanged DEF StreamInv

LEMMA CrashStep ==
    ASSUME EventStreamConstants, StreamInv, kill_engine
    PROVE  StreamInv'
<1>1. /\ crashes < MaxCrashes /\ crashes' = crashes + 1
      /\ sent' = <<>> /\ receiver' = Closed /\ committing' = Idle
      /\ host' = [host EXCEPT !.order = "none", !.phase = "behind"]
      /\ acked' = acked
  BY DEF kill_engine
<1>2. /\ host \in HostState /\ host' \in HostState
      /\ host'.order = "none" /\ host'.phase = "behind"
      /\ host'.view = host.view /\ host'.cursor = host.cursor
  BY <1>1 DEF StreamInv, TypeOK, HostState
<1>3. /\ files' \in [Families -> File] /\ next' \in 1 .. MaxEvents + 1
      /\ EveryEventLeftATrace' /\ LedgerIsWhole' /\ CursorCovers' /\ LossIsKept'
  <2>1. CASE UNCHANGED <<files, next>>
    <3>1. CursorCovers'
      BY <1>2, <2>1 DEF StreamInv, CursorCovers
    <3> QED BY <1>1, <2>1, <3>1, RecordsUnchanged DEF StreamInv, TypeOK
  <2>2. ASSUME Unlocked, next \in Events, NEW f \in Logs,
               NEW file \in Partial(files[f], next),
               files' = [files EXCEPT ![f] = file], next' = next + 1
        PROVE  /\ files' \in [Families -> File] /\ next' \in 1 .. MaxEvents + 1
               /\ EveryEventLeftATrace' /\ LedgerIsWhole' /\ CursorCovers' /\ LossIsKept'
    <3>1. f \in Families /\ f # "usage" /\ file \in Left(files[f], next)
      BY DEF Logs, Families, Left
    <3>2. /\ files' \in [Families -> File] /\ next' \in 1 .. MaxEvents + 1
          /\ EveryEventLeftATrace' /\ LedgerIsWhole' /\ CursorCovers'
          /\ \A c \in acked : Intact(c)' \/ Ruined(files[c.family])'
      BY <1>2, <2>2, <3>1, AppendKeepsRecords
    <3> QED BY <1>1, <3>2 DEF LossIsKept
  <2>3. CASE ~UNCHANGED <<files, next>>
    <3>1. /\ Unlocked /\ next \in Events /\ next' = next + 1
          /\ \E f \in Logs : \E file \in Partial(files[f], next) :
                files' = [files EXCEPT ![f] = file]
      BY <2>3 DEF kill_engine
    <3> QED BY <2>2, <3>1
  <2> QED BY <2>1, <2>3
<1>4. Unlocked' /\ Idle \in Commit /\ Len(sent') = 0 /\ sent' \in Seq(Events)
  BY <1>1 DEF Unlocked, Idle, Commit, NoEvent, Families
<1>5. TypeOK'
  BY <1>1, <1>2, <1>3, <1>4 DEF StreamInv, TypeOK, Closed, EventStreamConstants
<1>6. BusIsCommitted'
  <2>1. Range(sent') = {}
    BY <1>1 DEF Range
  <2>2. next' \in Nat /\ next' >= 1
    BY <1>3
  <2> QED BY <1>4, <2>1, <2>2 DEF BusIsCommitted
<1>7. ReceiverIsOpen' /\ NoGapYet'
  BY <1>1, <1>2 DEF ReceiverIsOpen, NoGapYet
<1> QED BY <1>3, <1>5, <1>6, <1>7 DEF StreamInv

\* A receiver opens at the end of what was sent.
LEMMA SubscribeStep ==
    ASSUME EventStreamConstants, StreamInv, subscribe
    PROVE  StreamInv'
<1>1. /\ receiver = Closed /\ receiver' = Len(sent)
      /\ host' = [host EXCEPT !.order = IF @ = "none" THEN "subscribe" ELSE @]
      /\ UNCHANGED <<files, committing, sent, next, acked, crashes>>
  BY DEF subscribe
<1>2. /\ host \in HostState /\ host' \in HostState
      /\ host'.phase = host.phase /\ host'.view = host.view
      /\ host'.cursor = host.cursor
      /\ host'.order = IF host.order = "none" THEN "subscribe" ELSE host.order
  BY <1>1 DEF StreamInv, TypeOK, HostState
<1>3. Len(sent) \in Nat /\ Len(sent) <= MaxEvents
  BY DEF StreamInv, TypeOK, BusIsCommitted, EventStreamConstants
<1>4. receiver' \in 0 .. Closed /\ receiver' # Closed
  BY <1>1, <1>3 DEF Closed, EventStreamConstants
<1>5. TypeOK'
  BY <1>1, <1>2, <1>4 DEF StreamInv, TypeOK
<1>6. BusIsCommitted' /\ CursorCovers'
  BY <1>1, <1>2 DEF StreamInv, BusIsCommitted, Unlocked, CursorCovers
<1>7. ReceiverIsOpen'
  BY <1>1, <1>2, <1>3, <1>4 DEF StreamInv, ReceiverIsOpen
<1>8. NoGapYet'
  \* A Host that was live had subscribed before, or resynced first.
  <2>1. ~(host'.phase = "live" /\ host'.order = "subscribe")
    BY <1>1, <1>2 DEF StreamInv, ReceiverIsOpen
  <2> QED BY <2>1 DEF NoGapYet
<1> QED BY <1>1, <1>5, <1>6, <1>7, <1>8, RecordsUnchanged DEF StreamInv

\* The records past the n-th.
LEMMA PastIsTheRest ==
    ASSUME NEW S, NEW s \in Seq(S), NEW n \in Nat, n <= Len(s)
    PROVE  /\ Range(SubSeq(s, n + 1, Len(s))) \subseteq Range(s)
           /\ \A i \in 1 .. Len(s) : i > n => s[i] \in Range(SubSeq(s, n + 1, Len(s)))
<1> DEFINE rest == SubSeq(s, n + 1, Len(s))
<1>1. Len(s) \in Nat /\ \A i \in 1 .. Len(s) : s[i] \in S
  OBVIOUS
<1>2. /\ rest \in Seq(S)
      /\ Len(rest) = Len(s) - n
      /\ \A i \in 1 .. Len(s) - n : rest[i] = s[n + i]
  <2>1. n + 1 \in Int /\ Len(s) \in Int /\ \A i \in n + 1 .. Len(s) : s[i] \in S
    BY <1>1
  <2>2. /\ rest \in Seq(S)
        /\ Len(rest) = IF n + 1 <= Len(s) THEN Len(s) - (n + 1) + 1 ELSE 0
        /\ \A i \in 1 .. Len(s) - (n + 1) + 1 : rest[i] = s[n + 1 + i - 1]
    BY <2>1, SubSeqProperties
  <2>3. Len(rest) = Len(s) - n
    BY <1>1, <2>2
  <2>4. ASSUME NEW i \in 1 .. Len(s) - n PROVE rest[i] = s[n + i]
    <3>1. i \in 1 .. Len(s) - (n + 1) + 1 /\ n + 1 + i - 1 = n + i
      BY <1>1
    <3> HIDE DEF rest
    <3> QED BY <2>2, <3>1
  <2> QED BY <2>2, <2>3, <2>4
<1> HIDE DEF rest
<1>3. ASSUME NEW x \in Range(rest) PROVE x \in Range(s)
  <2>1. PICK i \in 1 .. Len(rest) : rest[i] = x
    BY <1>2, PlacesInSeq
  <2>2. n + i \in 1 .. Len(s) /\ s[n + i] = x
    BY <1>1, <1>2, <2>1
  <2> QED BY <2>2, PlacesInSeq
<1>4. ASSUME NEW i \in 1 .. Len(s), i > n PROVE s[i] \in Range(rest)
  <2>1. i - n \in 1 .. Len(rest) /\ rest[i - n] = s[i]
    BY <1>1, <1>2, <1>4
  <2> QED BY <1>2, <2>1, PlacesInSeq
<1> QED BY <1>3, <1>4 DEF rest

\* A resync that succeeds finds every log whole, and leaves nothing unseen.
LEMMA ResyncSeesAll ==
    ASSUME EventStreamConstants, StreamInv, ~ReadFails(host.cursor)
    PROVE  LET seen == host.view \cup assemble(host.cursor).events
           IN /\ seen \subseteq Events
              /\ assemble(host.cursor).cursor \in [Families -> Nat]
              /\ \A f \in Families :
                    /\ Range(Records(files[f])) \subseteq seen
                    /\ ~Ruined(files[f])
                    /\ Covered(files[f], assemble(host.cursor).cursor[f], seen)
<1> DEFINE seen == host.view \cup assemble(host.cursor).events
           cursor == assemble(host.cursor).cursor
           r(f) == Records(files[f])
           c(f) == host.cursor[f]
<1>1. /\ files \in [Families -> File] /\ host.view \subseteq Events
      /\ host.cursor \in [Families -> Nat]
  BY DEF StreamInv, TypeOK, HostState
<1>2. \A f \in Families : Fused \notin Range(r(f)) /\ ~(c(f) > Len(r(f)))
  BY DEF ReadFails, read_json_lines_tolerant, reject_truncated_family
<1>3. /\ seen = host.view \cup UNION {Past(f, c(f)) : f \in Families}
      /\ cursor = [f \in Families |-> Len(r(f))]
  BY DEF assemble
<1> HIDE DEF seen, cursor, r, c
<1>4. ASSUME NEW f \in Families
      PROVE  /\ r(f) \in Seq(Readable) /\ Len(r(f)) \in Nat /\ c(f) \in Nat
             /\ c(f) <= Len(r(f))
             /\ Range(files[f].lines) \subseteq Range(r(f))
             /\ Range(r(f)) \subseteq Events
             /\ Past(f, c(f)) \subseteq Range(r(f))
             /\ \A i \in 1 .. Len(r(f)) : i > c(f) => r(f)[i] \in Past(f, c(f))
             /\ \A i \in 1 .. Len(r(f)) : i <= c(f) => r(f)[i] \in host.view \cup {Fused}
  <2>1. /\ r(f) \in Seq(Readable) /\ c(f) \in Nat
        /\ Range(files[f].lines) \subseteq Range(r(f))
    BY <1>1, RecordsOfFile DEF r, c
  <2>2. Len(r(f)) \in Nat /\ Range(r(f)) \subseteq Readable
    BY <2>1, PlacesInSeq
  <2>3. c(f) <= Len(r(f)) /\ Range(r(f)) \subseteq Events
    BY <1>2, <2>1, <2>2 DEF Readable
  <2>4. Past(f, c(f)) = Range(SubSeq(r(f), c(f) + 1, Len(r(f))))
    BY DEF Past, r
  <2>5. \A i \in 1 .. Len(r(f)) : i <= c(f) => r(f)[i] \in host.view \cup {Fused}
    BY DEF StreamInv, CursorCovers, Covered, r, c
  <2> QED BY <2>1, <2>2, <2>3, <2>4, <2>5, PastIsTheRest
<1>5. ASSUME NEW f \in Families PROVE Range(r(f)) \subseteq seen
  <2> SUFFICES ASSUME NEW x \in Range(r(f)) PROVE x \in seen
    OBVIOUS
  <2>1. PICK i \in 1 .. Len(r(f)) : r(f)[i] = x
    BY <1>4, PlacesInSeq
  <2>2. CASE i > c(f)
    BY <1>3, <1>4, <2>1, <2>2
  <2>3. CASE i <= c(f)
    BY <1>2, <1>3, <1>4, <2>1, <2>3
  <2> QED BY <1>4, <2>1, <2>2, <2>3
<1>6. seen \subseteq Events
  BY <1>1, <1>3, <1>4
<1>7. cursor \in [Families -> Nat]
  BY <1>3, <1>4
<1>8. ASSUME NEW f \in Families
      PROVE  ~Ruined(files[f]) /\ Covered(files[f], cursor[f], seen)
  <2>1. ~Ruined(files[f])
    BY <1>2, <1>4 DEF Ruined
  <2>2. cursor[f] = Len(r(f)) /\ files[f] \in File
    BY <1>1, <1>3
  <2>3. /\ Len(files[f].lines) \in Nat
        /\ Len(r(f)) <= Len(files[f].lines) + 1
        /\ files[f].tail = Clean => Len(r(f)) <= Len(files[f].lines)
    <3>1. files[f].lines \in Seq(Readable) /\ Len(files[f].lines) \in Nat
      BY <2>2 DEF File, Readable
    <3>2. CASE files[f].tail \in {Clean, Fragment}
      <4>1. r(f) = files[f].lines
        BY <2>2, <3>2, RecordsOfFile DEF r
      <4> QED BY <3>1, <4>1
    <3>3. CASE files[f].tail \notin {Clean, Fragment}
      <4>1. r(f) = Append(files[f].lines, files[f].tail) /\ files[f].tail \in Readable
        BY <2>2, <3>3, RecordsOfFile DEF r, Readable
      <4> QED BY <3>1, <3>3, <4>1, RangeOfAppend
    <3> QED BY <3>2, <3>3
  <2>4. \A i \in 1 .. Len(r(f)) : r(f)[i] \in seen
    BY <1>4, <1>5, PlacesInSeq
  <2> QED BY <2>1, <2>2, <2>3, <2>4 DEF Covered, r
<1> QED BY <1>5, <1>6, <1>7, <1>8 DEF seen, cursor, r

LEMMA ResyncStep ==
    ASSUME EventStreamConstants, StreamInv, resync_events
    PROVE  StreamInv'
<1> DEFINE first == IF host.order = "none" THEN "resync" ELSE host.order
           read  == read_committed(host.cursor)
<1>1. /\ Unlocked /\ host.phase = "behind"
      /\ host' = IF read.ok
                 THEN [host EXCEPT !.phase = "live", !.order = first,
                           !.view = @ \cup read.batch.events,
                           !.cursor = read.batch.cursor, !.torn = read.torn]
                 ELSE [host EXCEPT !.phase = "failed", !.order = first]
      /\ UNCHANGED <<files, committing, sent, receiver, next, acked, crashes>>
  BY DEF resync_events
<1>2. host \in HostState /\ first \in {"none", "subscribe", "resync"} /\ first # "none"
      /\ (first = "subscribe" => host.order = "subscribe")
  BY DEF StreamInv, TypeOK, HostState
<1> HIDE DEF first
<1>3. BusIsCommitted'
  BY <1>1 DEF StreamInv, BusIsCommitted, Unlocked
<1>4. CASE ~read.ok
  <2>1. host' \in HostState /\ host'.phase = "failed" /\ host'.order = first
        /\ host'.view = host.view /\ host'.cursor = host.cursor
    BY <1>1, <1>2, <1>4 DEF HostState
  <2>2. TypeOK'
    BY <1>1, <2>1 DEF StreamInv, TypeOK
  <2>3. CursorCovers' /\ ReceiverIsOpen' /\ NoGapYet'
    BY <1>1, <1>2, <2>1 DEF StreamInv, CursorCovers, ReceiverIsOpen, NoGapYet
  <2> QED BY <1>1, <1>3, <2>2, <2>3, RecordsUnchanged DEF StreamInv
<1>5. CASE read.ok
  <2> DEFINE seen   == host.view \cup assemble(host.cursor).events
             cursor == assemble(host.cursor).cursor
  <2>1. /\ seen \subseteq Events /\ cursor \in [Families -> Nat]
        /\ \A f \in Families :
              /\ Range(Records(files[f])) \subseteq seen
              /\ ~Ruined(files[f])
              /\ Covered(files[f], cursor[f], seen)
    BY <1>5, ResyncSeesAll DEF read_committed
  <2>2. read.torn \in BOOLEAN /\ read.batch = assemble(host.cursor)
    BY DEF read_committed, torn_tail_skipped
  <2> HIDE DEF seen, cursor
  <2>3. host' = [host EXCEPT !.phase = "live", !.order = first, !.view = seen,
                             !.cursor = cursor, !.torn = read.torn]
    BY <1>1, <1>5, <2>2 DEF seen, cursor
  <2> HIDE DEF read
  <2>4. /\ host' \in HostState /\ host'.phase = "live" /\ host'.order = first
        /\ host'.view = seen /\ host'.cursor = cursor
    BY <1>2, <2>1, <2>2, <2>3 DEF HostState
  <2>5. TypeOK'
    BY <1>1, <2>4 DEF StreamInv, TypeOK
  <2>6. CursorCovers'
    BY <1>1, <2>1, <2>4 DEF CursorCovers
  <2>7. ReceiverIsOpen'
    BY <1>1, <1>2, <2>4 DEF StreamInv, ReceiverIsOpen
  <2>8. NoGapYet'
    <3> SUFFICES ASSUME NEW c \in acked PROVE c.event \in seen
      BY <1>1, <2>4 DEF NoGapYet
    <3>1. c.family \in Families /\ files[c.family] \in File
      BY DEF StreamInv, TypeOK, Commit
    <3>2. c.event \in Range(files[c.family].lines)
      BY <2>1, <3>1 DEF StreamInv, LossIsKept, Intact
    <3> QED BY <2>1, <3>1, <3>2, RecordsOfFile
  <2> QED BY <1>1, <1>3, <2>5, <2>6, <2>7, <2>8, RecordsUnchanged DEF StreamInv
<1> QED BY <1>4, <1>5

\* A Host that is told of a lag is not live until it has resynced.
LEMMA LaggedStep ==
    ASSUME EventStreamConstants, StreamInv, recv_lagged
    PROVE  StreamInv'
<1>1. /\ receiver < Len(sent) /\ receiver' = receiver + Missed /\ Missed > 0
      /\ host' = [host EXCEPT !.phase = IF @ = "live" THEN "behind" ELSE @]
      /\ UNCHANGED <<files, committing, sent, next, acked, crashes>>
  BY DEF recv_lagged
<1>2. /\ host \in HostState /\ host' \in HostState /\ host'.phase # "live"
      /\ host'.order = host.order /\ host'.view = host.view
      /\ host'.cursor = host.cursor
  BY <1>1 DEF StreamInv, TypeOK, HostState
<1>3. /\ Len(sent) \in Nat /\ receiver \in Nat /\ Len(sent) <= MaxEvents
      /\ EVENT_BUS_CAPACITY \in Nat /\ MaxEvents \in Nat
  BY DEF StreamInv, TypeOK, BusIsCommitted, Closed, EventStreamConstants
<1>4. receiver' \in 0 .. Closed /\ receiver' # Closed /\ receiver' <= Len(sent)
  BY <1>1, <1>3 DEF Missed, Closed, EventStreamConstants
<1>5. TypeOK'
  BY <1>1, <1>2, <1>4 DEF StreamInv, TypeOK
<1>6. BusIsCommitted' /\ CursorCovers'
  BY <1>1, <1>2 DEF StreamInv, BusIsCommitted, Unlocked, CursorCovers
<1>7. ReceiverIsOpen' /\ NoGapYet'
  BY <1>1, <1>2, <1>4 DEF ReceiverIsOpen, NoGapYet
<1> QED BY <1>1, <1>5, <1>6, <1>7, RecordsUnchanged DEF StreamInv

LEMMA ReceiveStep ==
    ASSUME EventStreamConstants, StreamInv, recv
    PROVE  StreamInv'
<1> DEFINE e == sent[receiver + 1]
<1>1. /\ receiver < Len(sent) /\ receiver' = receiver + 1
      /\ host' = [host EXCEPT !.view = @ \cup {e}]
      /\ UNCHANGED <<files, committing, sent, next, acked, crashes>>
  BY DEF recv
<1>2. /\ Len(sent) \in Nat /\ receiver \in Nat /\ Len(sent) <= MaxEvents
      /\ MaxEvents \in Nat /\ DOMAIN sent = 1 .. Len(sent)
  BY DEF StreamInv, TypeOK, BusIsCommitted, Closed, EventStreamConstants
<1>3. receiver + 1 \in DOMAIN sent /\ e \in Events
  BY <1>1, <1>2 DEF StreamInv, TypeOK
<1>4. /\ host \in HostState /\ host' \in HostState /\ host'.phase = host.phase
      /\ host'.order = host.order /\ host'.view = host.view \cup {e}
      /\ host'.cursor = host.cursor
  BY <1>1, <1>3 DEF StreamInv, TypeOK, HostState
<1>5. receiver' \in 0 .. Closed /\ receiver' # Closed /\ receiver' <= Len(sent)
  BY <1>1, <1>2 DEF Closed
<1> HIDE DEF e
<1>6. TypeOK'
  BY <1>1, <1>4, <1>5 DEF StreamInv, TypeOK
<1>7. BusIsCommitted'
  BY <1>1 DEF StreamInv, BusIsCommitted, Unlocked
<1>8. CursorCovers'
  BY <1>1, <1>4 DEF StreamInv, CursorCovers, Covered
<1>9. ReceiverIsOpen'
  BY <1>1, <1>4, <1>5 DEF StreamInv, ReceiverIsOpen
<1>10. NoGapYet'
  <2> SUFFICES ASSUME host.phase = "live", host.order = "subscribe"
               PROVE  \A c \in acked : c.event \in host'.view \cup Coming'
    BY <1>1, <1>4 DEF NoGapYet
  <2>1. \A c \in acked : c.event \in host.view \cup Coming
    BY DEF StreamInv, NoGapYet
  <2>2. ASSUME NEW x \in Coming PROVE x \in Coming' \cup {e}
    <3>1. CASE ~Unlocked /\ x = committing.event
      BY <1>1, <3>1 DEF Coming, Unlocked
    <3>2. ASSUME NEW i \in DOMAIN sent, i > receiver, x = sent[i]
          PROVE  x \in Coming' \cup {e}
      <4>1. i = receiver + 1 \/ i > receiver + 1
        BY <1>2, <3>2
      <4> QED BY <1>1, <3>2, <4>1 DEF Coming, e
    <3> QED BY <3>1, <3>2 DEF Coming
  <2> QED BY <1>4, <2>1, <2>2
<1> QED BY <1>1, <1>6, <1>7, <1>8, <1>9, <1>10, RecordsUnchanged DEF StreamInv

\* The commit points, the bus and the Host keep the invariant.
LEMMA StreamInvariant ==
    ASSUME EventStreamConstants
    PROVE  Spec => []StreamInv
<1>1. Init => StreamInv
  <2> SUFFICES ASSUME Init PROVE StreamInv
    OBVIOUS
  <2>1. /\ files = [f \in Families |-> [lines |-> <<>>, tail |-> Clean]]
        /\ committing = Idle /\ sent = <<>> /\ receiver = Closed
        /\ host = [order |-> "none", phase |-> "behind", cursor |-> START,
                   view |-> {}, torn |-> FALSE]
        /\ next = 1 /\ acked = {} /\ crashes = 0
    BY DEF Init
  <2>2. /\ Unlocked /\ Idle \in Commit /\ START \in [Families -> Nat]
        /\ \A f \in Families : START[f] = 0
    BY <2>1 DEF Unlocked, Idle, Commit, NoEvent, Families, START
  <2>3. \A f \in Families :
           files[f] \in File /\ files[f].lines = <<>> /\ files[f].tail = Clean
    BY <2>1 DEF File, Clean, Fragment, EventStreamConstants
  <2>4. TypeOK
    BY <2>1, <2>2, <2>3 DEF TypeOK, HostState, Closed, EventStreamConstants
  <2>5. BusIsCommitted
    <3>1. Range(sent) = {} /\ Len(sent) = 0
      BY <2>1 DEF Range
    <3> QED BY <2>1, <2>2, <3>1 DEF BusIsCommitted
  <2>6. LossIsKept /\ EveryEventLeftATrace /\ LedgerIsWhole
    BY <2>1, <2>3 DEF LossIsKept, EveryEventLeftATrace, LedgerIsWhole, Events, Families
  <2>7. CursorCovers
    <3> SUFFICES ASSUME NEW f \in Families
                 PROVE  Covered(files[f], host.cursor[f], host.view)
      BY DEF CursorCovers
    <3>1. Records(files[f]) = <<>> /\ Len(files[f].lines) = 0 /\ host.cursor[f] = 0
      BY <2>1, <2>2, <2>3, RecordsOfFile
    <3> QED BY <3>1 DEF Covered
  <2>8. ReceiverIsOpen /\ NoGapYet
    BY <2>1 DEF ReceiverIsOpen, NoGapYet
  <2> QED BY <2>4, <2>5, <2>6, <2>7, <2>8 DEF StreamInv
<1>2. StreamInv /\ [Next]_vars => StreamInv'
  <2> SUFFICES ASSUME StreamInv, [Next]_vars PROVE StreamInv'
    OBVIOUS
  <2>1. ASSUME NEW f \in Families, append_event(f) PROVE StreamInv'
    BY <2>1, AppendStep
  <2>2. ASSUME NEW f \in Families, append_event_fails(f) PROVE StreamInv'
    BY <2>2, AppendFailsStep
  <2>3. CASE publish
    BY <2>3, PublishStep
  <2>4. CASE kill_engine
    BY <2>4, CrashStep
  <2>5. CASE subscribe
    BY <2>5, SubscribeStep
  <2>6. CASE resync_events
    BY <2>6, ResyncStep
  <2>7. CASE recv_lagged
    BY <2>7, LaggedStep
  <2>8. CASE recv
    BY <2>8, ReceiveStep
  <2>9. CASE UNCHANGED vars
    BY <2>9 DEF vars, StreamInv, TypeOK, BusIsCommitted, LossIsKept, Intact, Unlocked,
                EveryEventLeftATrace, LedgerIsWhole, CursorCovers, ReceiverIsOpen,
                NoGapYet, Coming
  <2> QED BY <2>1, <2>2, <2>3, <2>4, <2>5, <2>6, <2>7, <2>8, <2>9 DEF Next, Engine, Host
<1> QED BY <1>1, <1>2, PTL DEF Spec

-----------------------------------------------------------------------------
(* The theorems.                                                           *)

\* For any capacity of the bus and any number of events and of kills: the bus
\* carries committed events only, a committed record is a line of its log for
\* good or every reader of that log fails, and a Host that subscribed before it
\* resynced, and does not lag, has or is about to receive every committed
\* event (EventBus.publish, resync_events, read_json_lines_tolerant).
THEOREM StreamIsCommitted ==
    ASSUME EventStreamConstants
    PROVE  Spec => []StreamIsTrue
<1>1. StreamInv => StreamIsTrue
  <2> SUFFICES ASSUME StreamInv PROVE StreamIsTrue
    OBVIOUS
  <2>1. \A c \in acked : c.family \in Families /\ files[c.family] \in File
    BY DEF StreamInv, TypeOK, Commit
  <2>2. CommittedTruth
    BY <2>1, RuinedIsNoticed DEF StreamInv, BusIsCommitted, LossIsKept, CommittedTruth
  <2>3. NoSilentGap
    BY DEF StreamInv, NoGapYet, NoSilentGap
  <2> QED BY <2>2, <2>3 DEF StreamIsTrue
<1> QED BY <1>1, StreamInvariant, PTL

\* After a resync the Host has every event whose append was ever begun, or the
\* batch told it of a torn tail, or the read failed: no tear is silent
\* (torn_tail_skipped, of both log files).
THEOREM TearsAreTold ==
    ASSUME EventStreamConstants
    PROVE  Spec => TearIsTold
<1>1. StreamInv /\ [Next]_vars => [TellsOfTears]_vars
  <2> SUFFICES ASSUME StreamInv, resync_events
               PROVE  \/ 1 .. next - 1 \subseteq host'.view
                      \/ host'.torn \/ host'.phase = "failed"
    BY DEF TellsOfTears
  <2>1. host \in HostState /\ next \in 1 .. MaxEvents + 1
    BY DEF StreamInv, TypeOK
  <2>2. CASE ReadFails(host.cursor)
    <3>1. host'.phase = "failed"
      BY <2>1, <2>2 DEF resync_events, read_committed, HostState
    <3> QED BY <3>1
  <2>3. CASE ~ReadFails(host.cursor)
    <3> DEFINE seen == host.view \cup assemble(host.cursor).events
    <3>1. host'.torn = torn_tail_skipped /\ host'.view = seen
      BY <2>1, <2>3 DEF resync_events, read_committed, HostState
    <3>2. \A f \in Families : Range(Records(files[f])) \subseteq seen /\ ~Ruined(files[f])
      BY <2>3, ResyncSeesAll
    <3> HIDE DEF seen
    <3>3. ASSUME NEW f \in Families, TornTail(files[f]) PROVE host'.torn
      <4>1. f \in Logs
        BY <3>3 DEF StreamInv, LedgerIsWhole, TornTail, Families, Clean, Fragment,
                    EventStreamConstants
      <4> QED BY <3>1, <3>3, <4>1 DEF torn_tail_skipped, read_json_lines_tolerant
    <3>4. CASE ~host'.torn
      <4>1. ASSUME NEW e \in 1 .. next - 1 PROVE e \in seen
        <5>1. e \in Events /\ e < next
          BY <2>1 DEF Events, EventStreamConstants
        <5>2. PICK f \in Families : Traced(files[f], e)
          BY <5>1 DEF StreamInv, EveryEventLeftATrace
        <5> QED BY <3>2, <3>3, <3>4, <5>2 DEF Traced
      <4> QED BY <3>1, <4>1
    <3> QED BY <3>4
  <2> QED BY <2>2, <2>3
<1> QED BY <1>1, StreamInvariant, PTL DEF Spec, TearIsTold

-----------------------------------------------------------------------------
(***************************************************************************)
(* Relay.                                                                  *)
(***************************************************************************)

Results == UNION {Answers(inject_include_usage(r)) : r \in Requests}

Sent == {inject_include_usage(r) : r \in Requests}

\* Where a request is, and what is kept of it there.
CallStates ==
    {NoRequest}
    \cup [at : {"read", "cut"}, asked : Requests]
    \cup [at : {"sent", "cut"}, asked : Requests, out : Sent]
    \cup [at : {"answered", "skimmed", "cut"}, asked : Requests, out : Sent, res : Results]
    \cup [at : {"relayed"}, asked : Requests, got : {BadGateway}]
    \cup [at : {"relayed"}, asked : Requests, out : Sent, res : Results, got : Results]

\* What is under way was sent as the injection leaves it, and answered by that.
Forwarded(k) ==
    /\ k.at \in {"sent", "answered", "skimmed"} => k.out = inject_include_usage(k.asked)
    /\ k.at \in {"answered", "skimmed"} => k.res \in Answers(k.out)

CallsAreForwarded ==
    /\ call \in [Calls -> CallStates]
    /\ \A c \in Calls : Forwarded(call[c])

\* From the skim on, and not before, a call with a count has its entry.
SkimmedIsCharged ==
    \A c \in Calls :
        /\ call[c].at = "skimmed" /\ usage(call[c].res) # NoUsage
              => \E i \in DOMAIN Entries : Entries[i] = <<c, usage(call[c].res)>>
        /\ call[c].at = "relayed" /\ call[c].got # BadGateway
           /\ usage(call[c].got) # NoUsage
              => \E i \in DOMAIN Entries : Entries[i] = <<c, usage(call[c].got)>>

EntriesAreOfCalls ==
    /\ \A i, j \in DOMAIN Entries : Entries[i][1] = Entries[j][1] => i = j
    /\ \A i \in DOMAIN Entries :
          LET k == call[Entries[i][1]]
          IN  /\ k.at \in {"skimmed", "relayed", "cut"}
              /\ k.res \in Results /\ Entries[i][2] = usage(k.res)

RelayInv ==
    /\ RelayTypeOK
    /\ CallsAreForwarded /\ SkimmedIsCharged /\ EntriesAreOfCalls

-----------------------------------------------------------------------------
(* What is read off a response.                                            *)

\* The last of the usable frames, of three at most, is one of them.
LEMMA LastUsable ==
  ASSUME NEW S, S \subseteq 1 .. 3, S # {}
  PROVE  Max(S) \in S /\ \A y \in S : y <= Max(S)
<1>1. \E x \in S : \A y \in S : x >= y
  <2>1. CASE 3 \in S BY <2>1
  <2>2. CASE 3 \notin S /\ 2 \in S BY <2>2
  <2>3. CASE 3 \notin S /\ 2 \notin S
    <3>1. \A x \in S : x = 1
      BY <2>3
    <3>2. PICK x : x \in S
      OBVIOUS
    <3> QED BY <3>1, <3>2
  <2> QED BY <2>1, <2>2, <2>3
<1> QED BY <1>1 DEF Max

\* Sequences of up to three frames.
LEMMA FewFrames ==
  ASSUME NEW a, NEW b, NEW c
  PROVE  /\ Len(<<a>>) = 1 /\ DOMAIN <<a>> = 1 .. 1 /\ <<a>>[1] = a
         /\ Len(<<a, b>>) = 2 /\ DOMAIN <<a, b>> = 1 .. 2
         /\ <<a, b>>[1] = a /\ <<a, b>>[2] = b
         /\ Len(<<a, b, c>>) = 3 /\ DOMAIN <<a, b, c>> = 1 .. 3
         /\ <<a, b, c>>[1] = a /\ <<a, b, c>>[2] = b /\ <<a, b, c>>[3] = c
OBVIOUS

\* A response as the provider makes it: at most three frames, one in a whole body.
Response(res) ==
    /\ DOMAIN res.frames = 1 .. Len(res.frames) /\ Len(res.frames) \in 1 .. 3
    /\ ~res.sse => Len(res.frames) = 1
    /\ \A i \in DOMAIN res.frames :
          res.frames[i] \in Counts \cup {NoUsage} \/ (res.sse /\ i = 1 /\ Len(res.frames) = 2
              /\ res.frames[2] \in Counts)

LEMMA AnswersAreResponses ==
  ASSUME RelayConstants, NEW r \in Sent, NEW res \in Answers(r)
  PROVE  /\ Response(res)
         /\ res # BadGateway
         /\ res = BadOption => r.options # "none" /\ ~r.chat
<1>1. /\ Error.frames = <<NoUsage>> /\ ~Error.sse /\ Error.status = "error"
      /\ BadOption.frames = <<NoUsage>> /\ ~BadOption.sse /\ BadOption.status = "bad option"
      /\ BadGateway.status = "bad gateway"
  BY DEF Error, BadOption, BadGateway
<1>2. \/ res = Error
      \/ res = BadOption /\ r.options # "none" /\ ~r.chat
      \/ \E c \in Counts \cup {NoUsage} : res \in Streams(c)
      \/ \E c \in Counts : res = [status |-> "ok", sse |-> TRUE, size |-> "fits",
                                  frames |-> <<1, c>>]
      \/ \E s \in {"fits", "huge"}, c \in Counts \cup {NoUsage} :
            res = [status |-> "ok", sse |-> FALSE, size |-> s, frames |-> <<c>>]
  BY DEF Answers
<1>3. CASE res = Error \/ (res = BadOption /\ r.options # "none" /\ ~r.chat)
  <2>1. res.frames = <<NoUsage>> /\ ~res.sse
    BY <1>1, <1>3
  <2>2. Response(res)
    BY <2>1, FewFrames DEF Response
  <2> QED BY <1>1, <1>3, <2>2
<1>4. CASE \E c \in Counts \cup {NoUsage} : res \in Streams(c)
  <2>1. PICK c \in Counts \cup {NoUsage} :
           /\ res.status = "ok" /\ res.sse
           /\ res.frames \in {<<NoUsage, c>>, <<NoUsage, c, NoUsage>>, <<NoUsage>>}
    BY <1>4 DEF Streams
  <2>2. res.frames = <<NoUsage, c>> => Response(res)
    BY <2>1, FewFrames DEF Response
  <2>3. res.frames = <<NoUsage, c, NoUsage>> => Response(res)
    BY <2>1, FewFrames DEF Response
  <2>4. res.frames = <<NoUsage>> => Response(res)
    BY <2>1, FewFrames DEF Response
  <2>5. Response(res) BY <2>1, <2>2, <2>3, <2>4
  <2> QED BY <1>1, <2>1, <2>5
<1>5. CASE \E c \in Counts : res = [status |-> "ok", sse |-> TRUE, size |-> "fits",
                                    frames |-> <<1, c>>]
  <2>1. PICK c \in Counts : res.status = "ok" /\ res.sse /\ res.frames = <<1, c>>
    BY <1>5
  <2>2. Response(res) BY <2>1, FewFrames DEF Response
  <2> QED BY <1>1, <2>1, <2>2
<1>6. CASE \E s \in {"fits", "huge"}, c \in Counts \cup {NoUsage} :
              res = [status |-> "ok", sse |-> FALSE, size |-> s, frames |-> <<c>>]
  <2>1. PICK c \in Counts \cup {NoUsage} :
           res.status = "ok" /\ ~res.sse /\ res.frames = <<c>>
    BY <1>6
  <2>2. Response(res) BY <2>1, FewFrames DEF Response
  <2> QED BY <1>1, <2>1, <2>2
<1> QED BY <1>2, <1>3, <1>4, <1>5, <1>6

\* The count the relay queues is the one a stream ended on.
LEMMA UsageIsFinal ==
  ASSUME RelayConstants, NEW res, Response(res)
  PROVE  /\ usage(res) \in Counts \cup {NoUsage}
         /\ usage(res) # NoUsage <=> Usable(res.frames) # {}
         /\ Usable(res.frames) # {} => usage(res) = Final(res.frames)
<1> DEFINE f == res.frames
<1>1. DOMAIN f = 1 .. Len(f) /\ Len(f) \in 1 .. 3
  BY DEF Response
<1>2. Usable(f) \subseteq 1 .. 3
  BY <1>1 DEF Usable
<1>3. ASSUME Usable(f) # {}
      PROVE  /\ Max(Usable(f)) \in DOMAIN f /\ f[Max(Usable(f))] # NoUsage
             /\ Final(f) = f[Max(Usable(f))]
  <2> DEFINE m == Max(Usable(f))
  <2>1. m \in Usable(f) /\ \A y \in Usable(f) : y <= m
    BY <1>2, <1>3, LastUsable
  <2> HIDE DEF m
  <2>2. m \in DOMAIN f /\ f[m] # NoUsage /\ \A j \in m + 1 .. Len(f) : f[j] = NoUsage
    BY <1>1, <2>1 DEF Usable
  <2>3. \A i \in DOMAIN f :
           f[i] # NoUsage /\ (\A j \in i + 1 .. Len(f) : f[j] = NoUsage) => i = m
    BY <1>1, <2>2
  <2>4. (CHOOSE i \in DOMAIN f :
            f[i] # NoUsage /\ \A j \in i + 1 .. Len(f) : f[j] = NoUsage) = m
    BY <2>2, <2>3
  <2> QED BY <2>2, <2>4 DEF Final, m
<1>4. CASE res.sse
  <2>1. usage(res) = parse_openai_sse_usage(f)
    BY <1>4 DEF usage
  <2>2. CASE Usable(f) = {}
    BY <2>1, <2>2 DEF parse_openai_sse_usage
  <2>3. CASE Usable(f) # {}
    <3>1. usage(res) = f[Max(Usable(f))]
      BY <2>1, <2>3 DEF parse_openai_sse_usage
    <3> DEFINE m == Max(Usable(f))
    <3>2. m \in Usable(f) /\ \A y \in Usable(f) : y <= m
      BY <1>2, <2>3, LastUsable
    <3>3. f[m] \in Counts
      <4> HIDE DEF m
      <4>1. f[m] # NoUsage /\ m \in DOMAIN f
        BY <3>2 DEF Usable
      <4>2. f[m] \in Counts \cup {NoUsage} \/ (m = 1 /\ Len(f) = 2 /\ f[2] \in Counts)
        BY <4>1 DEF Response
      <4>3. f[2] \in Counts => f[2] # NoUsage
        BY DEF RelayConstants, NoUsage
      <4>4. m = 1 /\ Len(f) = 2 /\ f[2] \in Counts => FALSE
        BY <1>1, <3>2, <4>3 DEF Usable
      <4> QED BY <4>1, <4>2, <4>4
    <3> QED BY <1>3, <2>3, <3>1, <3>3
  <2> QED BY <2>2, <2>3
<1>5. CASE ~res.sse
  <2>1. usage(res) = f[1] /\ Len(f) = 1
    BY <1>1, <1>5 DEF usage, parse_openai_usage, Response
  <2>2. f[1] \in Counts \cup {NoUsage}
    BY <1>1, <1>5, <2>1 DEF Response
  <2>3. Usable(f) # {} => Max(Usable(f)) = 1
    BY <1>1, <1>3, <2>1
  <2>4. f[1] # NoUsage => Usable(f) # {}
    BY <1>1, <2>1 DEF Usable
  <2> QED BY <1>3, <2>1, <2>2, <2>3, <2>4
<1> QED BY <1>4, <1>5

-----------------------------------------------------------------------------
(* Steps of one call.                                                      *)

\* A call that moves without an entry made, and is not one that is charged.
LEMMA CallMoves ==
  ASSUME RelayConstants, RelayInv, NEW c \in Calls, NEW k \in CallStates,
         call' = [call EXCEPT ![c] = k], UNCHANGED <<queue, taken>>,
         agent' \in {"runs", "gone"}, listener' \in {"none", "accepts", "dropped"},
         Forwarded(k),
         call[c].at \in {"skimmed", "relayed", "cut"}
             => k.at \in {"skimmed", "relayed", "cut"} /\ k.res = call[c].res,
         k.at # "skimmed",
         k.at = "relayed" =>
            \/ k.got = BadGateway
            \/ call[c].at = "skimmed" /\ k.got = call[c].res
  PROVE  RelayInv'
<1>1. /\ call \in [Calls -> CallStates] /\ Entries' = Entries
      /\ call'[c] = k /\ \A d \in Calls : d # c => call'[d] = call[d]
  BY DEF RelayInv, CallsAreForwarded, Entries
<1>2. RelayTypeOK'
  <2>1. k.at \in Stages
    BY DEF CallStates, NoRequest, Stages
  <2> QED BY <1>1, <2>1 DEF RelayInv, RelayTypeOK
<1>3. CallsAreForwarded'
  BY <1>1 DEF RelayInv, CallsAreForwarded, Forwarded
<1>4. SkimmedIsCharged'
  <2> SUFFICES ASSUME NEW d \in Calls
      PROVE /\ call'[d].at = "skimmed" /\ usage(call'[d].res) # NoUsage
                  => \E i \in DOMAIN Entries : Entries[i] = <<d, usage(call'[d].res)>>
            /\ call'[d].at = "relayed" /\ call'[d].got # BadGateway
               /\ usage(call'[d].got) # NoUsage
                  => \E i \in DOMAIN Entries : Entries[i] = <<d, usage(call'[d].got)>>
    BY <1>1 DEF SkimmedIsCharged
  <2>1. CASE d = c
    BY <1>1, <2>1 DEF RelayInv, SkimmedIsCharged
  <2>2. CASE d # c
    BY <1>1, <2>2 DEF RelayInv, SkimmedIsCharged
  <2> QED BY <2>1, <2>2
<1>5. EntriesAreOfCalls'
  <2>1. \A i \in DOMAIN Entries : Entries[i][1] \in Calls
    <3>1. Entries \in Seq(Calls \X Counts)
      BY ConcatProperties DEF RelayInv, RelayTypeOK, Entries
    <3> QED BY <3>1, ElementOfSeq
  <2> QED BY <1>1, <2>1 DEF RelayInv, EntriesAreOfCalls
<1> QED BY <1>2, <1>3, <1>4, <1>5 DEF RelayInv

LEMMA AcceptStep ==
  ASSUME RelayConstants, RelayInv, NEW c \in Calls, NEW r \in Requests, accept(c, r)
  PROVE  RelayInv'
<1> DEFINE k == [at |-> "read", asked |-> r]
<1>1. /\ k \in CallStates /\ Forwarded(k) /\ k.at = "read"
      /\ call' = [call EXCEPT ![c] = k] /\ call[c].at = "none"
      /\ UNCHANGED <<agent, listener, queue, taken>>
  BY DEF CallStates, Forwarded, accept, NoRequest
<1> HIDE DEF k
<1> QED BY <1>1, CallMoves DEF RelayInv, RelayTypeOK

LEMMA RefusalMoves ==
  ASSUME RelayConstants, RelayInv, NEW c \in Calls, Refuse(c),
         call[c].at \in {"read", "answered"}, UNCHANGED <<agent, listener, queue, taken>>
  PROVE  RelayInv'
<1> DEFINE k == [at |-> "relayed", asked |-> call[c].asked, got |-> BadGateway]
<1>1. call[c].asked \in Requests
  BY DEF RelayInv, CallsAreForwarded, CallStates, NoRequest
<1>2. k \in CallStates /\ Forwarded(k) /\ k.at = "relayed" /\ k.got = BadGateway
  BY <1>1 DEF CallStates, Forwarded
<1>3. call' = [call EXCEPT ![c] = k]
  BY DEF Refuse
<1> HIDE DEF k
<1> QED BY <1>2, <1>3, CallMoves DEF RelayInv, RelayTypeOK

LEMMA ForwardStep ==
  ASSUME RelayConstants, RelayInv, NEW c \in Calls, forward(c)
  PROVE  RelayInv'
<1> DEFINE r == call[c].asked
           k == [at |-> "sent", asked |-> r, out |-> inject_include_usage(r)]
<1>1. r \in Requests
  BY DEF RelayInv, CallsAreForwarded, CallStates, NoRequest, forward
<1>2. k \in CallStates /\ Forwarded(k) /\ k.at = "sent"
  BY <1>1 DEF CallStates, Forwarded, Sent
<1>3. call' = [call EXCEPT ![c] = k] /\ call[c].at = "read"
  BY DEF forward
<1> HIDE DEF k
<1> QED BY <1>2, <1>3, CallMoves DEF RelayInv, RelayTypeOK, forward

\* What is kept of a call with a response on its way.
LEMMA SentIsKept ==
  ASSUME RelayInv, NEW c \in Calls, call[c].at \in {"sent", "answered", "skimmed"}
  PROVE  /\ call[c].asked \in Requests /\ call[c].out \in Sent
         /\ call[c].out = inject_include_usage(call[c].asked)
         /\ call[c].at # "sent" => call[c].res \in Results
         /\ call[c].at = "answered" => call[c].res \in Answers(call[c].out)
         /\ call[c].at = "skimmed" => call[c].res \in Answers(call[c].out)
BY DEF RelayInv, CallsAreForwarded, CallStates, NoRequest, Forwarded

LEMMA AnswerStep ==
  ASSUME RelayConstants, RelayInv, NEW c \in Calls, answer(c)
  PROVE  RelayInv'
<1>1. PICK res \in Answers(call[c].out) :
         call' = [call EXCEPT ![c] = [at |-> "answered", asked |-> call[c].asked,
                                      out |-> call[c].out, res |-> res]]
  BY DEF answer
<1> DEFINE k == [at |-> "answered", asked |-> call[c].asked, out |-> call[c].out, res |-> res]
<1>2. /\ call[c].asked \in Requests /\ call[c].out \in Sent
      /\ call[c].out = inject_include_usage(call[c].asked) /\ call[c].at = "sent"
  BY SentIsKept DEF answer
<1>3. res \in Results
  BY <1>2 DEF Results
<1>4. k \in CallStates /\ Forwarded(k) /\ k.at = "answered"
  BY <1>2, <1>3 DEF CallStates, Forwarded
<1>5. call' = [call EXCEPT ![c] = k]
  BY <1>1
<1> HIDE DEF k
<1> QED BY <1>2, <1>4, <1>5, CallMoves DEF RelayInv, RelayTypeOK, answer

LEMMA RelayStep ==
  ASSUME RelayConstants, RelayInv, NEW c \in Calls, relay(c)
  PROVE  RelayInv'
<1> DEFINE k == [at |-> "relayed", asked |-> call[c].asked, out |-> call[c].out,
                 res |-> call[c].res, got |-> call[c].res]
<1>1. /\ call[c].asked \in Requests /\ call[c].out \in Sent /\ call[c].res \in Results
      /\ call[c].at = "skimmed"
  BY SentIsKept DEF relay
<1>2. /\ k \in CallStates /\ Forwarded(k)
      /\ k.at = "relayed" /\ k.got = call[c].res /\ k.res = call[c].res
  BY <1>1 DEF CallStates, Forwarded
<1>3. call' = [call EXCEPT ![c] = k]
  BY DEF relay
<1> HIDE DEF k
<1> QED BY <1>1, <1>2, <1>3, CallMoves DEF RelayInv, RelayTypeOK, relay

LEMMA HangUpStep ==
  ASSUME RelayConstants, RelayInv, NEW c \in Calls, hang_up(c)
  PROVE  RelayInv'
<1> DEFINE k == [call[c] EXCEPT !.at = "cut"]
<1>1. call[c] \in CallStates /\ call[c].at \in {"read", "sent", "answered", "skimmed"}
  BY DEF RelayInv, CallsAreForwarded, hang_up
<1>2. k \in CallStates /\ k.at = "cut" /\ (call[c].at = "skimmed" => k.res = call[c].res)
  <2>1. CASE call[c].at = "read"
    <3>1. call[c] \in [at : {"read", "cut"}, asked : Requests]
      BY <1>1, <2>1 DEF CallStates, NoRequest
    <3>2. k \in [at : {"read", "cut"}, asked : Requests] /\ k.at = "cut"
      BY <3>1
    <3> QED BY <3>2 DEF CallStates
  <2>2. CASE call[c].at = "sent"
    <3>1. call[c] \in [at : {"sent", "cut"}, asked : Requests, out : Sent]
      BY <1>1, <2>2 DEF CallStates, NoRequest
    <3>2. k \in [at : {"sent", "cut"}, asked : Requests, out : Sent] /\ k.at = "cut"
      BY <3>1
    <3> QED BY <3>2 DEF CallStates
  <2>3. CASE call[c].at \in {"answered", "skimmed"}
    <3>1. call[c] \in [at : {"answered", "skimmed", "cut"}, asked : Requests, out : Sent,
                       res : Results]
      BY <1>1, <2>3 DEF CallStates, NoRequest
    <3>2. k \in [at : {"answered", "skimmed", "cut"}, asked : Requests, out : Sent,
                 res : Results] /\ k.at = "cut" /\ k.res = call[c].res
      BY <3>1
    <3> QED BY <3>2 DEF CallStates
  <2> QED BY <1>1, <2>1, <2>2, <2>3
<1>3. Forwarded(k)
  BY <1>2 DEF Forwarded
<1>4. call' = [call EXCEPT ![c] = k]
  BY DEF hang_up
<1> HIDE DEF k
<1> QED BY <1>2, <1>3, <1>4, CallMoves DEF RelayInv, RelayTypeOK, hang_up

\* The response is buffered and its usage queued in one step.
LEMMA SkimStep ==
  ASSUME RelayConstants, RelayInv, NEW c \in Calls, skim(c)
  PROVE  RelayInv'
<1>1. CASE Refuse(c) /\ UNCHANGED queue
  BY <1>1, RefusalMoves DEF skim
<1>2. CASE ~(Refuse(c) /\ UNCHANGED queue)
  <2> DEFINE res == call[c].res
             u   == usage(res)
             k   == [at |-> "skimmed", asked |-> call[c].asked, out |-> call[c].out, res |-> res]
  <2>1. /\ call[c].asked \in Requests /\ call[c].out \in Sent /\ res \in Results
        /\ call[c].out = inject_include_usage(call[c].asked) /\ res \in Answers(call[c].out)
        /\ call[c].at = "answered"
    BY SentIsKept DEF skim
  <2>2. /\ call' = [call EXCEPT ![c] = k] /\ UNCHANGED <<agent, listener, taken>>
        /\ u = NoUsage => queue' = queue
        /\ u # NoUsage => queue' = Append(queue, <<c, u>>)
    BY <1>2 DEF skim
  <2>3. /\ k \in CallStates /\ Forwarded(k)
        /\ k.at = "skimmed" /\ k.res = res
    BY <2>1 DEF CallStates, Forwarded
  <2>4. Response(res)
    BY <2>1, AnswersAreResponses
  <2>5. u \in Counts \cup {NoUsage}
    BY <2>4, UsageIsFinal
  <2> HIDE DEF k, u
  <2>6. /\ call \in [Calls -> CallStates] /\ call'[c] = k
        /\ \A d \in Calls : d # c => call'[d] = call[d]
    BY <2>2 DEF RelayInv, CallsAreForwarded
  <2>7. CallsAreForwarded'
    BY <2>2, <2>3, <2>6 DEF RelayInv, CallsAreForwarded, Forwarded
  <2>8. /\ queue \in Seq(Calls \X Counts) /\ taken \in Seq(Calls \X Counts)
        /\ Entries \in Seq(Calls \X Counts)
        /\ \A i \in DOMAIN Entries : Entries[i][1] \in Calls
    <3>1. queue \in Seq(Calls \X Counts) /\ taken \in Seq(Calls \X Counts)
      BY DEF RelayInv, RelayTypeOK
    <3>2. Entries \in Seq(Calls \X Counts)
      BY <3>1, ConcatProperties DEF Entries
    <3> QED BY <3>1, <3>2, ElementOfSeq
  <2>9. \A i \in DOMAIN Entries : Entries[i][1] # c
    BY <2>1 DEF RelayInv, EntriesAreOfCalls
  <2>10. CASE u = NoUsage
    <3>1. Entries' = Entries /\ queue' = queue
      BY <2>2, <2>10 DEF Entries
    <3>2. RelayTypeOK'
      BY <2>2, <2>3, <2>6, <3>1 DEF RelayInv, RelayTypeOK, Stages
    <3>3. SkimmedIsCharged'
      BY <2>3, <2>6, <2>10, <3>1 DEF RelayInv, SkimmedIsCharged, u
    <3>4. EntriesAreOfCalls'
      BY <2>6, <2>8, <2>9, <3>1 DEF RelayInv, EntriesAreOfCalls
    <3> QED BY <2>7, <3>2, <3>3, <3>4 DEF RelayInv
  <2>11. CASE u # NoUsage
    <3> DEFINE e == <<c, u>>
    <3>1. e \in Calls \X Counts /\ e[1] = c /\ e[2] = u
      BY <2>5, <2>11
    <3> HIDE DEF e
    <3>2. queue' = Append(queue, e)
      BY <2>2, <2>11 DEF e
    <3>3. Entries' = Append(Entries, e)
      <4>1. queue' = queue \o <<e>>
        BY <2>8, <3>1, <3>2, AppendIsConcat
      <4>2. <<e>> \in Seq(Calls \X Counts)
        BY <3>1
      <4>3. taken \o (queue \o <<e>>) = (taken \o queue) \o <<e>>
        BY <2>8, <4>2, ConcatAssociative
      <4>4. Append(Entries, e) = Entries \o <<e>>
        BY <2>8, <3>1, AppendIsConcat
      <4> QED BY <2>2, <4>1, <4>3, <4>4 DEF Entries
    <3> DEFINE n == Len(Entries) + 1
    <3>4. /\ DOMAIN Entries = 1 .. Len(Entries) /\ Len(Entries) \in Nat
          /\ DOMAIN Entries' = 1 .. n /\ Entries'[n] = e
          /\ \A i \in DOMAIN Entries : i \in DOMAIN Entries' /\ Entries'[i] = Entries[i]
          /\ \A i \in DOMAIN Entries' : i \in DOMAIN Entries \/ i = n
      BY <2>8, <3>1, <3>3, AppendProperties, LenProperties
    <3> HIDE DEF n
    <3>5. RelayTypeOK'
      <4>1. queue' \in Seq(Calls \X Counts)
        BY <2>8, <3>1, <3>2, AppendProperties
      <4> QED BY <2>2, <2>3, <2>6, <4>1 DEF RelayInv, RelayTypeOK, Stages
    <3>6. SkimmedIsCharged'
      <4> SUFFICES ASSUME NEW d \in Calls
          PROVE /\ call'[d].at = "skimmed" /\ usage(call'[d].res) # NoUsage
                      => \E i \in DOMAIN Entries' : Entries'[i] = <<d, usage(call'[d].res)>>
                /\ call'[d].at = "relayed" /\ call'[d].got # BadGateway
                   /\ usage(call'[d].got) # NoUsage
                      => \E i \in DOMAIN Entries' : Entries'[i] = <<d, usage(call'[d].got)>>
        BY DEF SkimmedIsCharged
      <4>1. CASE d = c
        <5>1. n \in DOMAIN Entries' /\ Entries'[n] = <<c, usage(res)>>
          BY <3>4 DEF e, u, n
        <5> QED BY <2>3, <2>6, <4>1, <5>1
      <4>2. CASE d # c
        BY <2>6, <3>4, <4>2 DEF RelayInv, SkimmedIsCharged
      <4> QED BY <4>1, <4>2
    <3>7. EntriesAreOfCalls'
      <4>1. \A i \in DOMAIN Entries' :
               LET x == call'[Entries'[i][1]]
               IN  /\ x.at \in {"skimmed", "relayed", "cut"}
                   /\ x.res \in Results /\ Entries'[i][2] = usage(x.res)
        <5>1. \A i \in DOMAIN Entries : call'[Entries'[i][1]] = call[Entries[i][1]]
          BY <2>6, <2>8, <2>9, <3>4
        <5>2. call'[Entries'[n][1]] = k /\ Entries'[n][2] = usage(k.res)
          BY <2>3, <2>6, <3>1, <3>4 DEF u
        <5> QED BY <2>1, <2>3, <3>4, <5>1, <5>2 DEF RelayInv, EntriesAreOfCalls
      <4>2. \A i, j \in DOMAIN Entries' : Entries'[i][1] = Entries'[j][1] => i = j
        BY <2>9, <3>1, <3>4 DEF RelayInv, EntriesAreOfCalls
      <4> QED BY <4>1, <4>2 DEF EntriesAreOfCalls
    <3> QED BY <2>7, <3>5, <3>6, <3>7 DEF RelayInv
  <2> QED BY <2>10, <2>11
<1> QED BY <1>1, <1>2

-----------------------------------------------------------------------------
(* The whole.                                                              *)

\* Steps of the agent, the listener and the reaper touch no call.
LEMMA OthersStep ==
  ASSUME RelayInv, UNCHANGED call, RelayTypeOK', Entries' = Entries
  PROVE  RelayInv'
BY DEF RelayInv, CallsAreForwarded, SkimmedIsCharged, EntriesAreOfCalls

LEMMA DrainStep == ASSUME RelayInv, drain PROVE RelayInv'
<1>1. queue \in Seq(Calls \X Counts) /\ taken \in Seq(Calls \X Counts)
  BY DEF RelayInv, RelayTypeOK
<1>2. taken' = taken \o queue /\ queue' = <<>>
  BY DEF drain
<1>3. taken' \in Seq(Calls \X Counts) /\ taken' \o <<>> = taken'
  BY <1>1, <1>2, ConcatProperties, ConcatEmptySeq
<1>4. Entries' = Entries
  BY <1>2, <1>3 DEF Entries
<1>5. RelayTypeOK'
  BY <1>2, <1>3 DEF drain, RelayInv, RelayTypeOK
<1> QED BY <1>4, <1>5, OthersStep DEF drain

LEMMA RelayStart == RelayInit => RelayInv
<1> SUFFICES ASSUME RelayInit PROVE RelayInv
  OBVIOUS
<1>1. Entries = <<>>
  BY DEF RelayInit, Entries
<1>2. \A c \in Calls : call[c] = NoRequest /\ call[c].at = "none"
  BY DEF RelayInit, NoRequest
<1>3. call \in [Calls -> CallStates]
  BY DEF RelayInit, CallStates
<1>4. RelayTypeOK /\ CallsAreForwarded
  BY <1>2, <1>3 DEF RelayInit, RelayTypeOK, Stages, CallsAreForwarded, Forwarded
<1>5. SkimmedIsCharged
  BY <1>2 DEF SkimmedIsCharged
<1>6. EntriesAreOfCalls
  BY <1>1 DEF EntriesAreOfCalls
<1> QED BY <1>4, <1>5, <1>6 DEF RelayInv

LEMMA RelayInvariant ==
  ASSUME RelayConstants PROVE RelayInv /\ [RelayNext]_relayVars => RelayInv'
<1> SUFFICES ASSUME RelayInv, [RelayNext]_relayVars PROVE RelayInv'
  OBVIOUS
<1>1. CASE start \/ agent_ends \/ drop \/ UNCHANGED relayVars
  <2>1. UNCHANGED <<call, queue, taken>> /\ agent' \in {"runs", "gone"}
        /\ listener' \in {"none", "accepts", "dropped"}
    BY <1>1 DEF start, agent_ends, drop, relayVars, RelayInv, RelayTypeOK
  <2>2. RelayTypeOK' /\ Entries' = Entries
    BY <2>1 DEF RelayInv, RelayTypeOK, Entries
  <2> QED BY <2>1, <2>2, OthersStep
<1>2. CASE drain BY <1>2, DrainStep
<1>3. ASSUME NEW c \in Calls, \E r \in Requests : accept(c, r) PROVE RelayInv'
  BY <1>3, AcceptStep
<1>4. ASSUME NEW c \in Calls, forward_fails(c) PROVE RelayInv'
  BY <1>4, RefusalMoves DEF forward_fails
<1>5. ASSUME NEW c \in Calls, forward(c) PROVE RelayInv'
  BY <1>5, ForwardStep
<1>6. ASSUME NEW c \in Calls, answer(c) PROVE RelayInv'
  BY <1>6, AnswerStep
<1>7. ASSUME NEW c \in Calls, skim(c) PROVE RelayInv'
  BY <1>7, SkimStep
<1>8. ASSUME NEW c \in Calls, relay(c) PROVE RelayInv'
  BY <1>8, RelayStep
<1>9. ASSUME NEW c \in Calls, hang_up(c) PROVE RelayInv'
  BY <1>9, HangUpStep
<1> QED BY <1>1, <1>2, <1>3, <1>4, <1>5, <1>6, <1>7, <1>8, <1>9 DEF RelayNext

LEMMA InvariantIsHonest ==
  ASSUME RelayConstants, RelayInv PROVE RelayIsHonest
<1>1. \A res \in Results :
         /\ Response(res) /\ res # BadGateway
         /\ usage(res) # NoUsage <=> Usable(res.frames) # {}
         /\ Usable(res.frames) # {} => usage(res) = Final(res.frames)
  <2> SUFFICES ASSUME NEW res \in Results
      PROVE /\ Response(res) /\ res # BadGateway
            /\ usage(res) # NoUsage <=> Usable(res.frames) # {}
            /\ Usable(res.frames) # {} => usage(res) = Final(res.frames)
    OBVIOUS
  <2>1. PICK r \in Sent : res \in Answers(r)
    BY DEF Results, Sent
  <2>2. Response(res) /\ res # BadGateway
    BY <2>1, AnswersAreResponses
  <2> QED BY <2>2, UsageIsFinal
<1>2. ASSUME NEW c \in Calls, Told(c), Usable(call[c].got.frames) # {}
      PROVE  \E i \in DOMAIN Entries : Entries[i] = <<c, Final(call[c].got.frames)>>
  <2>1. call[c].at = "relayed" /\ call[c].got # BadGateway
    BY <1>2 DEF Told, BadGateway, Error
  <2>2. call[c].got \in Results
    BY <2>1 DEF RelayInv, CallsAreForwarded, CallStates, NoRequest
  <2>3. /\ usage(call[c].got) # NoUsage
        /\ usage(call[c].got) = Final(call[c].got.frames)
    BY <1>1, <1>2, <2>2
  <2> QED BY <2>1, <2>3 DEF RelayInv, SkimmedIsCharged
<1>3. ASSUME NEW i \in DOMAIN Entries
      PROVE  LET k == call[Entries[i][1]]
             IN  /\ k.at \in {"skimmed", "relayed", "cut"}
                 /\ Usable(k.res.frames) # {} /\ Entries[i][2] = Final(k.res.frames)
  <2> DEFINE k == call[Entries[i][1]]
  <2>1. /\ k.at \in {"skimmed", "relayed", "cut"}
        /\ k.res \in Results /\ Entries[i][2] = usage(k.res)
    BY DEF RelayInv, EntriesAreOfCalls
  <2>2. Entries[i][2] \in Counts
    <3>1. Entries \in Seq(Calls \X Counts)
      BY ConcatProperties DEF RelayInv, RelayTypeOK, Entries
    <3> QED BY <3>1, ElementOfSeq
  <2>3. Entries[i][2] # NoUsage
    BY <2>2 DEF RelayConstants, NoUsage
  <2> HIDE DEF k
  <2>4. Usable(k.res.frames) # {} /\ Entries[i][2] = Final(k.res.frames)
    BY <1>1, <2>1, <2>3
  <2> QED BY <2>1, <2>4 DEF k
<1>4. ChargedForWhatItGot
  BY <1>2, <1>3 DEF ChargedForWhatItGot, RelayInv, EntriesAreOfCalls
<1>5. ASSUME NEW c \in Calls, call[c].at \in {"sent", "answered", "skimmed"}
      PROVE  /\ call[c].asked.options # "none" => call[c].out = call[c].asked
             /\ call[c].at # "sent" /\ call[c].res = BadOption
                   => call[c].asked.options # "none"
  <2>1. /\ call[c].asked \in Requests /\ call[c].out \in Sent
        /\ call[c].out = inject_include_usage(call[c].asked)
        /\ call[c].at # "sent" => call[c].res \in Answers(call[c].out)
    BY <1>5, SentIsKept
  <2>2. call[c].asked.options # "none" => call[c].out = call[c].asked
    BY <2>1 DEF inject_include_usage, Injectable
  <2>3. ASSUME call[c].at # "sent", call[c].res = BadOption
        PROVE  call[c].asked.options # "none"
    <3>1. call[c].out.options # "none" /\ ~call[c].out.chat
      BY <2>1, <2>3, AnswersAreResponses
    <3>2. CASE Injectable(call[c].asked)
      <4>1. call[c].out = [call[c].asked EXCEPT !.options = "include"] /\ call[c].asked.chat
        BY <2>1, <3>2 DEF inject_include_usage, Injectable
      <4>2. call[c].out.chat = call[c].asked.chat
        BY <2>1, <4>1 DEF RelayConstants
      <4> QED BY <3>1, <4>1, <4>2
    <3>3. CASE ~Injectable(call[c].asked)
      BY <2>1, <3>1, <3>3 DEF inject_include_usage
    <3> QED BY <3>2, <3>3
  <2> QED BY <2>2, <2>3
<1>6. MeteringIsHarmless
  BY <1>5 DEF MeteringIsHarmless
<1> QED BY <1>4, <1>6 DEF RelayIsHonest

\* An answer that an agent has been given is charged, once, with the total it
\* ended on, and only what a provider counted is (forward, skim and
\* inject_include_usage of the listener); and no call fails or changes because it
\* is metered: for any number of calls, any requests and any counts.
THEOREM RelayingIsHonest ==
    ASSUME RelayConstants
    PROVE  RelaySpec => []RelayIsHonest
<1>1. RelayInv => RelayIsHonest
  BY InvariantIsHonest
<1>2. RelayInv /\ [RelayNext]_relayVars => RelayInv'
  BY RelayInvariant
<1> QED BY <1>1, <1>2, RelayStart, PTL DEF RelaySpec
=============================================================================
