----------------------------- MODULE EventStream -----------------------------
(***************************************************************************)
(* The event stream of a session and of a thread: _stream_response of      *)
(* app/routers/sessions.py, over the session's event log.                  *)
(*                                                                         *)
(* The generator reads a page of the events after its cursor, sends those  *)
(* that belong to its thread, and moves the cursor to the last one sent.   *)
(***************************************************************************)
EXTENDS Integers, Sequences, FiniteSets

CONSTANTS
  Threads,        \* thread ids in the payloads, the primary one included
  Everything,     \* the filter of a stream without a thread
  MaxEvents,      \* bound of the log
  PageSize        \* events of a page, 100 in the code

ASSUME StreamBounds == MaxEvents \in Nat /\ PageSize \in Nat \ {0} /\ Everything \notin Threads

VARIABLES
  eventLog,       \* the thread of each event, in the order of seq
  sessionDeleted, \* deleted_at of the session
  filter,         \* the thread of the stream
  start,          \* after_seq of the request
  cursor,         \* current_seq
  page,           \* the events of the page that are still to be looked at
  sent,           \* the events sent
  streaming       \* whether the response is open

streamVars == <<eventLog, sessionDeleted, filter, start, cursor, page, sent, streaming>>

-----------------------------------------------------------------------------

\* _event_belongs_to_thread.
Belongs(n) == filter = Everything \/ eventLog[n] = filter

\* Mutant: after_seq is included.
PageFrom(seq) == {n \in DOMAIN eventLog : n >= seq /\ n < seq + PageSize}

\* list_events after a seq, with the limit of a page: 1 .. Len(eventLog) are the seqs.
PageAfter(seq) == {n \in DOMAIN eventLog : n > seq /\ n <= seq + PageSize}

StreamInit ==
  /\ eventLog = <<>> /\ sessionDeleted = FALSE
  /\ filter \in Threads \cup {Everything}
  /\ start \in 0 .. 1 /\ cursor = start
  /\ page = {} /\ sent = <<>> /\ streaming = TRUE

\* append_event of any turn or request.
AppendEvent ==
  /\ Len(eventLog) < MaxEvents /\ ~sessionDeleted
  /\ \E t \in Threads : eventLog' = Append(eventLog, t)
  /\ UNCHANGED <<sessionDeleted, filter, start, cursor, page, sent, streaming>>

DeleteStreamed ==
  /\ ~sessionDeleted
  /\ sessionDeleted' = TRUE
  /\ UNCHANGED <<eventLog, filter, start, cursor, page, sent, streaming>>

Disconnect ==
  /\ streaming
  /\ streaming' = FALSE
  /\ UNCHANGED <<eventLog, sessionDeleted, filter, start, cursor, page, sent>>

\* An empty page is a ping.
ReadPage ==
  /\ streaming /\ page = {} /\ ~sessionDeleted
  /\ page' = PageAfter(cursor)
  /\ UNCHANGED <<eventLog, sessionDeleted, filter, start, cursor, sent, streaming>>

\* not_found_error ends the stream.
StreamGone ==
  /\ streaming /\ page = {} /\ sessionDeleted
  /\ streaming' = FALSE
  /\ UNCHANGED <<eventLog, sessionDeleted, filter, start, cursor, page, sent>>

FirstOf(events) == CHOOSE n \in events : \A m \in events : n <= m

SendEvent ==
  /\ streaming /\ page # {} /\ Belongs(FirstOf(page))
  /\ page' = page \ {FirstOf(page)}
  /\ cursor' = FirstOf(page)
  /\ sent' = Append(sent, FirstOf(page))
  /\ UNCHANGED <<eventLog, sessionDeleted, filter, start, streaming>>

\* Mutant: the page ends with the first event of another thread.
RestDropped(events) == {}

RestOf(events) == events \ {FirstOf(events)}

\* The cursor stays.
SkipEvent ==
  /\ streaming /\ page # {} /\ ~Belongs(FirstOf(page))
  /\ page' = RestOf(page)
  /\ UNCHANGED <<eventLog, sessionDeleted, filter, start, cursor, sent, streaming>>

StreamStep == ReadPage \/ SendEvent \/ SkipEvent \/ StreamGone

StreamNext == AppendEvent \/ DeleteStreamed \/ Disconnect \/ StreamStep

\* The event loop runs the generator again and again.
StreamSpec == StreamInit /\ [][StreamNext]_streamVars /\ WF_streamVars(StreamStep)

-----------------------------------------------------------------------------
(* Properties. *)

\* What is sent is the stream's thread without a gap and without a repetition, from
\* after_seq on and in the order of the log, however pages and appends interleave.
SentInOrder ==
  /\ \A i \in 1 .. Len(sent) - 1 : sent[i] < sent[i + 1]
  /\ {sent[i] : i \in DOMAIN sent} = {n \in DOMAIN eventLog : n > start /\ n <= cursor /\ Belongs(n)}

\* No page is all of other threads before event n.
WithinReach(n) ==
  \A m \in start .. n - 1 : (\A k \in m + 1 .. n - 1 : ~Belongs(k)) => n - m <= PageSize

Reachable(n) == \A m \in start + 1 .. n : Belongs(m) => WithinReach(m)

\* Every event of the stream's thread is sent at last, unless the stream ends: if no
\* PageSize events of other threads in a row precede it.  The stream does not get over
\* those; without a filter there are none.
EventsSent ==
  \A n \in 1 .. MaxEvents :
    (n \in DOMAIN eventLog /\ n > start /\ Belongs(n) /\ Reachable(n))
      ~> (~streaming \/ \E i \in DOMAIN sent : sent[i] = n)
=============================================================================
