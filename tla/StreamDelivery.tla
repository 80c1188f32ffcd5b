--------------------------- MODULE StreamDelivery ----------------------------
(***************************************************************************)
(* Clients that read the durable events of a run over SSE: stream_run in   *)
(* agents/supervisor.py and the two streaming endpoints of api/app.py over *)
(* RuntimeStore.  Every read is a transaction of its own, and the run goes *)
(* on between them.  A connection may drop at any await, also after an     *)
(* event was sent and before the client has it; the client comes back with *)
(* the last event identifier it received.                                  *)
(***************************************************************************)
EXTENDS RuntimeStore

CONSTANTS
    Readers,   \* clients with an event stream
    MaxDrops   \* bound: connections a client loses

ASSUME MaxDropsIsNatural == MaxDrops \in Nat

VARIABLES
    at,        \* where the connection's stream_run generator is
    run,       \* the run the client reads
    cursor,    \* stream_run's cursor
    batch,     \* events listed and not yet yielded
    lastId,    \* the client's Last-Event-ID; 0 before the first event
    received,  \* the events the client has, over all its connections
    drops      \* connections lost

readerVars == <<at, run, cursor, batch, lastId, received, drops>>
streamVars == <<storeVars, readerVars>>

Init ==
    /\ StoreInit
    /\ at = [c \in Readers |-> "unconnected"]
    /\ run = [c \in Readers |-> NoRun]
    /\ cursor = [c \in Readers |-> 0]
    /\ batch = [c \in Readers |-> {}]
    /\ lastId = [c \in Readers |-> 0]
    /\ received = [c \in Readers |-> {}]
    /\ drops = [c \in Readers |-> 0]

Goto(c, point) == at' = [at EXCEPT ![c] = point]

\* start_stream answered with this run: the stream begins before every event.
Connect(c, r) ==
    /\ at[c] = "unconnected"
    /\ status[r] # ABSENT
    /\ run' = [run EXCEPT ![c] = r]
    /\ Goto(c, "listing")
    /\ UNCHANGED <<storeVars, cursor, batch, lastId, received, drops>>

HasEnd(c) == \E e \in received[c] : e.type \in TERMINAL_EVENT_TYPES

\* Mutant of Resume: the cursor is taken for the next event to send.
ResumePastNext(c) ==
    /\ at[c] = "dropped" \/ (at[c] = "ended" /\ ~ HasEnd(c))
    /\ cursor' = [cursor EXCEPT ![c] = IF lastId[c] < MaxEvents THEN lastId[c] + 1 ELSE @]
    /\ batch' = [batch EXCEPT ![c] = {}]
    /\ Goto(c, "listing")
    /\ UNCHANGED <<storeVars, run, lastId, received, drops>>

\* Last-Event-ID becomes after_sequence, also after a stream that ended early.
Resume(c) ==
    /\ at[c] = "dropped" \/ (at[c] = "ended" /\ ~ HasEnd(c))
    /\ cursor' = [cursor EXCEPT ![c] = lastId[c]]
    /\ batch' = [batch EXCEPT ![c] = {}]
    /\ Goto(c, "listing")
    /\ UNCHANGED <<storeVars, run, lastId, received, drops>>

\* list_stream_events strictly after the cursor.
List(c) ==
    LET later == {e \in events[run[c]] : e.sequence > cursor[c]}
    IN  /\ at[c] = "listing"
        /\ batch' = [batch EXCEPT ![c] = later]
        /\ Goto(c, IF later = {} THEN "checking" ELSE "yielding")
        /\ UNCHANGED <<storeVars, run, cursor, lastId, received, drops>>

\* Mutant of Yield: the events of a batch are sent newest first.
YieldNewestFirst(c) ==
    LET e == CHOOSE d \in batch[c] : \A f \in batch[c] : d.sequence >= f.sequence
    IN  /\ at[c] = "yielding"
        /\ cursor' = [cursor EXCEPT ![c] = e.sequence]
        /\ lastId' = [lastId EXCEPT ![c] = e.sequence]
        /\ received' = [received EXCEPT ![c] = @ \cup {e}]
        /\ batch' = [batch EXCEPT ![c] = @ \ {e}]
        /\ Goto(c, IF batch[c] = {e} THEN "checking" ELSE "yielding")
        /\ UNCHANGED <<storeVars, run, drops>>

\* Events are yielded in sequence order; a terminal one ends the generator.
Yield(c) ==
    LET e == CHOOSE d \in batch[c] : \A f \in batch[c] : d.sequence <= f.sequence
    IN  /\ at[c] = "yielding"
        /\ cursor' = [cursor EXCEPT ![c] = e.sequence]
        /\ lastId' = [lastId EXCEPT ![c] = e.sequence]
        /\ received' = [received EXCEPT ![c] = @ \cup {e}]
        /\ batch' = [batch EXCEPT ![c] = @ \ {e}]
        /\ Goto(c, IF e.type \in TERMINAL_EVENT_TYPES THEN "ended"
                   ELSE IF batch[c] = {e} THEN "checking" ELSE "yielding")
        /\ UNCHANGED <<storeVars, run, drops>>

\* get_run: a terminal row ends the stream, an active one is polled again.
Check(c) ==
    /\ at[c] = "checking"
    /\ Goto(c, IF Terminal(run[c]) THEN "ended" ELSE "listing")
    /\ UNCHANGED <<storeVars, run, cursor, batch, lastId, received, drops>>

\* The connection is lost.  An event that was yielded and never arrived is one
\* that was not yielded: the next connection knows only the client's cursor.
Drop(c) ==
    /\ at[c] \in {"listing", "yielding", "checking"}
    /\ drops[c] < MaxDrops
    /\ drops' = [drops EXCEPT ![c] = @ + 1]
    /\ Goto(c, "dropped")
    /\ UNCHANGED <<storeVars, run, cursor, batch, lastId, received>>

Write == StoreNext /\ UNCHANGED readerVars

ReaderStep(c) == Resume(c) \/ List(c) \/ Yield(c) \/ Check(c)

Next ==
    \/ Write
    \/ \E c \in Readers :
          \/ \E r \in Runs : Connect(c, r)
          \/ ReaderStep(c)
          \/ Drop(c)

\* A connected generator is resumed, and a client comes back for an end it has
\* not seen.  Nothing is assumed of the run.
Fairness == \A c \in Readers : WF_streamVars(ReaderStep(c))

Spec == Init /\ [][Next]_streamVars /\ Fairness

-----------------------------------------------------------------------------

\* "Disconnect/reconnect can continue without gaps within retention": until the
\* end of its run may have expired, a client has, over any number of
\* reconnections, every event of the log numbered at or before its
\* Last-Event-ID.  Pruning the older events, or a delta that arrives after the
\* end, gives no number behind a cursor to another event.
WithinRetention(r) == Terminal(r) => completedAt[r] + Retention >= now + Lag

NoGapBehindCursor ==
    \A c \in Readers : run[c] # NoRun /\ WithinRetention(run[c]) =>
        \A e \in events[run[c]] : e.sequence <= lastId[c] => e \in received[c]

\* The end a client has been shown is the end of the run, for good: no client
\* hears "completed" of a run another hears was cancelled.
ReceivedEndIsTrue ==
    \A c \in Readers : \A e \in received[c] :
        e.type \in TERMINAL_EVENT_TYPES =>
            Terminal(run[c]) /\ e.type = AnnouncedBy(status[run[c]])

\* "Replay then tail durable events until exactly one terminal event": a
\* stream that ended has delivered the run's terminal event.
StreamEndsWithTerminalEvent == \A c \in Readers : at[c] = "ended" => HasEnd(c)

\* A client that keeps resuming within the retention learns how its run ended,
\* although a single stream may end without saying so.
ResumingClientLearnsTheEnd ==
    \A c \in Readers, r \in Runs :
        run[c] = r /\ Terminal(r) ~> HasEnd(c) \/ ~ WithinRetention(r)
=============================================================================
