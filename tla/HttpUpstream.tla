---------------------------- MODULE HttpUpstream ----------------------------
(***************************************************************************)
(* The connection to one HTTP upstream (internal/upstream/http.go): one    *)
(* POST per call, the session id the server may expire at any time and the *)
(* one re-initialize CallTool makes for it, the long-lived GET stream with *)
(* its reconnects, and Close.                                              *)
(*                                                                         *)
(* The server hands out sessions 1, 2, ... and forgets them as it likes.   *)
(* What it pushes is an event of a session; ids grow over all sessions.    *)
(* Session 0 is the empty header.                                          *)
(***************************************************************************)
EXTENDS Naturals, Sequences, FiniteSetsExt

CONSTANTS
    Callers,        \* goroutines that make calls over this connection
    MaxSessions,    \* sessions the server hands out; it keeps the last one
    MaxFailures,    \* transient failures (5xx, broken connections)
    MaxEvents,      \* events the server pushes
    OffersStream,   \* whether the server answers the GET at all
    Kinds           \* what is called: "tool" (CallTool), "list" (any other method)

VARIABLES
    session,    \* c.sessionID
    ready,      \* the first handshake is complete
    call,       \* where each caller is, and what its request in flight carries
    runs,       \* times the server ran the caller's present call
    live,       \* sessions the server still knows
    minted,     \* sessions it has handed out
    failures,   \* transient failures so far
    events,     \* the session each event was pushed in
    stream,     \* the GET stream's goroutine
    carried,    \* the session its GET carries
    lastID,     \* its Last-Event-ID
    partial,    \* the event whose id line has been read and whose data has not
    handed,     \* the events handed to the registry, in order
    closing     \* Close: open, cancelled, waiting, returned

clientVars == <<session, ready, call, runs>>
serverVars == <<live, minted, failures>>
streamVars == <<stream, carried, lastID, partial, handed>>
vars == <<clientVars, serverVars, streamVars, events, closing>>

Sessions == 1..MaxSessions
Idle == [pc |-> "idle", kind |-> "tool", sid |-> 0, again |-> FALSE, status |-> "none"]
CallType ==
    [pc : {"idle", "posted", "asking", "answered", "initialize", "notify"},
     kind : {"tool", "list"}, sid : 0..MaxSessions, again : BOOLEAN,
     status : {"none", "asked", "ok", "expired", "refused", "failed"}]

TypeOK ==
    /\ session \in 0..MaxSessions /\ ready \in BOOLEAN
    /\ call \in [Callers -> CallType]
    /\ runs \in [Callers -> 0..2]
    /\ live \subseteq 1..minted /\ minted \in 0..MaxSessions
    /\ failures \in 0..MaxFailures
    /\ events \in Seq(Sessions) /\ Len(events) <= MaxEvents
    /\ stream \in {"none", "connect", "asked", "open", "backoff", "refused", "stopped"}
    /\ carried \in 0..MaxSessions
    /\ lastID \in 0..MaxEvents /\ partial \in 0..MaxEvents
    /\ handed \in Seq(1..MaxEvents)
    /\ closing \in {"open", "cancelled", "waitNone", "waitStream", "returned"}

Init ==
    /\ session = 0 /\ ready = FALSE
    /\ call = [c \in Callers |-> Idle]
    /\ runs = [c \in Callers |-> 0]
    /\ live = {} /\ minted = 0 /\ failures = 0
    /\ events = <<>>
    /\ stream = "none" /\ carried = 0 /\ lastID = 0 /\ partial = 0 /\ handed = <<>>
    /\ closing = "open"

-----------------------------------------------------------------------------
(* Calls. *)

Move(c, pc, fields) == call' = [call EXCEPT ![c] = [fields EXCEPT !.pc = pc]]
Carrying(c, sid)    == [call[c] EXCEPT !.sid = sid, !.status = "none"]

(* launch: the first Initialize, by nobody but the connection's maker. *)
Launch(c) ==
    /\ ~ready /\ session = 0 /\ closing = "open"
    /\ \A d \in Callers : call[d].pc = "idle"
    /\ Move(c, "initialize", [Idle EXCEPT !.kind = "list"])
    /\ UNCHANGED <<session, ready, runs, serverVars, streamVars, events, closing>>

(* CallTool, GetPrompt, ReadResource, ListTools...: post reads the session *)
(* id under c.mu and sends the request with it.                            *)
Call(c, kind) ==
    /\ ready /\ closing = "open"
    /\ call[c].pc = "idle"
    /\ Move(c, "posted", [Idle EXCEPT !.kind = kind, !.sid = session])
    /\ runs' = [runs EXCEPT ![c] = 0]
    /\ UNCHANGED <<session, ready, serverVars, streamVars, events, closing>>

Answer(c, status) == call' = [call EXCEPT ![c].pc = "answered", ![c].status = status]

(* The server's answer to a POST: it runs what a live session asks, says   *)
(* 404 to one it has forgotten and 400 to a request without one.  A POST   *)
(* that breaks may have run before.                                        *)
Serve(c) ==
    /\ call[c].pc = "posted"
    /\ \/ /\ call[c].sid \in live
          /\ runs' = [runs EXCEPT ![c] = @ + 1]
          /\ \/ Answer(c, "ok") /\ UNCHANGED failures
             \/ Answer(c, "failed") /\ failures < MaxFailures /\ failures' = failures + 1
       \/ /\ call[c].sid \notin live
          /\ Answer(c, IF call[c].sid = 0 THEN "refused" ELSE "expired")
          /\ UNCHANGED <<runs, failures>>
       \/ /\ failures < MaxFailures
          /\ failures' = failures + 1
          /\ Answer(c, "failed")
          /\ UNCHANGED runs
    /\ UNCHANGED <<session, ready, live, minted, streamVars, events, closing>>

(* readSSEResponse: on a tool call's own stream the server asks something  *)
(* before it answers, and reading goes on.                                 *)
Ask(c) ==
    /\ call[c].pc = "posted" /\ call[c].kind = "tool" /\ call[c].status = "none"
    /\ call[c].sid \in live
    /\ Move(c, "asking", [call[c] EXCEPT !.status = "asked"])
    /\ UNCHANGED <<session, ready, runs, serverVars, streamVars, events, closing>>

(* respond: the answer is a POST of its own, with the session id of this   *)
(* moment.  If that is not the asker's, the server never learns the        *)
(* answer and the call times out; the id is left alone.                    *)
Respond(c) ==
    /\ call[c].pc = "asking"
    /\ IF session = call[c].sid /\ session \in live /\ closing = "open"
       THEN Move(c, "posted", call[c])
       ELSE Answer(c, "failed")
    /\ UNCHANGED <<session, ready, runs, serverVars, streamVars, events, closing>>

(* A 404 is an expired session only if the connection has one by now. *)
Expired(c) == call[c].status = "expired" /\ session # 0

(* MUTANT of Receive: any failed call is repeated. *)
ReceiveRetrying(c) ==
    LET retry == call[c].status \in {"expired", "failed"} /\ session # 0 /\ ~call[c].again IN
    /\ call[c].pc = "answered"
    /\ session' = IF call[c].status = "expired" THEN 0 ELSE session
    /\ IF retry /\ call[c].kind = "tool" THEN Move(c, "initialize", Carrying(c, 0))
                                         ELSE Move(c, "idle", Idle)
    /\ UNCHANGED <<ready, runs, serverVars, streamVars, events, closing>>

(* call on an answer: a 404 clears whatever session id the connection has  *)
(* by now.  CallTool alone re-initializes if it was an expired session,    *)
(* once; every other method returns the error.                             *)
Receive(c) ==
    /\ call[c].pc = "answered"
    /\ session' = IF call[c].status = "expired" THEN 0 ELSE session
    /\ IF Expired(c) /\ call[c].kind = "tool" /\ ~call[c].again
       THEN Move(c, "initialize", Carrying(c, 0))
       ELSE Move(c, "idle", Idle)
    /\ UNCHANGED <<ready, runs, serverVars, streamVars, events, closing>>

(* The initialize request: the server hands out a session (at the bound,   *)
(* the last one again, which it keeps), or fails.                          *)
Initialize(c) ==
    LET s == Min({minted + 1, MaxSessions}) IN
    /\ call[c].pc = "initialize"
    /\ \/ /\ minted' = s /\ session' = s
          /\ live' = live \cup {s}
          /\ Move(c, "notify", Carrying(c, s))
          /\ UNCHANGED failures
       \/ /\ failures < MaxFailures
          /\ failures' = failures + 1
          /\ Move(c, "idle", Idle)
          /\ UNCHANGED <<session, live, minted>>
    /\ UNCHANGED <<ready, runs, streamVars, events, closing>>

(* startSSEStream: at most once, and never after streamCancel. *)
StartStream ==
    IF stream = "none" /\ closing = "open" THEN stream' = "connect" ELSE UNCHANGED stream

(* notifications/initialized ends the handshake: the stream is started and *)
(* CallTool repeats its call in the new session.  It may fail, which fails *)
(* the call that re-initialized and keeps the session.                     *)
Initialized(c) ==
    /\ call[c].pc = "notify"
    /\ \/ /\ session \in live
          /\ ready' = TRUE
          /\ StartStream
          /\ IF call[c].kind = "tool"
             THEN Move(c, "posted", [Carrying(c, session) EXCEPT !.again = TRUE])
             ELSE Move(c, "idle", Idle)
          /\ UNCHANGED failures
       \/ /\ session \notin live
          /\ Move(c, "idle", Idle)
          /\ UNCHANGED <<ready, stream, failures>>
       \/ /\ failures < MaxFailures
          /\ failures' = failures + 1
          /\ Move(c, "idle", Idle)
          /\ UNCHANGED <<ready, stream>>
    /\ UNCHANGED <<session, runs, live, minted, carried, lastID, partial, handed, events, closing>>

-----------------------------------------------------------------------------
(* The GET stream. *)

(* streamSSEOnce: the request carries the session id of this moment. *)
StreamGet ==
    /\ stream = "connect" /\ closing = "open"
    /\ stream' = "asked" /\ carried' = session
    /\ UNCHANGED <<clientVars, serverVars, lastID, partial, handed, events, closing>>

(* 200, 405, 404 to a session the server has forgotten, 400 to none, or a  *)
(* transient failure; only an explicit refusal ends the goroutine.         *)
StreamAnswer ==
    /\ stream = "asked" /\ closing = "open"
    /\ \/ /\ stream' = CASE ~OffersStream    -> "refused"
                         [] carried \in live -> "open"
                         [] OTHER            -> "backoff"
          /\ UNCHANGED failures
       \/ /\ failures < MaxFailures
          /\ failures' = failures + 1
          /\ stream' = "backoff"
    /\ UNCHANGED <<clientVars, live, minted, carried, lastID, partial, handed, events, closing>>

(* runSSEStream after the backoff, which nothing shortens but Close. *)
Reconnect ==
    /\ stream = "backoff" /\ closing = "open"
    /\ stream' = "connect"
    /\ UNCHANGED <<clientVars, serverVars, carried, lastID, partial, handed, events, closing>>

(* What the server still has to send on this stream: the session's events  *)
(* after the Last-Event-ID it was opened with.                             *)
Unsent == {k \in 1..Len(events) : events[k] = carried /\ k > lastID}

(* scanSSEEvents: an event's id is taken as soon as its line is read; its  *)
(* data is handed over at the blank line that ends it.                     *)
ReadID ==
    /\ stream = "open" /\ closing = "open"
    /\ partial = 0 /\ Unsent # {}
    /\ lastID' = Min(Unsent) /\ partial' = Min(Unsent)
    /\ UNCHANGED <<clientVars, serverVars, stream, carried, handed, events, closing>>

(* dispatchStreamEvent, of a notification or a request: to the registry. *)
ReadData ==
    /\ partial # 0 /\ stream = "open"
    /\ handed' = Append(handed, partial)
    /\ partial' = 0
    /\ UNCHANGED <<clientVars, serverVars, stream, carried, lastID, events, closing>>

(* The stream drops: the server forgot the session, or the connection      *)
(* broke, in the middle of an event perhaps.  A read error returns before  *)
(* what was accumulated is dispatched, and the id is kept.                 *)
StreamEnds ==
    /\ stream = "open" /\ closing = "open"
    /\ \/ carried \notin live /\ UNCHANGED failures
       \/ failures < MaxFailures /\ failures' = failures + 1
    /\ stream' = "backoff" /\ partial' = 0
    /\ UNCHANGED <<clientVars, live, minted, carried, lastID, handed, events, closing>>

(* The cancelled context ends the goroutine wherever it is, once the frame *)
(* in its hands has been dispatched.                                       *)
StreamStops ==
    /\ closing # "open"
    /\ stream \in {"connect", "asked", "open", "backoff"}
    /\ stream' = "stopped" /\ partial' = 0
    /\ UNCHANGED <<clientVars, serverVars, carried, lastID, handed, events, closing>>

-----------------------------------------------------------------------------
(* The server on its own, and Close. *)

Expire(s) ==
    /\ s \in live /\ s # MaxSessions
    /\ live' = live \ {s}
    /\ UNCHANGED <<clientVars, minted, failures, streamVars, events, closing>>

Push(s) ==
    /\ s \in live
    /\ Len(events) < MaxEvents
    /\ events' = Append(events, s)
    /\ UNCHANGED <<clientVars, serverVars, streamVars, closing>>

(* Close in its three steps: cancel, read streamDone under c.mu, wait. *)
Cancel ==
    /\ closing = "open"
    /\ closing' = "cancelled"
    /\ UNCHANGED <<clientVars, serverVars, streamVars, events>>

ReadDone ==
    /\ closing = "cancelled"
    /\ closing' = IF stream = "none" THEN "waitNone" ELSE "waitStream"
    /\ UNCHANGED <<clientVars, serverVars, streamVars, events>>

Closed ==
    /\ \/ closing = "waitNone"
       \/ closing = "waitStream" /\ stream \in {"refused", "stopped"}
    /\ closing' = "returned"
    /\ UNCHANGED <<clientVars, serverVars, streamVars, events>>

-----------------------------------------------------------------------------
Progress(c) == Serve(c) \/ Ask(c) \/ Respond(c) \/ Receive(c) \/ Initialize(c) \/ Initialized(c)
Stream ==
    StreamGet \/ StreamAnswer \/ Reconnect \/ ReadID \/ ReadData \/ StreamEnds \/ StreamStops
Next ==
    \/ \E c \in Callers : Launch(c) \/ Progress(c)
    \/ \E c \in Callers, kind \in Kinds : Call(c, kind)
    \/ Stream
    \/ \E s \in Sessions : Expire(s) \/ Push(s)
    \/ Cancel \/ ReadDone \/ Closed

Safety == Init /\ [][Next]_vars

(* Goroutines run, requests are answered or time out, and clients go on    *)
(* calling tools.                                                          *)
Fairness ==
    /\ \A c \in Callers : WF_vars(Progress(c)) /\ SF_vars(Call(c, "tool"))
    /\ WF_vars(Stream)

Spec == Safety /\ Fairness

-----------------------------------------------------------------------------
(* A call is run at most once by the server, whatever the retry after an   *)
(* expired session does (Conn.CallTool).                                   *)
ExecutedOnce == \A c \in Callers : runs[c] <= 1

(* When Close has returned no stream goroutine runs or will run, however   *)
(* it raced the handshake that starts it (startSSEStream, Close).          *)
StreamEndsWithClose ==
    closing = "returned" => stream \in {"none", "refused", "stopped"}

(* A server that offers the stream is never given up on, whatever becomes  *)
(* of its sessions (runSSEStream, streamSSEOnce).                          *)
PushIsNotGivenUp == OffersStream => stream # "refused"

(* No event reaches the registry twice, nor out of order (Last-Event-ID). *)
HandedInOrder ==
    \A i \in 1..Len(handed) - 1 : handed[i] < handed[i + 1]

(* A lost session is replaced by a new one (errSessionExpired), as long as *)
(* tools are called.                                                       *)
LostSessionIsReplaced ==
    ready /\ session = 0 ~> session # 0 \/ closing # "open"
=============================================================================
