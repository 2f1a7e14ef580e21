------------------------------ MODULE Sessions ------------------------------
(***************************************************************************)
(* The client-facing HTTP transport (session.go, http.go,                  *)
(* http_serverreq.go): sessions, their GET streams, the delivery of an     *)
(* upstream's question to one stream of one session, the client's answer   *)
(* on a POST, and everything that can come in between: the stream breaks,  *)
(* the session is deleted or expires, the registry gives the question up.  *)
(*                                                                         *)
(* One capability stands for all: a session declared it or did not.  The   *)
(* registry is what the transport sees of it: `parked', the questions it   *)
(* still waits for, and the channel it publishes them on.  Broadcast       *)
(* notifications, and requests that concern no session, are left out.      *)
(***************************************************************************)
EXTENDS Naturals, Sequences, FiniteSets

CONSTANTS
    Ids,          \* session ids; random, so none is minted twice
    Streams,      \* GET requests
    Posts,        \* POST requests being handled at the same time
    Requests,     \* gateway ids of the questions
    MaxSessions, MaxStreams,
    StreamBuffer, \* serverReqStreamBuffer
    Nobody, GivenUp

ASSUME StreamsAssumption == IsFiniteSet(Streams)
ASSUME NobodyAssumption == Nobody \notin Ids \cup Streams \cup Requests
ASSUME GivenUpAssumption == GivenUp \notin Ids \cup {Nobody}
ASSUME BoundsAssumption == {MaxSessions, MaxStreams, StreamBuffer} \subseteq Nat \ {0}

VARIABLES       \* sessionStore
    live, gone, \* sessions in the map, and removed from it
    caps,       \* [Ids -> BOOLEAN]
    tally,      \* httpSession.streams
    reqStreams, \* delivery channels of its open streams
    pendingReqs,\* [Ids -> SUBSET Requests]
    owner,      \* reqOwners
    orphaned, refusing  \* left behind by removed sessions; lifted out by a drain

VARIABLES       \* handlers
    at, serving, queue, holding,    \* of each GET: place, session, channel, event in hand
    pc, who, what,                  \* of each POST: place, session, question answered
    router, routed, stale           \* routeServerRequests

VARIABLES       \* the registry and Serve
    started,    \* the lazy bring-up
    pinned,     \* the capability was declared upstream
    asked, published, parked,
    phase

VARIABLES       \* history, of each question
    put,        \* the session whose stream was given it
    shown,      \* it has been written
    result      \* whose answer settled it

store == <<live, gone, caps, tally, reqStreams, pendingReqs, owner, orphaned, refusing>>
gets == <<at, serving, queue, holding>>
posts == <<pc, who, what>>
routing == <<router, routed, stale>>
registry == <<started, pinned, asked, published, parked, phase, result>>
vars == <<store, gets, posts, routing, registry, put, shown>>

Init ==
    /\ live = {} /\ gone = {}
    /\ caps = [s \in Ids |-> FALSE]
    /\ tally = [s \in Ids |-> 0]
    /\ reqStreams = [s \in Ids |-> {}]
    /\ pendingReqs = [s \in Ids |-> {}]
    /\ owner = [r \in Requests |-> Nobody]
    /\ orphaned = {} /\ refusing = {}
    /\ at = [t \in Streams |-> "off"]
    /\ serving = [t \in Streams |-> Nobody]
    /\ queue = [t \in Streams |-> <<>>]
    /\ holding = [t \in Streams |-> Nobody]
    /\ pc = [p \in Posts |-> "idle"]
    /\ who = [p \in Posts |-> Nobody]
    /\ what = [p \in Posts |-> Nobody]
    /\ router = "waiting" /\ routed = Nobody /\ stale = {}
    /\ started = "down" /\ pinned = FALSE
    /\ asked = {} /\ published = {} /\ parked = {}
    /\ phase = "serving"
    /\ put = [r \in Requests |-> Nobody]
    /\ shown = [r \in Requests |-> FALSE]
    /\ result = [r \in Requests |-> Nobody]

(* removeLocked, of each session of S; their streams see done closed. *)
Forget(S) ==
    LET left == UNION {pendingReqs[s] : s \in S} IN
    /\ gone' = gone \cup S
    /\ owner' = [r \in Requests |-> IF r \in left THEN Nobody ELSE owner[r]]
    /\ orphaned' = orphaned \cup left
    /\ pendingReqs' = [s \in Ids |-> IF s \in S THEN {} ELSE pendingReqs[s]]

(* expiredLocked: the idle time is left out, so a session that no stream   *)
(* keeps alive may be found expired at any time.                           *)
MayExpire(s) == s \in live /\ tally[s] = 0

Expire(s) ==
    /\ MayExpire(s)
    /\ live' = live \ {s}
    /\ Forget({s})
    /\ UNCHANGED <<caps, tally, reqStreams, refusing>>

(* takeServerReq by session s. *)
Disown(s, r) ==
    IF owner[r] = s
    THEN /\ owner' = [owner EXCEPT ![r] = Nobody]
         /\ pendingReqs' = [pendingReqs EXCEPT ![s] = @ \ {r}]
    ELSE UNCHANGED <<owner, pendingReqs>>

(* Registry.RefusePendingServerReq, of each of R that it still has. *)
RefusePending(R) ==
    /\ parked' = parked \ R
    /\ result' = [r \in Requests |-> IF r \in R \cap parked THEN GivenUp ELSE result[r]]

Step(p, place) == pc' = [pc EXCEPT ![p] = place]
Finish(p) ==    \* the POST is answered
    /\ Step(p, "idle")
    /\ who' = [who EXCEPT ![p] = Nobody]
    /\ what' = [what EXCEPT ![p] = Nobody]
Go(t, place) == at' = [at EXCEPT ![t] = place]
restOfStore == <<live, gone, caps, tally, reqStreams, orphaned, refusing>>

-----------------------------------------------------------------------------
(* POST and DELETE. *)

(* handlePost, an initialize without a session: create sweeps the expired, *)
(* then registers a new session or answers 503.                            *)
Create(p, s) ==
    /\ phase = "serving"
    /\ pc[p] = "idle"
    /\ s \notin live \cup gone
    /\ \E swept \in SUBSET {x \in live : MayExpire(x)} :
        /\ Forget(swept)
        /\ IF Cardinality(live \ swept) >= MaxSessions
           THEN live' = live \ swept /\ UNCHANGED <<caps, posts>>
           ELSE /\ live' = (live \ swept) \cup {s}
                /\ \E declared \in BOOLEAN : caps' = [caps EXCEPT ![s] = declared]
                /\ Step(p, "starting")
                /\ who' = [who EXCEPT ![p] = s]
                /\ UNCHANGED what
    /\ UNCHANGED <<tally, reqStreams, refusing, gets, routing, registry, put, shown>>

(* ensureRegistry: the first initialize to come here starts the registry.  *)
EnsureRegistry(p) ==
    /\ pc[p] = "starting"
    /\ started = "down"
    /\ pinned' = caps[who[p]]
    /\ started' = "starting"
    /\ UNCHANGED <<store, gets, posts, routing, asked, published, parked, phase, result, put, shown>>

(* handleModernPost: no session, but it too may be the first to start the  *)
(* registry, and then declares what its own _meta declares.                *)
ModernPost ==
    /\ phase = "serving"
    /\ started = "down"
    /\ pinned' \in BOOLEAN
    /\ started' = "starting"
    /\ UNCHANGED <<store, gets, posts, routing, asked, published, parked, phase, result, put, shown>>

RegistryStarts ==
    /\ started = "starting"
    /\ started' \in {"up", "failed"}
    /\ UNCHANGED <<store, gets, posts, routing, pinned, asked, published, parked, phase, result, put, shown>>

(* Everybody else has waited; the reply carries the session id.  A failed  *)
(* bring-up is answered too, and ends Serve.                               *)
ReplyInitialized(p) ==
    /\ pc[p] = "starting"
    /\ started \in {"up", "failed"}
    /\ Finish(p)
    /\ UNCHANGED <<store, gets, routing, registry, put, shown>>

(* The client knows s once its initialize has been answered. *)
Known(s) ==
    /\ phase # "stopped"
    /\ s \in live
    /\ \A p \in Posts : pc[p] = "starting" => who[p] # s

(* handlePost on a live session: touched now, its body read later. *)
Touch(p, s, place, r) ==
    /\ pc[p] = "idle"
    /\ Known(s)
    /\ \/ /\ Step(p, place)
          /\ who' = [who EXCEPT ![p] = s] /\ what' = [what EXCEPT ![p] = r]
          /\ UNCHANGED store
       \/ Expire(s) /\ UNCHANGED posts
    /\ UNCHANGED <<gets, routing, registry, put, shown>>

(* Another initialize over the session ... *)
PostInitialize(p, s) == Touch(p, s, "reinit", Nobody)

(* ... and an answer, perhaps to a question put to another session. *)
PostAnswer(p, s, r) == shown[r] /\ Touch(p, s, "answer", r)

(* MUTANT of Reinit: that a session was found by touch is enough. *)
ReinitUnchecked(p) ==
    LET s == who[p] IN
    /\ pc[p] = "reinit"
    /\ Finish(p)
    /\ live' = live \cup {s}
    /\ \E declared \in BOOLEAN : caps' = [caps EXCEPT ![s] = declared]
    /\ UNCHANGED <<gone, tally, reqStreams, pendingReqs, owner, orphaned, refusing>>
    /\ UNCHANGED <<gets, routing, registry, put, shown>>

(* reinit: unless the session has been removed since. *)
Reinit(p) ==
    LET s == who[p] IN
    /\ pc[p] = "reinit"
    /\ Finish(p)
    /\ IF s \in live
       THEN \E declared \in BOOLEAN : caps' = [caps EXCEPT ![s] = declared]
       ELSE UNCHANGED caps
    /\ UNCHANGED <<live, gone, tally, reqStreams, pendingReqs, owner, orphaned, refusing>>
    /\ UNCHANGED <<gets, routing, registry, put, shown>>

(* MUTANT of TakeServerReq: whoever holds a session may answer. *)
TakeUnowned(p) ==
    LET r == what[p]
        s == owner[r]
    IN
    /\ pc[p] = "answer"
    /\ IF s # Nobody THEN Step(p, "claimed") /\ UNCHANGED <<who, what>> ELSE Finish(p)
    /\ Disown(s, r)
    /\ UNCHANGED <<restOfStore, gets, routing, registry, put, shown>>

(* takeServerReq: only the owner claims the question; any other answer is  *)
(* dropped.                                                                *)
TakeServerReq(p) ==
    LET s == who[p]
        r == what[p]
    IN
    /\ pc[p] = "answer"
    /\ IF owner[r] = s THEN Step(p, "claimed") /\ UNCHANGED <<who, what>> ELSE Finish(p)
    /\ Disown(s, r)
    /\ UNCHANGED <<restOfStore, gets, routing, registry, put, shown>>

(* RouteUpstreamResponse: the registry decides whether it is too late. *)
RouteAnswer(p) ==
    LET r == what[p] IN
    /\ pc[p] = "claimed"
    /\ Finish(p)
    /\ parked' = parked \ {r}
    /\ result' = [result EXCEPT ![r] = IF r \in parked THEN who[p] ELSE @]
    /\ UNCHANGED <<store, gets, routing, started, pinned, asked, published, phase, put, shown>>

(* MUTANT of Terminate: the session's questions are not handed over. *)
TerminateForgetting(s) ==
    /\ Known(s)
    /\ live' = live \ {s}
    /\ gone' = gone \cup {s}
    /\ owner' = [r \in Requests |-> IF owner[r] = s THEN Nobody ELSE owner[r]]
    /\ pendingReqs' = [pendingReqs EXCEPT ![s] = {}]
    /\ UNCHANGED <<caps, tally, reqStreams, orphaned, refusing, gets, posts, routing, registry, put, shown>>

(* handleDelete, terminate. *)
Terminate(s) ==
    /\ Known(s)
    /\ live' = live \ {s}
    /\ Forget({s})
    /\ UNCHANGED <<caps, tally, reqStreams, refusing, gets, posts, routing, registry, put, shown>>

(* drainOrphaned, after create, touch and terminate: with no lock held, so *)
(* the ids are lifted out first and refused one by one.                    *)
Drain ==
    /\ orphaned # {}
    /\ orphaned' = {}
    /\ refusing' = refusing \cup orphaned
    /\ UNCHANGED <<live, gone, caps, tally, reqStreams, pendingReqs, owner>>
    /\ UNCHANGED <<gets, posts, routing, registry, put, shown>>

RefuseOrphaned(r) ==
    /\ r \in refusing
    /\ refusing' = refusing \ {r}
    /\ RefusePending({r})
    /\ UNCHANGED <<live, gone, caps, tally, reqStreams, pendingReqs, owner, orphaned>>
    /\ UNCHANGED <<gets, posts, routing, started, pinned, asked, published, phase, put, shown>>

-----------------------------------------------------------------------------
(* GET: a stream's handler. *)

(* requireSession. *)
OpenStream(t, s) ==
    /\ at[t] = "off"
    /\ phase = "serving"
    /\ Known(s)
    /\ \/ Go(t, "touched") /\ serving' = [serving EXCEPT ![t] = s] /\ UNCHANGED store
       \/ Expire(s) /\ UNCHANGED <<at, serving>>
    /\ UNCHANGED <<queue, holding, posts, routing, registry, put, shown>>

(* MUTANT of StreamStarted: off by one. *)
StreamStartedPastCap(t) ==
    LET s == serving[t] IN
    /\ at[t] = "touched"
    /\ IF tally[s] > MaxStreams
       THEN Go(t, "ended") /\ UNCHANGED tally
       ELSE /\ Go(t, "counted")
            /\ tally' = [tally EXCEPT ![s] = @ + 1]
    /\ UNCHANGED <<live, gone, caps, reqStreams, pendingReqs, owner, orphaned, refusing>>
    /\ UNCHANGED <<serving, queue, holding, posts, routing, registry, put, shown>>

(* streamStarted, the cap on a session's streams. *)
StreamStarted(t) ==
    LET s == serving[t] IN
    /\ at[t] = "touched"
    /\ IF tally[s] >= MaxStreams
       THEN Go(t, "ended") /\ UNCHANGED tally
       ELSE /\ Go(t, "counted")
            /\ tally' = [tally EXCEPT ![s] = @ + 1]
    /\ UNCHANGED <<live, gone, caps, reqStreams, pendingReqs, owner, orphaned, refusing>>
    /\ UNCHANGED <<serving, queue, holding, posts, routing, registry, put, shown>>

AddReqStream(t) ==
    /\ at[t] = "counted"
    /\ Go(t, "open")
    /\ reqStreams' = [reqStreams EXCEPT ![serving[t]] = @ \cup {t}]
    /\ UNCHANGED <<live, gone, caps, tally, pendingReqs, owner, orphaned, refusing>>
    /\ UNCHANGED <<serving, queue, holding, posts, routing, registry, put, shown>>

(* handleSSE's loop takes a question ... *)
TakeEvent(t) ==
    /\ at[t] = "open"
    /\ queue[t] # <<>>
    /\ holding' = [holding EXCEPT ![t] = Head(queue[t])]
    /\ queue' = [queue EXCEPT ![t] = Tail(@)]
    /\ Go(t, "writing")
    /\ UNCHANGED <<store, serving, posts, routing, registry, put, shown>>

(* ... and writes it, ...                                                  *)
WriteEvent(t) ==
    /\ at[t] = "writing"
    /\ shown' = [shown EXCEPT ![holding[t]] = TRUE]
    /\ holding' = [holding EXCEPT ![t] = Nobody]
    /\ Go(t, "open")
    /\ UNCHANGED <<store, serving, queue, posts, routing, registry, put>>

(* ... or cannot: refuseServerReq takes it back.  A broken write may have  *)
(* reached the client all the same.                                        *)
WriteFails(t) ==
    LET r == holding[t] IN
    /\ at[t] = "writing"
    /\ Go(t, "refusing")
    /\ shown' \in {shown, [shown EXCEPT ![r] = TRUE]}
    /\ Disown(serving[t], r)
    /\ UNCHANGED <<restOfStore, serving, queue, holding, posts, routing, registry, put>>

(* An event that could not be encoded leaves the stream open. *)
RefuseUnwritten(t) ==
    /\ at[t] = "refusing"
    /\ \/ Go(t, "open")
       \/ Go(t, "closing")
    /\ holding' = [holding EXCEPT ![t] = Nobody]
    /\ RefusePending({holding[t]})
    /\ UNCHANGED <<store, serving, queue, posts, routing, started, pinned, asked, published, phase, put, shown>>

(* The client disconnects, the session is gone, Serve stops. *)
CloseStream(t) ==
    /\ at[t] = "open"
    /\ Go(t, "closing")
    /\ UNCHANGED <<store, serving, queue, holding, posts, routing, registry, put, shown>>

(* MUTANT of RemoveReqStream: what is in the channel is not refused. *)
RemoveUndrained(t) ==
    LET s == serving[t] IN
    /\ at[t] = "closing"
    /\ Go(t, "draining")
    /\ reqStreams' = [reqStreams EXCEPT ![s] = @ \ {t}]
    /\ queue' = [queue EXCEPT ![t] = <<>>]
    /\ UNCHANGED <<live, gone, caps, tally, pendingReqs, owner, orphaned, refusing>>
    /\ UNCHANGED <<serving, holding, posts, routing, registry, put, shown>>

(* The deferred calls: the channel is deregistered first ... *)
RemoveReqStream(t) ==
    LET s == serving[t] IN
    /\ at[t] = "closing"
    /\ Go(t, "draining")
    /\ reqStreams' = [reqStreams EXCEPT ![s] = @ \ {t}]
    /\ UNCHANGED <<live, gone, caps, tally, pendingReqs, owner, orphaned, refusing>>
    /\ UNCHANGED <<serving, queue, holding, posts, routing, registry, put, shown>>

(* ... refuseQueued then refuses what is left in it ... *)
RefuseQueued(t) ==
    LET r == Head(queue[t]) IN
    /\ at[t] = "draining"
    /\ queue[t] # <<>>
    /\ queue' = [queue EXCEPT ![t] = Tail(@)]
    /\ holding' = [holding EXCEPT ![t] = r]
    /\ Go(t, "dropping")
    /\ Disown(serving[t], r)
    /\ UNCHANGED <<restOfStore, serving, posts, routing, registry, put, shown>>

RefuseDropped(t) ==
    /\ at[t] = "dropping"
    /\ Go(t, "draining")
    /\ holding' = [holding EXCEPT ![t] = Nobody]
    /\ RefusePending({holding[t]})
    /\ UNCHANGED <<store, serving, queue, posts, routing, started, pinned, asked, published, phase, put, shown>>

(* ... and the session may expire again. *)
StreamEnded(t) ==
    LET s == serving[t] IN
    /\ at[t] = "draining"
    /\ queue[t] = <<>>
    /\ Go(t, "ended")
    /\ serving' = [serving EXCEPT ![t] = Nobody]
    /\ tally' = [tally EXCEPT ![s] = @ - 1]
    /\ UNCHANGED <<live, gone, caps, reqStreams, pendingReqs, owner, orphaned, refusing>>
    /\ UNCHANGED <<queue, holding, posts, routing, registry, put, shown>>

-----------------------------------------------------------------------------
(* routeServerRequests, and what the registry does meanwhile. *)

(* An upstream that was told of the capability asks. *)
Publish(r) ==
    /\ started = "up"
    /\ pinned
    /\ phase = "serving"
    /\ r \notin asked
    /\ asked' = asked \cup {r}
    /\ published' = published \cup {r}
    /\ parked' = parked \cup {r}
    /\ UNCHANGED <<store, gets, posts, routing, started, pinned, phase, result, put, shown>>

(* routeOneServerRequest: sweepServerReqs looks for records of questions   *)
(* the registry no longer has ...                                          *)
Sweep(r) ==
    /\ router = "waiting"
    /\ r \in published
    /\ published' = published \ {r}
    /\ router' = "sweeping"
    /\ routed' = r
    /\ stale' = {x \in Requests : owner[x] # Nobody /\ x \notin parked}
    /\ UNCHANGED <<store, gets, posts, started, pinned, asked, parked, phase, result, put, shown>>

(* ... dropServerReqs forgets them ... *)
DropStale ==
    /\ router = "sweeping"
    /\ router' = "routing"
    /\ stale' = {}
    /\ owner' = [r \in Requests |-> IF r \in stale THEN Nobody ELSE owner[r]]
    /\ pendingReqs' = [s \in Ids |-> pendingReqs[s] \ stale]
    /\ UNCHANGED <<restOfStore, gets, posts, routed, registry, put, shown>>

(* The streams deliverServerReq tries; which one of them is first, by the  *)
(* sessions' latest activity and the streams' age, is left open.           *)
Targets == {t \in Streams : /\ Len(queue[t]) < StreamBuffer
                            /\ \E s \in live : caps[s] /\ t \in reqStreams[s]}

(* ... and deliverServerReq puts the question to one of them, in one step  *)
(* with the record of its owner ...                                        *)
DeliverServerReq(t) ==
    LET s == serving[t] IN
    /\ router = "routing"
    /\ t \in Targets
    /\ queue' = [queue EXCEPT ![t] = Append(@, routed)]
    /\ put' = [put EXCEPT ![routed] = s]
    /\ owner' = [owner EXCEPT ![routed] = s]
    /\ pendingReqs' = [pendingReqs EXCEPT ![s] = @ \cup {routed}]
    /\ router' = "waiting"
    /\ routed' = Nobody
    /\ UNCHANGED <<restOfStore, at, serving, holding, posts, stale, registry, shown>>

(* ... or there is nobody to ask. *)
RefuseUndelivered ==
    /\ router = "routing"
    /\ Targets = {}
    /\ router' = "waiting"
    /\ routed' = Nobody
    /\ RefusePending({routed})
    /\ UNCHANGED <<store, gets, posts, stale, started, pinned, asked, published, phase, put, shown>>

(* The registry's own deadline, or the asker's connection is gone. *)
RegistryGivesUp(r) ==
    /\ r \in parked
    /\ RefusePending({r})
    /\ UNCHANGED <<store, gets, posts, routing, started, pinned, asked, published, phase, put, shown>>

(* Serve is told to stop, or the bring-up failed: streams and the router   *)
(* end with their context, and the registry is closed.                     *)
StopServing ==
    /\ phase = "serving"
    /\ phase' = "stopping"
    /\ UNCHANGED <<store, gets, posts, routing, started, pinned, asked, published, parked, result, put, shown>>

CloseRegistry ==
    /\ phase = "stopping"
    /\ phase' = "stopped"
    /\ RefusePending(parked)
    /\ published' = {}
    /\ UNCHANGED <<store, gets, posts, routing, started, pinned, asked, put, shown>>

-----------------------------------------------------------------------------
Handle(p) ==
    \/ EnsureRegistry(p) \/ ReplyInitialized(p)
    \/ Reinit(p) \/ TakeServerReq(p) \/ RouteAnswer(p)

Serve(t) ==     \* steps of a stream's handler that wait for nobody
    \/ StreamStarted(t) \/ AddReqStream(t) \/ TakeEvent(t)
    \/ WriteEvent(t) \/ WriteFails(t) \/ RefuseUnwritten(t)
    \/ RemoveReqStream(t) \/ RefuseQueued(t) \/ RefuseDropped(t) \/ StreamEnded(t)

Route ==
    \/ \E r \in Requests : Sweep(r)
    \/ DropStale \/ RefuseUndelivered
    \/ \E t \in Streams : DeliverServerReq(t)

Client ==
    \/ ModernPost
    \/ \E s \in Ids : Terminate(s)
    \/ \E p \in Posts, s \in Ids :
          \/ Create(p, s) \/ PostInitialize(p, s)
          \/ \E r \in Requests : PostAnswer(p, s, r)
    \/ \E t \in Streams, s \in Ids : OpenStream(t, s)

Next ==
    \/ Client
    \/ \E p \in Posts : Handle(p)
    \/ \E t \in Streams : Serve(t) \/ CloseStream(t)
    \/ Drain \/ Route \/ RegistryStarts
    \/ \E r \in Requests : RefuseOrphaned(r) \/ Publish(r) \/ RegistryGivesUp(r)
    \/ StopServing \/ CloseRegistry

Safety == Init /\ [][Next]_vars

(* Handlers and the router run; a write ends by its deadline.  Nothing is  *)
(* assumed of the client, nor of the registry's deadline.                  *)
Fairness ==
    /\ \A p \in Posts : WF_vars(Handle(p))
    /\ \A t \in Streams : WF_vars(Serve(t))
    /\ \A t \in Streams : WF_vars(serving[t] \notin live /\ CloseStream(t))
    /\ WF_vars(Drain) /\ WF_vars(Route)
    /\ \A r \in Requests : WF_vars(RefuseOrphaned(r))

Spec == Safety /\ Fairness

-----------------------------------------------------------------------------
(* Properties *)

Types ==
    /\ live \subseteq Ids /\ gone \subseteq Ids
    /\ caps \in [Ids -> BOOLEAN]
    /\ reqStreams \in [Ids -> SUBSET Streams]
    /\ orphaned \subseteq Requests /\ refusing \subseteq Requests
    /\ at \in [Streams -> {"off", "touched", "counted", "open", "writing", "refusing",
                           "closing", "draining", "dropping", "ended"}]
    /\ serving \in [Streams -> Ids \cup {Nobody}]
    /\ queue \in [Streams -> Seq(Requests)]
    /\ holding \in [Streams -> Requests \cup {Nobody}]
    /\ pc \in [Posts -> {"idle", "starting", "reinit", "answer", "claimed"}]
    /\ who \in [Posts -> Ids \cup {Nobody}] /\ what \in [Posts -> Requests \cup {Nobody}]
    /\ router \in {"waiting", "sweeping", "routing"}
    /\ routed \in Requests \cup {Nobody} /\ stale \subseteq Requests
    /\ started \in {"down", "starting", "up", "failed"} /\ pinned \in BOOLEAN
    /\ asked \subseteq Requests /\ published \subseteq asked /\ parked \subseteq asked
    /\ phase \in {"serving", "stopping", "stopped"}
    /\ put \in [Requests -> Ids \cup {Nobody}] /\ shown \in [Requests -> BOOLEAN]
    /\ result \in [Requests -> Ids \cup {Nobody, GivenUp}]

OwnersMirrored ==
    /\ owner \in [Requests -> live \cup {Nobody}]
    /\ pendingReqs = [s \in Ids |-> {r \in Requests : owner[r] = s}]

TallyBounded == tally \in [Ids -> 0 .. MaxStreams]

(* Every variable has its type; reqOwners and each session's pendingReqs   *)
(* mirror one another, and only a live session owns anything; and no       *)
(* session has more streams than its cap.                                  *)
TypeOK == Types /\ OwnersMirrored /\ TallyBounded

(* A handler that has the question and will still write or refuse it. *)
InHandler(r) ==
    \E t \in Streams :
        \/ holding[t] = r
        \/ /\ \E i \in DOMAIN queue[t] : queue[t][i] = r
           /\ at[t] \in {"open", "writing", "refusing", "closing", "draining", "dropping"}

Accounted(r) ==
    \/ r \in published \/ routed = r
    \/ owner[r] # Nobody /\ (shown[r] \/ InHandler(r))
    \/ r \in orphaned \cup refusing
    \/ \E t \in Streams : holding[t] = r /\ at[t] \in {"refusing", "dropping"}
    \/ \E p \in Posts : pc[p] = "claimed" /\ what[p] = r

(* A question the registry waits for is never nobody's: its session lives  *)
(* and has been shown it or will be, or somebody is about to settle it.    *)
NoneStranded == \A r \in parked : Accounted(r)

(* A session that has been removed, by its client or by its idle timeout,  *)
(* is never back, nor given another client's identity, though a request    *)
(* that found it alive may still be reading its body.                      *)
NoResurrection ==
    [][\A s \in gone : s \notin live' /\ caps'[s] = caps[s]]_vars

U == INSTANCE Unicast WITH Sessions <- Ids

(* A question is put to one session at most, and no other session's answer *)
(* reaches the upstream.                                                   *)
ImplementsUnicast == U!Spec

(* Without waiting for the registry's own deadline, every question is      *)
(* settled or comes to lie before the client of a live session: none is    *)
(* left to a broken stream, a deleted session or a closing handler.        *)
AwaitsClient(r) == shown[r] /\ owner[r] # Nobody

SettledOrAwaited == \A r \in Requests : r \in parked ~> r \notin parked \/ AwaitsClient(r)
=============================================================================
