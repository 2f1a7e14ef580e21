---------------------------- MODULE RootsFlight -----------------------------
(***************************************************************************)
(* roots/list (serverreq.go): the one server->client request the registry  *)
(* multiplexes.  Every upstream that asks while no answer is cached waits  *)
(* behind a single question to the client; the answer, or a refusal, is    *)
(* fanned out to all of them and an answer is cached until the client says *)
(* its roots changed.                                                      *)
(*                                                                         *)
(* The question lives in the shared pending map (serverReqMu), the flight  *)
(* in a state of its own (rootsMu), so whoever takes the question off the  *)
(* map unwinds the flight in a later step.  The client's messages reach    *)
(* the registry in any order: over HTTP each one is a POST of its own.     *)
(*                                                                         *)
(* The roots are their version, a counter of the client's changes.         *)
(***************************************************************************)
EXTENDS Naturals

CONSTANTS
    Upstreams,   \* configured upstreams
    Ids,         \* requests each of them makes
    MaxVersion,  \* bound: changes of the client's roots
    NoRoots      \* nothing cached; also the answer of a client in error

ASSUME MaxVersionAssumption == MaxVersion \in Nat
ASSUME NoRootsAssumption == NoRoots \notin Nat

Requests == Upstreams \X Ids
Versions == 0 .. MaxVersion

VARIABLES
    cache,      \* r.rootsCache
    waiters,    \* r.rootsWaiters
    fetch,      \* r.rootsFetchID, 0 when no question is in flight
    stale,      \* r.rootsStale
    minted,     \* how many gateway ids have been minted
    publishing, \* ids minted whose publishServerReq is still to come
    pending,    \* r.pendingServerReqs, the roots questions
    delivering, \* <<g, roots>>: taken off the map by RouteUpstreamResponse
    expiring    \* ids rootsExpire is about to unwind

VARIABLES
    client,     \* the client's own roots
    questions,  \* ids the client has been asked and has not answered
    replies,    \* <<g, roots>>: answers under way to the gateway
    notices,    \* list_changed notifications under way to the gateway
    closed,     \* progress of closeServerReqs
    asked,      \* requests made so far
    answers     \* history: responses decided on per request

flightVars == <<cache, waiters, fetch, stale>>
mapVars == <<minted, publishing, pending, delivering, expiring>>
clientVars == <<client, questions, replies, notices>>
vars == <<flightVars, mapVars, clientVars, closed, asked, answers>>

Init ==
    /\ cache = NoRoots
    /\ waiters = {}
    /\ fetch = 0
    /\ stale = FALSE
    /\ minted = 0
    /\ publishing = {} /\ pending = {} /\ delivering = {} /\ expiring = {}
    /\ client = 0
    /\ questions = {} /\ replies = {} /\ notices = 0
    /\ closed = "no"
    /\ asked = {}
    /\ answers = [r \in Requests |-> 0]

Answer(R) == answers' = [r \in Requests |-> IF r \in R THEN answers[r] + 1 ELSE answers[r]]

-----------------------------------------------------------------------------
(* onUpstreamRootsList, one hold of rootsMu each. *)

AskCached(r) ==
    /\ r \notin asked
    /\ cache # NoRoots
    /\ asked' = asked \cup {r}
    /\ Answer({r})
    /\ UNCHANGED <<flightVars, mapVars, clientVars, closed>>

(* A question is in flight: this asker rides along. *)
AskRiding(r) ==
    /\ r \notin asked
    /\ cache = NoRoots
    /\ fetch # 0
    /\ asked' = asked \cup {r}
    /\ waiters' = waiters \cup {r}
    /\ UNCHANGED <<cache, fetch, stale, mapVars, clientVars, closed, answers>>

AskFirst(r) ==
    /\ r \notin asked
    /\ cache = NoRoots
    /\ fetch = 0
    /\ asked' = asked \cup {r}
    /\ waiters' = waiters \cup {r}
    /\ minted' = minted + 1
    /\ fetch' = minted'
    /\ publishing' = publishing \cup {minted'}
    /\ UNCHANGED <<cache, stale, pending, delivering, expiring, clientVars, closed, answers>>

(* publishServerReq by the first asker's reader, after rootsMu. *)
Publish(g) ==
    /\ g \in publishing
    /\ publishing' = publishing \ {g}
    /\ pending' = pending \cup {g}
    /\ questions' = questions \cup {g}
    /\ UNCHANGED <<flightVars, minted, delivering, expiring, client, replies, notices,
                   closed, asked, answers>>

(* MUTANT of PublishFails: rolled back, the flight is not unwound. *)
PublishFailsSilently(g) ==
    /\ g \in publishing
    /\ publishing' = publishing \ {g}
    /\ UNCHANGED <<flightVars, minted, pending, delivering, expiring, clientVars, closed,
                   asked, answers>>

(* Nobody took it: rolled back, and unwound like a missed deadline. *)
PublishFails(g) ==
    /\ g \in publishing
    /\ publishing' = publishing \ {g}
    /\ expiring' = expiring \cup {g}
    /\ UNCHANGED <<flightVars, minted, pending, delivering, clientVars, closed, asked, answers>>

-----------------------------------------------------------------------------
(* The parties that finish the question; each takes it off the map first.  *)

(* RouteUpstreamResponse; an answer nobody waits for is dropped. *)
TakeReply(g, v) ==
    /\ <<g, v>> \in replies
    /\ replies' = replies \ {<<g, v>>}
    /\ IF g \in pending
       THEN pending' = pending \ {g} /\ delivering' = delivering \cup {<<g, v>>}
       ELSE UNCHANGED <<pending, delivering>>
    /\ UNCHANGED <<flightVars, minted, publishing, expiring, client, questions, notices,
                   closed, asked, answers>>

(* RefusePendingServerReq: the deadline, or a transport giving up. *)
TakeExpired(g) ==
    /\ g \in pending
    /\ pending' = pending \ {g}
    /\ expiring' = expiring \cup {g}
    /\ UNCHANGED <<flightVars, minted, publishing, delivering, clientVars, closed, asked, answers>>

(* MUTANT of RootsDeliver: the stale mark is ignored. *)
DeliverCachingStale(g, v) ==
    /\ <<g, v>> \in delivering
    /\ delivering' = delivering \ {<<g, v>>}
    /\ waiters' = {}
    /\ fetch' = 0
    /\ cache' = IF v # NoRoots THEN v ELSE cache
    /\ stale' = FALSE
    /\ Answer(waiters)
    /\ UNCHANGED <<minted, publishing, pending, expiring, clientVars, closed, asked>>

(* rootsDeliver: no look at WHICH question is in flight. *)
RootsDeliver(g, v) ==
    /\ <<g, v>> \in delivering
    /\ delivering' = delivering \ {<<g, v>>}
    /\ waiters' = {}
    /\ fetch' = 0
    /\ cache' = IF v # NoRoots /\ ~stale THEN v ELSE cache
    /\ stale' = FALSE
    /\ Answer(waiters)
    /\ UNCHANGED <<minted, publishing, pending, expiring, clientVars, closed, asked>>

(* MUTANT of RootsExpire: the flight ends, its waiters are forgotten. *)
ExpireKeepingWaiters(g) ==
    /\ g \in expiring
    /\ expiring' = expiring \ {g}
    /\ IF fetch = g THEN fetch' = 0 /\ stale' = FALSE ELSE UNCHANGED <<fetch, stale>>
    /\ UNCHANGED <<cache, waiters, minted, publishing, pending, delivering, clientVars,
                   closed, asked, answers>>

(* rootsExpire: only if its question is still the one in flight. *)
RootsExpire(g) ==
    /\ g \in expiring
    /\ expiring' = expiring \ {g}
    /\ IF fetch = g
       THEN /\ waiters' = {}
            /\ fetch' = 0
            /\ stale' = FALSE
            /\ Answer(waiters)
       ELSE UNCHANGED <<waiters, fetch, stale, answers>>
    /\ UNCHANGED <<cache, minted, publishing, pending, delivering, clientVars, closed, asked>>

-----------------------------------------------------------------------------
(* InvalidateRootsCache. *)
Invalidate ==
    /\ cache' = NoRoots
    /\ stale' = IF fetch # 0 THEN TRUE ELSE stale
    /\ UNCHANGED <<waiters, fetch>>

(* MUTANT of RootsListChanged: a notification is processed twice. *)
RootsListChangedTwice ==
    /\ notices > 0
    /\ notices' = notices - 2
    /\ Invalidate
    /\ UNCHANGED <<mapVars, client, questions, replies, closed, asked, answers>>

(* notifications/roots/list_changed arrives. *)
RootsListChanged ==
    /\ notices > 0
    /\ notices' = notices - 1
    /\ Invalidate
    /\ UNCHANGED <<mapVars, client, questions, replies, closed, asked, answers>>

(* A (re-)initialize invalidates too. *)
Reinitialize ==
    /\ Invalidate
    /\ UNCHANGED <<mapVars, clientVars, closed, asked, answers>>

(* dropRootsWaiters: the upstream's connection is gone or replaced. *)
DropRootsWaiters(u) ==
    /\ \E r \in waiters : r[1] = u
    /\ waiters' = {r \in waiters : r[1] # u}
    /\ UNCHANGED <<cache, fetch, stale, mapVars, clientVars, closed, asked, answers>>

(* closeServerReqs: the map under serverReqMu, then the flight. *)
ClosePending ==
    /\ closed = "no"
    /\ closed' = "pending"
    /\ pending' = {}
    /\ UNCHANGED <<flightVars, minted, publishing, delivering, expiring, clientVars, asked, answers>>

CloseFlight ==
    /\ closed = "pending"
    /\ closed' = "yes"
    /\ fetch' = 0
    /\ waiters' = {}
    /\ stale' = FALSE
    /\ UNCHANGED <<cache, mapVars, clientVars, asked, answers>>

-----------------------------------------------------------------------------
(* The client answers a question once, with its roots or an error (what a  *)
(* second answer does is in ServerRequests), and announces every change.   *)
ClientAnswers(g) ==
    /\ g \in questions
    /\ questions' = questions \ {g}
    /\ \E v \in {client, NoRoots} : replies' = replies \cup {<<g, v>>}
    /\ UNCHANGED <<flightVars, mapVars, client, notices, closed, asked, answers>>

ClientChanges ==
    /\ client < MaxVersion
    /\ client' = client + 1
    /\ notices' = notices + 1
    /\ UNCHANGED <<flightVars, mapVars, questions, replies, closed, asked, answers>>

-----------------------------------------------------------------------------
Gids == 1 .. minted
Roots == Nat \cup {NoRoots}

Next ==
    \/ \E r \in Requests : AskCached(r) \/ AskRiding(r) \/ AskFirst(r)
    \/ \E g \in Gids : Publish(g) \/ PublishFails(g) \/ TakeExpired(g) \/ RootsExpire(g)
    \/ \E m \in replies : TakeReply(m[1], m[2])
    \/ \E m \in delivering : RootsDeliver(m[1], m[2])
    \/ RootsListChanged \/ Reinitialize
    \/ \E u \in Upstreams : DropRootsWaiters(u)
    \/ ClosePending \/ CloseFlight
    \/ \E g \in questions : ClientAnswers(g)
    \/ ClientChanges

Safety == Init /\ [][Next]_vars

(* A reader finishes the publish it began, timers fire, and whoever took   *)
(* the question unwinds the flight, as does a Close under way.  The client *)
(* need not answer.                                                        *)
Fairness ==
    /\ WF_vars(\E g \in Gids : Publish(g) \/ PublishFails(g))
    /\ WF_vars(\E g \in Gids : TakeExpired(g))
    /\ WF_vars(\E g \in Gids : RootsExpire(g))
    /\ WF_vars(\E m \in delivering : RootsDeliver(m[1], m[2]))
    /\ WF_vars(CloseFlight)

Spec == Safety /\ Fairness

-----------------------------------------------------------------------------
(* Properties *)

(* Every variable has its type. *)
TypeOK ==
    /\ cache \in Roots
    /\ waiters \subseteq Requests /\ asked \subseteq Requests
    /\ minted \in Nat /\ fetch \in 0 .. minted
    /\ stale \in BOOLEAN
    /\ publishing \subseteq Gids /\ pending \subseteq Gids /\ expiring \subseteq Gids
    /\ delivering \subseteq Gids \X Roots /\ replies \subseteq Nat \X Roots
    /\ client \in Nat /\ notices \in Nat /\ questions \subseteq Nat
    /\ closed \in {"no", "pending", "yes"}
    /\ answers \in [Requests -> Nat]

(* Somebody holds the question: its publisher, the map, or its taker. *)
Held == publishing \cup pending \cup expiring \cup {m[1] : m \in delivering}

(* There is one question at a time, and it is the one in flight: so        *)
(* rootsDeliver, which has no id guard, can only unwind its own question.  *)
OneQuestion == closed = "no" => Held \subseteq {fetch} \ {0}

(* No wedge: whoever waits, waits behind a question, and a question in     *)
(* flight is held by somebody who will unwind it.                          *)
NoWedge ==
    closed = "no" =>
        /\ waiters # {} => fetch # 0
        /\ fetch # 0 => fetch \in Held

(* Riding along, fan-out, expiry and cache never answer a request twice,   *)
(* nor one that is still waiting.                                          *)
AnsweredOnce ==
    \A r \in Requests :
        /\ answers[r] <= 1
        /\ r \in waiters => answers[r] = 0

(* The shared question is one, somebody holds it, and it answers each      *)
(* asker once, however askers, answers, expiries and drops cross.          *)
FlightIsSound == OneQuestion /\ NoWedge /\ AnsweredOnce

(* What is cached is what the client has now, unless its announcement of a *)
(* change is still under way, in whatever order answers and announcements  *)
(* are processed.  (Close resets the stale mark under a late delivery.)    *)
CacheIsFresh == closed = "no" /\ cache # NoRoots => cache = client \/ notices > 0

(* Nobody waits forever, even if the client never answers. *)
WaitersAreServed == \A r \in Requests : r \in waiters ~> r \notin waiters
=============================================================================
