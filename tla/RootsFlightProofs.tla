-------------------------- MODULE RootsFlightProofs --------------------------
(***************************************************************************)
(* The roots flight never wedges, never answers anybody twice and never    *)
(* caches what an announced change has overtaken, for any number of        *)
(* upstreams, requests and changes.                                        *)
(*                                                                         *)
(* The strengthening says where a question is: at exactly one of its four  *)
(* places (publisher, map, deliverer, expirer), and only the question in   *)
(* flight is anywhere.  What is cached is then fresh because every answer  *)
(* that can still reach the cache is fresh, marked stale, or to a question *)
(* that is nowhere any more.                                               *)
(***************************************************************************)
EXTENDS RootsFlight, TLAPS

(* Ids in use have been minted. *)
Minted ==
    /\ questions \subseteq Gids
    /\ replies \subseteq Gids \X Roots

(* A held question is in one place, with one answer. *)
OnePlace ==
    /\ publishing \cap pending = {}
    /\ publishing \cap expiring = {}
    /\ pending \cap expiring = {}
    /\ \A m \in delivering : m[1] \notin publishing \cup pending \cup expiring
    /\ \A m, w \in delivering : m[1] = w[1] => m = w

Known == \A r \in Requests : r \notin asked => r \notin waiters /\ answers[r] = 0

Overtaken(v) == ~(v = NoRoots \/ v = client \/ notices > 0)

(* An answer under way is fresh, or marked, or to a question given up. *)
AnswersFresh ==
    \A m \in replies \cup delivering : Overtaken(m[2]) => stale \/ m[1] \notin Held

FlightInv ==
    /\ TypeOK
    /\ Minted
    /\ AnsweredOnce /\ Known
    /\ closed = "no" => OnePlace /\ OneQuestion /\ NoWedge /\ AnswersFresh /\ CacheIsFresh

USE MaxVersionAssumption, NoRootsAssumption

-----------------------------------------------------------------------------
(* The types, and who has been answered, need no more than each other. *)
LEMMA TypesStep ==
    ASSUME TypeOK, Minted, Next
    PROVE  TypeOK' /\ Minted'
<1> USE DEF TypeOK, Minted, Gids, Roots, Requests, flightVars, mapVars, clientVars, Answer
<1>1. ASSUME NEW r \in Requests, AskCached(r) PROVE TypeOK' /\ Minted'
  BY <1>1 DEF AskCached
<1>2. ASSUME NEW r \in Requests, AskRiding(r) PROVE TypeOK' /\ Minted'
  BY <1>2 DEF AskRiding
<1>3. ASSUME NEW r \in Requests, AskFirst(r) PROVE TypeOK' /\ Minted'
  BY <1>3 DEF AskFirst
<1>4. ASSUME NEW g \in Gids, Publish(g) \/ PublishFails(g) \/ TakeExpired(g) PROVE TypeOK' /\ Minted'
  <2>1. CASE Publish(g)
    BY <2>1 DEF Publish
  <2>2. CASE PublishFails(g)
    BY <2>2 DEF PublishFails
  <2>3. CASE TakeExpired(g)
    BY <2>3 DEF TakeExpired
  <2> QED
    BY <1>4, <2>1, <2>2, <2>3
<1>5. ASSUME NEW g \in Gids, RootsExpire(g) PROVE TypeOK' /\ Minted'
  <2>1. CASE fetch = g
    <3>1. stale' \in BOOLEAN /\ waiters' = {} /\ fetch' = 0
      BY <1>5, <2>1 DEF RootsExpire
    <3>2. answers' \in [Requests -> Nat]
      BY <1>5, <2>1 DEF RootsExpire
    <3>3. /\ expiring' = expiring \ {g}
          /\ UNCHANGED <<cache, minted, publishing, pending, delivering, clientVars, closed, asked>>
      BY <1>5 DEF RootsExpire
    <3> QED
      BY <3>1, <3>2, <3>3
  <2>2. CASE fetch # g
    BY <1>5, <2>2 DEF RootsExpire
  <2> QED
    BY <2>1, <2>2
<1>6. ASSUME NEW m \in replies, TakeReply(m[1], m[2]) PROVE TypeOK' /\ Minted'
  BY <1>6 DEF TakeReply
<1>7. ASSUME NEW m \in delivering, RootsDeliver(m[1], m[2]) PROVE TypeOK' /\ Minted'
  <2>1. cache' \in Roots
    BY <1>7 DEF RootsDeliver
  <2>2. answers' \in [Requests -> Nat]
    BY <1>7 DEF RootsDeliver
  <2>3. stale' \in BOOLEAN /\ waiters' = {} /\ fetch' = 0
    BY <1>7 DEF RootsDeliver
  <2>4. /\ delivering' \subseteq delivering
        /\ UNCHANGED <<minted, publishing, pending, expiring, clientVars, closed, asked>>
    BY <1>7 DEF RootsDeliver
  <2> QED
    BY <2>1, <2>2, <2>3, <2>4
<1>8. ASSUME RootsListChanged \/ Reinitialize PROVE TypeOK' /\ Minted'
  <2>1. stale' \in BOOLEAN /\ cache' \in Roots
    BY <1>8 DEF RootsListChanged, Reinitialize, Invalidate
  <2>2. notices' \in Nat
    BY <1>8 DEF RootsListChanged, Reinitialize
  <2>3. UNCHANGED <<waiters, fetch, mapVars, client, questions, replies, closed, asked, answers>>
    BY <1>8 DEF RootsListChanged, Reinitialize, Invalidate
  <2> QED
    BY <2>1, <2>2, <2>3
<1>9. ASSUME NEW u \in Upstreams, DropRootsWaiters(u) PROVE TypeOK' /\ Minted'
  BY <1>9 DEF DropRootsWaiters
<1>10. ASSUME ClosePending \/ CloseFlight PROVE TypeOK' /\ Minted'
  <2>1. CASE ClosePending
    BY <2>1 DEF ClosePending
  <2>2. CASE CloseFlight
    <3>1. stale' \in BOOLEAN /\ waiters' = {} /\ fetch' = 0 /\ closed' = "yes"
      BY <2>2 DEF CloseFlight
    <3>2. UNCHANGED <<cache, mapVars, clientVars, asked, answers>>
      BY <2>2 DEF CloseFlight
    <3> QED
      BY <3>1, <3>2
  <2> QED
    BY <1>10, <2>1, <2>2
<1>11. ASSUME NEW g \in questions, ClientAnswers(g) PROVE TypeOK' /\ Minted'
  BY <1>11 DEF ClientAnswers
<1>12. ASSUME ClientChanges PROVE TypeOK' /\ Minted'
  BY <1>12 DEF ClientChanges
<1> QED
  BY <1>1, <1>2, <1>3, <1>4, <1>5, <1>6, <1>7, <1>8, <1>9, <1>10, <1>11, <1>12 DEF Next

LEMMA AnsweredStep ==
    ASSUME TypeOK, AnsweredOnce, Known, Next
    PROVE  AnsweredOnce' /\ Known'
<1> USE DEF TypeOK, AnsweredOnce, Known, flightVars, mapVars, clientVars, Answer
<1>1. ASSUME NEW r \in Requests, AskCached(r) PROVE AnsweredOnce' /\ Known'
  BY <1>1 DEF AskCached
<1>2. ASSUME NEW r \in Requests, AskRiding(r) \/ AskFirst(r) PROVE AnsweredOnce' /\ Known'
  BY <1>2 DEF AskRiding, AskFirst
<1>3. ASSUME NEW g \in Gids, Publish(g) \/ PublishFails(g) \/ TakeExpired(g)
      PROVE AnsweredOnce' /\ Known'
  BY <1>3 DEF Publish, PublishFails, TakeExpired
<1>4. ASSUME NEW g \in Gids, RootsExpire(g) PROVE AnsweredOnce' /\ Known'
  BY <1>4 DEF RootsExpire
<1>5. ASSUME NEW m \in delivering, RootsDeliver(m[1], m[2]) PROVE AnsweredOnce' /\ Known'
  BY <1>5 DEF RootsDeliver
<1>6. ASSUME NEW m \in replies, TakeReply(m[1], m[2]) PROVE AnsweredOnce' /\ Known'
  BY <1>6 DEF TakeReply
<1>7. ASSUME RootsListChanged \/ Reinitialize PROVE AnsweredOnce' /\ Known'
  BY <1>7 DEF RootsListChanged, Reinitialize, Invalidate
<1>8. ASSUME NEW u \in Upstreams, DropRootsWaiters(u) PROVE AnsweredOnce' /\ Known'
  BY <1>8 DEF DropRootsWaiters
<1>9. ASSUME ClosePending \/ CloseFlight PROVE AnsweredOnce' /\ Known'
  BY <1>9 DEF ClosePending, CloseFlight
<1>10. ASSUME (\E g \in questions : ClientAnswers(g)) \/ ClientChanges PROVE AnsweredOnce' /\ Known'
  BY <1>10 DEF ClientAnswers, ClientChanges
<1> QED
  BY <1>1, <1>2, <1>3, <1>4, <1>5, <1>6, <1>7, <1>8, <1>9, <1>10 DEF Next

-----------------------------------------------------------------------------
(* Where the question is, and what its answer is worth, until Close. *)
Tracking == OnePlace /\ OneQuestion /\ NoWedge /\ AnswersFresh /\ CacheIsFresh

LEMMA TrackingStep ==
    ASSUME TypeOK, Minted, closed = "no", closed' = "no", Tracking, Next
    PROVE  Tracking'
<1> USE DEF TypeOK, Minted, Gids, Roots, Held, Overtaken, flightVars, mapVars, clientVars,
            Tracking, OnePlace, OneQuestion, NoWedge, AnswersFresh, CacheIsFresh
<1>1. ASSUME NEW r \in Requests, AskCached(r) PROVE Tracking'
  BY <1>1 DEF AskCached
<1>2. ASSUME NEW r \in Requests, AskRiding(r) PROVE Tracking'
  BY <1>2 DEF AskRiding
<1>3. ASSUME NEW r \in Requests, AskFirst(r) PROVE Tracking'
  <2>1. minted' \notin Gids /\ minted' = minted + 1
    BY <1>3 DEF AskFirst
  <2>2. Held = {} /\ Held' = {minted'} /\ fetch' = minted'
    BY <1>3, <2>1 DEF AskFirst
  <2>3. OnePlace'
    BY <1>3, <2>1 DEF AskFirst
  <2>4. AnswersFresh'
    BY <1>3, <2>1, <2>2 DEF AskFirst
  <2> QED
    BY <1>3, <2>2, <2>3, <2>4 DEF AskFirst
<1>4. ASSUME NEW g \in Gids, Publish(g) PROVE Tracking'
  BY <1>4 DEF Publish
<1>5. ASSUME NEW g \in Gids, PublishFails(g) PROVE Tracking'
  BY <1>5 DEF PublishFails
<1>6. ASSUME NEW g \in Gids, TakeExpired(g) PROVE Tracking'
  BY <1>6 DEF TakeExpired
<1>7. ASSUME NEW g \in Gids, RootsExpire(g) PROVE Tracking'
  BY <1>7 DEF RootsExpire
<1>8. ASSUME NEW m \in replies, TakeReply(m[1], m[2]) PROVE Tracking'
  BY <1>8 DEF TakeReply
<1>9. ASSUME NEW m \in delivering, RootsDeliver(m[1], m[2]) PROVE Tracking'
  BY <1>9 DEF RootsDeliver
<1>10. ASSUME RootsListChanged \/ Reinitialize PROVE Tracking'
  BY <1>10 DEF RootsListChanged, Reinitialize, Invalidate
<1>11. ASSUME NEW u \in Upstreams, DropRootsWaiters(u) PROVE Tracking'
  BY <1>11 DEF DropRootsWaiters
<1>12. ASSUME NEW g \in questions, ClientAnswers(g) PROVE Tracking'
  BY <1>12 DEF ClientAnswers
<1>13. ASSUME ClientChanges PROVE Tracking'
  BY <1>13 DEF ClientChanges
<1>14. ~ClosePending /\ ~CloseFlight
  BY DEF ClosePending, CloseFlight
<1> QED
  BY <1>1, <1>2, <1>3, <1>4, <1>5, <1>6, <1>7, <1>8, <1>9, <1>10, <1>11, <1>12, <1>13, <1>14
  DEF Next

LEMMA FlightInvariant == Safety => []FlightInv
<1>1. Init => FlightInv
  <2> SUFFICES ASSUME Init PROVE FlightInv
    OBVIOUS
  <2>1. TypeOK /\ Minted
    <3>1. stale \in BOOLEAN
      BY DEF Init
    <3>2. answers \in [Requests -> Nat]
      BY DEF Init
    <3>3. /\ cache = NoRoots /\ waiters = {} /\ asked = {} /\ fetch = 0 /\ minted = 0
          /\ publishing = {} /\ pending = {} /\ delivering = {} /\ expiring = {}
          /\ client = 0 /\ questions = {} /\ replies = {} /\ notices = 0 /\ closed = "no"
      BY DEF Init
    <3> QED
      BY <3>1, <3>2, <3>3 DEF TypeOK, Minted, Gids, Roots
  <2>2. AnsweredOnce /\ Known
    BY DEF Init, AnsweredOnce, Known
  <2>3. Held = {}
    BY DEF Init, Held
  <2>4. OnePlace /\ OneQuestion /\ NoWedge /\ AnswersFresh /\ CacheIsFresh
    BY <2>3 DEF Init, OnePlace, OneQuestion, NoWedge, AnswersFresh, CacheIsFresh
  <2> QED
    BY <2>1, <2>2, <2>4 DEF FlightInv
<1>2. FlightInv /\ [Next]_vars => FlightInv'
  <2> SUFFICES ASSUME FlightInv, [Next]_vars PROVE FlightInv'
    OBVIOUS
  <2>1. CASE Next
    <3>1. closed' = "no" => closed = "no"
      BY <2>1 DEF Next, AskCached, AskRiding, AskFirst, Publish, PublishFails, TakeExpired,
        RootsExpire, TakeReply, RootsDeliver, RootsListChanged, Reinitialize, DropRootsWaiters,
        ClosePending, CloseFlight, ClientAnswers, ClientChanges
    <3>2. TypeOK' /\ Minted' /\ AnsweredOnce' /\ Known'
      BY <2>1, TypesStep, AnsweredStep DEF FlightInv
    <3>3. closed' = "no" => Tracking'
      BY <2>1, <3>1, TrackingStep DEF FlightInv, Tracking
    <3> QED
      BY <3>2, <3>3 DEF FlightInv, Tracking
  <2>2. CASE UNCHANGED vars
    BY <2>2 DEF FlightInv, vars, flightVars, mapVars, clientVars, TypeOK, Minted, AnsweredOnce,
      Known, OnePlace, OneQuestion, NoWedge, AnswersFresh, Overtaken, CacheIsFresh, Held, Gids, Roots
  <2> QED
    BY <2>1, <2>2
<1> QED
  BY <1>1, <1>2, PTL DEF Safety

-----------------------------------------------------------------------------
(* TypeOK, with what the invariant says of the waiters and of the answers. *)
THEOREM RootsTyping == Safety => []TypeOK
<1>1. FlightInv => TypeOK
  BY DEF FlightInv
<1> QED
  BY <1>1, FlightInvariant, PTL

(* rootsDeliver can do without an id guard: the question it unwinds is the *)
(* only one, whatever publishes, deadlines and answers overlap.            *)
THEOREM RootsOneQuestion == Safety => []OneQuestion
<1>1. FlightInv => OneQuestion
  BY DEF FlightInv, OneQuestion
<1> QED
  BY <1>1, FlightInvariant, PTL

(* No upstream waits behind nothing: waiters have a question in flight and *)
(* the question a holder, at every moment before Close.                    *)
THEOREM RootsNoWedge == Safety => []NoWedge
<1>1. FlightInv => NoWedge
  BY DEF FlightInv, NoWedge
<1> QED
  BY <1>1, FlightInvariant, PTL

(* Fan-out, cache, expiry and Close answer a roots/list at most once. *)
THEOREM RootsAnsweredOnce == Safety => []AnsweredOnce
<1>1. FlightInv => AnsweredOnce
  BY DEF FlightInv
<1> QED
  BY <1>1, FlightInvariant, PTL

(* FlightIsSound: riding along, expiry, failed publishes and drops leave   *)
(* one question, held by somebody, and answer each asker once.             *)
THEOREM RootsFlightSound == Safety => []FlightIsSound
<1>1. OneQuestion /\ NoWedge /\ AnsweredOnce => FlightIsSound
  BY DEF FlightIsSound
<1> QED
  BY <1>1, RootsOneQuestion, RootsNoWedge, RootsAnsweredOnce, PTL

(* The cache holds the client's present roots unless a change of theirs is *)
(* still being announced, whatever order the client's messages take.       *)
THEOREM RootsCacheFresh == Safety => []CacheIsFresh
<1>1. FlightInv => CacheIsFresh
  BY DEF FlightInv, CacheIsFresh
<1> QED
  BY <1>1, FlightInvariant, PTL
=============================================================================
