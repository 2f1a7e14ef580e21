--------------------------- MODULE SessionsProofs ---------------------------
(***************************************************************************)
(* Theorems about Sessions, for any sessions, streams, posts and           *)
(* questions, and any caps on sessions, streams and their channels.        *)
(***************************************************************************)
EXTENDS Sessions, FiniteSetTheorems, TLAPS

USE DEF store, gets, posts, routing, registry, vars, restOfStore

(* A handler has a session from the moment it finds one to its end, and    *)
(* holds a question exactly where it is about to write or refuse it.       *)
Handlers ==
    /\ \A t \in Streams : at[t] \notin {"off", "ended"} => serving[t] \in Ids
    /\ \A t \in Streams :
          holding[t] # Nobody <=> at[t] \in {"writing", "refusing", "dropping"}
    /\ \A p \in Posts : pc[p] # "idle" => who[p] \in Ids
    /\ \A p \in Posts : pc[p] \in {"answer", "claimed"} => what[p] \in Requests

(* A removed session is not in the map, and a delivery channel is that of  *)
(* an open stream of its session.                                          *)
Registered ==
    /\ live \cap gone = {}
    /\ \A s \in Ids : \A t \in reqStreams[s] :
          serving[t] = s /\ at[t] \in {"open", "writing", "refusing", "closing"}

(* A question has been put to nobody while it is published or routed; only *)
(* the session it was put to owns it or has claimed it; what the registry  *)
(* waits for is unsettled, and is not forgotten as stale.                  *)
Routed ==
    /\ router = "waiting" <=> routed = Nobody
    /\ routed # Nobody => routed \in asked \ published
    /\ \A r \in Requests :
          r \in published \/ routed = r \/ r \notin asked => put[r] = Nobody /\ owner[r] = Nobody
    /\ \A r \in Requests : owner[r] # Nobody => put[r] = owner[r]
    /\ \A p \in Posts : pc[p] = "claimed" => put[what[p]] = who[p]
    /\ \A r \in Requests : r \in parked \/ r \notin asked => result[r] = Nobody
    /\ stale \subseteq asked \ parked

Core == Types /\ OwnersMirrored /\ Handlers /\ Registered /\ Routed

(* The streams that count towards a session's cap, and its count of them.  *)
Counted(s) ==
    {t \in Streams : serving[t] = s /\ at[t] \notin {"off", "touched", "ended"}}

Tallied == \A s \in Ids : tally[s] = Cardinality(Counted(s))

Inv == Core /\ TallyBounded /\ Tallied /\ NoneStranded

-----------------------------------------------------------------------------
(* Queueing a question, and taking the oldest one. *)
LEMMA Queueing ==
    ASSUME NEW S, NEW q \in Seq(S), NEW x \in S
    PROVE  /\ Append(q, x) \in Seq(S)
           /\ DOMAIN q = 1 .. Len(q) /\ DOMAIN Append(q, x) = 1 .. Len(q) + 1 /\ Len(q) \in Nat
           /\ Append(q, x)[Len(q) + 1] = x
           /\ \A i \in 1 .. Len(q) : Append(q, x)[i] = q[i] /\ q[i] \in S
    OBVIOUS

LEMMA Dequeuing ==
    ASSUME NEW S, NEW q \in Seq(S), q # <<>>
    PROVE  /\ Head(q) \in S /\ Head(q) = q[1]
           /\ Tail(q) \in Seq(S)
           /\ \A i \in DOMAIN q : i = 1 \/ (i - 1 \in DOMAIN Tail(q) /\ Tail(q)[i - 1] = q[i])
    OBVIOUS

-----------------------------------------------------------------------------
LEMMA InitCore == Init => Core
<1> USE NobodyAssumption DEF Init
<1>1. Init => Types
  <2> SUFFICES ASSUME Init PROVE Types
    OBVIOUS
  <2>1. queue \in [Streams -> Seq(Requests)]
    OBVIOUS
  <2> QED
    BY <2>1 DEF Types
<1>2. Init => OwnersMirrored
  <2> SUFFICES ASSUME Init PROVE OwnersMirrored
    OBVIOUS
  <2>1. \A s \in Ids : {r \in Requests : owner[r] = s} = {}
    OBVIOUS
  <2> QED
    BY <2>1 DEF OwnersMirrored
<1>3. Init => Handlers /\ Registered /\ Routed
  BY DEF Handlers, Registered, Routed
<1> QED
  BY <1>1, <1>2, <1>3 DEF Core

(* removeLocked keeps reqOwners and pendingReqs the mirror of one another. *)
LEMMA Forgetting ==
    ASSUME Core, NEW S \in SUBSET live, Forget(S)
    PROVE  /\ owner' \in [Requests -> (live \ S) \cup {Nobody}]
           /\ pendingReqs' = [s \in Ids |-> {r \in Requests : owner'[r] = s}]
           /\ \A r \in Requests : owner'[r] = IF owner[r] \in S THEN Nobody ELSE owner[r]
           /\ \A r \in Requests : owner[r] \in S => r \in orphaned'
           /\ orphaned' \subseteq Requests /\ orphaned \subseteq orphaned'
           /\ gone' = gone \cup S
<1> USE NobodyAssumption DEF Core, Types, OwnersMirrored
<1> DEFINE left == UNION {pendingReqs[s] : s \in S}
<1>1. left = {r \in Requests : owner[r] \in S}
  OBVIOUS
<1>2. /\ gone' = gone \cup S
      /\ owner' = [r \in Requests |-> IF r \in left THEN Nobody ELSE owner[r]]
      /\ orphaned' = orphaned \cup left
      /\ pendingReqs' = [s \in Ids |-> IF s \in S THEN {} ELSE pendingReqs[s]]
  BY DEF Forget
<1> HIDE DEF left
<1> QED
  BY <1>1, <1>2

(* takeServerReq keeps it too. *)
LEMMA Disowning ==
    ASSUME Core, NEW s \in Ids, NEW r \in Requests, Disown(s, r)
    PROVE  /\ owner' \in [Requests -> live \cup {Nobody}]
           /\ pendingReqs' = [x \in Ids |-> {q \in Requests : owner'[q] = x}]
           /\ \A q \in Requests :
                 owner'[q] = IF q = r /\ owner[r] = s THEN Nobody ELSE owner[q]
<1> USE NobodyAssumption DEF Core, Types, OwnersMirrored
<1>1. CASE owner[r] = s
  <2>1. /\ owner' = [owner EXCEPT ![r] = Nobody]
        /\ pendingReqs' = [pendingReqs EXCEPT ![s] = pendingReqs[s] \ {r}]
    BY <1>1 DEF Disown
  <2>2. \A q \in Requests : owner'[q] = IF q = r THEN Nobody ELSE owner[q]
    BY <2>1
  <2>3. ASSUME NEW x \in Ids
        PROVE  pendingReqs'[x] = {q \in Requests : owner'[q] = x}
    <3>1. pendingReqs[x] = {q \in Requests : owner[q] = x}
      OBVIOUS
    <3>2. pendingReqs'[x] = IF x = s THEN pendingReqs[x] \ {r} ELSE pendingReqs[x]
      BY <2>1
    <3> QED
      BY <1>1, <2>2, <3>1, <3>2
  <2> QED
    BY <1>1, <2>1, <2>2, <2>3
<1>2. CASE owner[r] # s
  BY <1>2 DEF Disown
<1> QED
  BY <1>1, <1>2

(* So does deliverServerReq, for a question nobody owns. *)
LEMMA Owning ==
    ASSUME Core, NEW s \in live, NEW r \in Requests, owner[r] = Nobody,
           owner' = [owner EXCEPT ![r] = s],
           pendingReqs' = [pendingReqs EXCEPT ![s] = pendingReqs[s] \cup {r}],
           UNCHANGED live
    PROVE  OwnersMirrored'
<1> USE NobodyAssumption DEF Core, Types, OwnersMirrored
<1>1. \A q \in Requests : owner'[q] = IF q = r THEN s ELSE owner[q]
  OBVIOUS
<1>2. ASSUME NEW x \in Ids
      PROVE  pendingReqs'[x] = {q \in Requests : owner'[q] = x}
  <2>1. pendingReqs[x] = {q \in Requests : owner[q] = x}
    OBVIOUS
  <2>2. pendingReqs'[x] = IF x = s THEN pendingReqs[x] \cup {r} ELSE pendingReqs[x]
    OBVIOUS
  <2> QED
    BY <1>1, <2>1, <2>2
<1>3. owner' \in [Requests -> live' \cup {Nobody}]
  OBVIOUS
<1> QED
  BY <1>2, <1>3

(* So does every removal of sessions from the map. *)
LEMMA Removing ==
    ASSUME Core, NEW S \in SUBSET live, Forget(S), live' = live \ S,
           UNCHANGED <<caps, reqStreams, refusing, gets, posts, routing, registry, put, shown>>
    PROVE  Core'
<1>1. OwnersMirrored'
  BY Forgetting DEF OwnersMirrored
<1>2. Types'
  BY Forgetting DEF Core, Types
<1>3. Handlers' /\ Registered'
  BY Forgetting DEF Core, Handlers, Registered
<1>4. Routed'
  BY Forgetting, NobodyAssumption DEF Core, Types, OwnersMirrored, Routed
<1> QED
  BY <1>1, <1>2, <1>3, <1>4 DEF Core

LEMMA CoreStep ==
    ASSUME Core, [Next]_vars
    PROVE  Core'
<1> USE NobodyAssumption DEF Core, Types, OwnersMirrored, Handlers, Registered, Routed
<1>1. ASSUME NEW p \in Posts, NEW s \in Ids, Create(p, s) PROVE Core'
  <2>1. PICK swept \in SUBSET live :
           /\ pc[p] = "idle" /\ s \notin live \cup gone
           /\ Forget(swept)
           /\ \/ live' = live \ swept /\ UNCHANGED <<caps, posts>>
              \/ /\ live' = (live \ swept) \cup {s}
                 /\ \E declared \in BOOLEAN : caps' = [caps EXCEPT ![s] = declared]
                 /\ pc' = [pc EXCEPT ![p] = "starting"]
                 /\ who' = [who EXCEPT ![p] = s]
                 /\ UNCHANGED what
           /\ UNCHANGED <<reqStreams, refusing, gets, routing, registry, put, shown>>
    BY <1>1 DEF Create, Step
  <2>2. OwnersMirrored'
    BY <2>1, Forgetting
  <2>3. Types'
    <3>1. caps' \in [Ids -> BOOLEAN]
      BY <2>1
    <3>2. orphaned' \subseteq Requests /\ gone' \subseteq Ids
      BY <2>1, Forgetting
    <3> QED
      BY <2>1, <3>1, <3>2
  <2>4. Handlers' /\ Registered'
    <3>1. gone' = gone \cup swept
      BY <2>1 DEF Forget
    <3>2. live' \cap gone' = {}
      BY <2>1, <3>1
    <3>3. Handlers'
      BY <2>1
    <3> QED
      BY <2>1, <3>2, <3>3
  <2>5. Routed'
    BY <2>1, Forgetting
  <2> QED
    BY <2>2, <2>3, <2>4, <2>5
<1>2. ASSUME NEW p \in Posts, EnsureRegistry(p) PROVE Core'
  BY <1>2 DEF EnsureRegistry
<1>3. ASSUME ModernPost PROVE Core'
  BY <1>3 DEF ModernPost
<1>4. ASSUME RegistryStarts PROVE Core'
  BY <1>4 DEF RegistryStarts
<1>5. ASSUME NEW p \in Posts, ReplyInitialized(p) PROVE Core'
  BY <1>5 DEF ReplyInitialized, Finish, Step
<1>6. ASSUME NEW p \in Posts, NEW s \in Ids, PostInitialize(p, s) PROVE Core'
  <2>1. CASE Expire(s) /\ UNCHANGED posts
    <3> HIDE DEF Core
    <3>1. UNCHANGED <<gets, routing, registry, put, shown>>
      BY <1>6 DEF PostInitialize, Touch
    <3>2. /\ s \in live /\ live' = live \ {s} /\ Forget({s})
          /\ UNCHANGED <<caps, reqStreams, refusing>>
      BY <2>1 DEF Expire, MayExpire
    <3> QED
      BY <2>1, <3>1, <3>2, Removing
  <2>2. CASE /\ pc' = [pc EXCEPT ![p] = "reinit"]
             /\ who' = [who EXCEPT ![p] = s] /\ what' = [what EXCEPT ![p] = Nobody]
             /\ UNCHANGED store
    <3>1. pc[p] = "idle" /\ UNCHANGED <<gets, routing, registry, put, shown>>
      BY <1>6 DEF PostInitialize, Touch
    <3> QED
      BY <2>2, <3>1
  <2> QED
    BY <1>6, <2>1, <2>2 DEF PostInitialize, Touch, Step
<1>7. ASSUME NEW p \in Posts, NEW s \in Ids, NEW r \in Requests, PostAnswer(p, s, r) PROVE Core'
  <2>1. CASE Expire(s) /\ UNCHANGED posts
    <3> HIDE DEF Core
    <3>1. UNCHANGED <<gets, routing, registry, put, shown>>
      BY <1>7 DEF PostAnswer, Touch
    <3>2. /\ s \in live /\ live' = live \ {s} /\ Forget({s})
          /\ UNCHANGED <<caps, reqStreams, refusing>>
      BY <2>1 DEF Expire, MayExpire
    <3> QED
      BY <2>1, <3>1, <3>2, Removing
  <2>2. CASE /\ pc' = [pc EXCEPT ![p] = "answer"]
             /\ who' = [who EXCEPT ![p] = s] /\ what' = [what EXCEPT ![p] = r]
             /\ UNCHANGED store
    <3>1. pc[p] = "idle" /\ UNCHANGED <<gets, routing, registry, put, shown>>
      BY <1>7 DEF PostAnswer, Touch
    <3> QED
      BY <2>2, <3>1
  <2> QED
    BY <1>7, <2>1, <2>2 DEF PostAnswer, Touch, Step
<1>8. ASSUME NEW p \in Posts, Reinit(p) PROVE Core'
  <2>1. /\ pc' = [pc EXCEPT ![p] = "idle"]
        /\ who' = [who EXCEPT ![p] = Nobody] /\ what' = [what EXCEPT ![p] = Nobody]
        /\ UNCHANGED <<live, gone, reqStreams, pendingReqs, owner, orphaned, refusing>>
        /\ UNCHANGED <<gets, routing, registry, put, shown>>
    BY <1>8 DEF Reinit, Finish, Step
  <2>2. caps' = caps \/ \E declared \in BOOLEAN : caps' = [caps EXCEPT ![who[p]] = declared]
    BY <1>8 DEF Reinit
  <2>3. caps' \in [Ids -> BOOLEAN]
    <3>1. CASE \E declared \in BOOLEAN : caps' = [caps EXCEPT ![who[p]] = declared]
      <4>1. PICK declared \in BOOLEAN : caps' = [caps EXCEPT ![who[p]] = declared]
        BY <3>1
      <4> QED
        BY <4>1
    <3> QED
      BY <2>2, <3>1
  <2> QED
    BY <2>1, <2>3
<1>9. ASSUME NEW p \in Posts, TakeServerReq(p) PROVE Core'
  <2> DEFINE s == who[p]
             r == what[p]
  <2>1. pc[p] = "answer" /\ s \in Ids /\ r \in Requests
    BY <1>9 DEF TakeServerReq
  <2>2. Disown(s, r) /\ UNCHANGED <<restOfStore, gets, routing, registry, put, shown>>
    BY <1>9 DEF TakeServerReq
  <2>3. \/ /\ owner[r] = s
           /\ pc' = [pc EXCEPT ![p] = "claimed"] /\ UNCHANGED <<who, what>>
        \/ /\ owner[r] # s
           /\ pc' = [pc EXCEPT ![p] = "idle"]
           /\ who' = [who EXCEPT ![p] = Nobody] /\ what' = [what EXCEPT ![p] = Nobody]
    BY <1>9 DEF TakeServerReq, Finish, Step
  <2>4. OwnersMirrored'
    BY <2>1, <2>2, Disowning
  <2>5. Routed'
    BY <2>1, <2>2, <2>3, Disowning
  <2>6. Types' /\ Handlers' /\ Registered'
    <3>1. UNCHANGED <<restOfStore, gets, routing, registry, put, shown>>
      BY <2>2
    <3>2. CASE owner[r] = s
      BY <2>1, <2>3, <3>1, <3>2
    <3>3. CASE owner[r] # s
      <4>1. /\ pc' = [pc EXCEPT ![p] = "idle"]
            /\ who' = [who EXCEPT ![p] = Nobody] /\ what' = [what EXCEPT ![p] = Nobody]
        BY <2>3, <3>3
      <4> HIDE DEF OwnersMirrored, Routed
      <4> QED
        BY <3>1, <4>1
    <3> QED
      BY <3>2, <3>3
  <2> HIDE DEF Types, OwnersMirrored, Handlers, Registered, Routed
  <2> QED
    BY <2>4, <2>5, <2>6
<1>10. ASSUME NEW p \in Posts, RouteAnswer(p) PROVE Core'
  BY <1>10 DEF RouteAnswer, Finish, Step
<1>11. ASSUME NEW s \in Ids, Terminate(s) PROVE Core'
  <2> HIDE DEF Core
  <2>1. /\ s \in live /\ live' = live \ {s} /\ Forget({s})
        /\ UNCHANGED <<caps, reqStreams, refusing, gets, posts, routing, registry, put, shown>>
    BY <1>11 DEF Terminate, Known
  <2> QED
    BY <2>1, Removing
<1>12. ASSUME Drain PROVE Core'
  BY <1>12 DEF Drain
<1>13. ASSUME NEW r \in Requests, RefuseOrphaned(r) PROVE Core'
  BY <1>13 DEF RefuseOrphaned, RefusePending
<1>14. ASSUME NEW t \in Streams, NEW s \in Ids, OpenStream(t, s) PROVE Core'
  <2>1. CASE Expire(s) /\ UNCHANGED <<at, serving>>
    <3> HIDE DEF Core
    <3>1. UNCHANGED <<queue, holding, posts, routing, registry, put, shown>>
      BY <1>14 DEF OpenStream
    <3>2. /\ s \in live /\ live' = live \ {s} /\ Forget({s})
          /\ UNCHANGED <<caps, reqStreams, refusing>>
      BY <2>1 DEF Expire, MayExpire
    <3> QED
      BY <2>1, <3>1, <3>2, Removing
  <2>2. CASE /\ at' = [at EXCEPT ![t] = "touched"]
             /\ serving' = [serving EXCEPT ![t] = s] /\ UNCHANGED store
    <3>1. at[t] = "off" /\ UNCHANGED <<queue, holding, posts, routing, registry, put, shown>>
      BY <1>14 DEF OpenStream
    <3> QED
      BY <2>2, <3>1
  <2> QED
    BY <1>14, <2>1, <2>2 DEF OpenStream, Go
<1>15. ASSUME NEW t \in Streams, StreamStarted(t) PROVE Core'
  <2>1. /\ at[t] = "touched"
        /\ \E place \in {"ended", "counted"} : at' = [at EXCEPT ![t] = place]
        /\ UNCHANGED <<live, gone, caps, reqStreams, pendingReqs, owner, orphaned, refusing>>
        /\ UNCHANGED <<serving, queue, holding, posts, routing, registry, put, shown>>
    BY <1>15 DEF StreamStarted, Go
  <2> QED
    BY <2>1
<1>16. ASSUME NEW t \in Streams, AddReqStream(t) PROVE Core'
  <2>1. /\ at[t] = "counted" /\ serving[t] \in Ids
        /\ at' = [at EXCEPT ![t] = "open"]
        /\ reqStreams' = [reqStreams EXCEPT ![serving[t]] = reqStreams[serving[t]] \cup {t}]
        /\ UNCHANGED <<live, gone, caps, pendingReqs, owner, orphaned, refusing>>
        /\ UNCHANGED <<serving, queue, holding, posts, routing, registry, put, shown>>
    BY <1>16 DEF AddReqStream, Go
  <2> QED
    BY <2>1
<1>17. ASSUME NEW t \in Streams, TakeEvent(t) PROVE Core'
  BY <1>17 DEF TakeEvent, Go
<1>18. ASSUME NEW t \in Streams, WriteEvent(t) PROVE Core'
  BY <1>18 DEF WriteEvent, Go
<1>19. ASSUME NEW t \in Streams, WriteFails(t) PROVE Core'
  <2>0. serving[t] \in Ids /\ holding[t] \in Requests
    <3>1. at[t] = "writing"
      BY <1>19 DEF WriteFails
    <3>2. serving[t] \in Ids
      BY <3>1
    <3>3. holding[t] # Nobody
      BY <3>1
    <3>4. holding[t] \in Requests \cup {Nobody}
      OBVIOUS
    <3> QED
      BY <3>2, <3>3, <3>4
  <2>1. at[t] = "writing" /\ at' = [at EXCEPT ![t] = "refusing"] /\ Disown(serving[t], holding[t])
    BY <1>19 DEF WriteFails, Go
  <2>2. /\ UNCHANGED <<restOfStore, serving, queue, holding, posts, routing, registry, put>>
        /\ shown' = shown \/ shown' = [shown EXCEPT ![holding[t]] = TRUE]
    BY <1>19 DEF WriteFails
  <2>3. OwnersMirrored'
    BY <2>0, <2>1, <2>2, Disowning
  <2>4. Types'
    <3>1. shown \in [Requests -> BOOLEAN]
      OBVIOUS
    <3>2. [shown EXCEPT ![holding[t]] = TRUE] \in [Requests -> BOOLEAN]
      BY <3>1
    <3>3. shown' \in [Requests -> BOOLEAN]
      BY <2>2, <3>1, <3>2, Zenon
    <3> QED
      BY <2>1, <2>2, <3>3
  <2>5. Handlers' /\ Registered'
    BY <2>1, <2>2
  <2>6. Routed'
    BY <2>0, <2>1, <2>2, Disowning
  <2> QED
    BY <2>3, <2>4, <2>5, <2>6
<1>20. ASSUME NEW t \in Streams, RefuseUnwritten(t) PROVE Core'
  <2>1. /\ at[t] = "refusing"
        /\ \E place \in {"open", "closing"} : at' = [at EXCEPT ![t] = place]
        /\ holding' = [holding EXCEPT ![t] = Nobody]
        /\ parked' = parked \ {holding[t]}
        /\ result' = [r \in Requests |->
                         IF r \in {holding[t]} \cap parked THEN GivenUp ELSE result[r]]
        /\ UNCHANGED <<store, serving, queue, posts, routing, started, pinned, asked, published,
                       phase, put, shown>>
    BY <1>20 DEF RefuseUnwritten, RefusePending, Go
  <2> QED
    BY <2>1
<1>21. ASSUME NEW t \in Streams, CloseStream(t) PROVE Core'
  BY <1>21 DEF CloseStream, Go
<1>22. ASSUME NEW t \in Streams, RemoveReqStream(t) PROVE Core'
  <2>1. /\ at[t] = "closing" /\ serving[t] \in Ids
        /\ at' = [at EXCEPT ![t] = "draining"]
        /\ reqStreams' = [reqStreams EXCEPT ![serving[t]] = reqStreams[serving[t]] \ {t}]
        /\ UNCHANGED <<live, gone, caps, pendingReqs, owner, orphaned, refusing>>
        /\ UNCHANGED <<serving, queue, holding, posts, routing, registry, put, shown>>
    BY <1>22 DEF RemoveReqStream, Go
  <2> QED
    BY <2>1
<1>23. ASSUME NEW t \in Streams, RefuseQueued(t) PROVE Core'
  <2> DEFINE r == Head(queue[t])
  <2>1. /\ at[t] = "draining" /\ serving[t] \in Ids /\ queue[t] # <<>>
        /\ at' = [at EXCEPT ![t] = "dropping"]
        /\ queue' = [queue EXCEPT ![t] = Tail(queue[t])]
        /\ holding' = [holding EXCEPT ![t] = r]
        /\ Disown(serving[t], r)
        /\ UNCHANGED <<restOfStore, serving, posts, routing, registry, put, shown>>
    BY <1>23 DEF RefuseQueued, Go
  <2>2. r \in Requests /\ Tail(queue[t]) \in Seq(Requests)
    BY <2>1, Dequeuing
  <2> HIDE DEF r
  <2>3. OwnersMirrored'
    BY <2>1, <2>2, Disowning
  <2> QED
    BY <2>1, <2>2, <2>3, Disowning
<1>24. ASSUME NEW t \in Streams, RefuseDropped(t) PROVE Core'
  BY <1>24 DEF RefuseDropped, RefusePending, Go
<1>25. ASSUME NEW t \in Streams, StreamEnded(t) PROVE Core'
  BY <1>25 DEF StreamEnded, Go
<1>26. ASSUME NEW r \in Requests, Publish(r) PROVE Core'
  BY <1>26 DEF Publish
<1>27. ASSUME NEW r \in Requests, Sweep(r) PROVE Core'
  BY <1>27 DEF Sweep
<1>28. ASSUME DropStale PROVE Core'
  BY <1>28 DEF DropStale
<1>29. ASSUME NEW t \in Streams, DeliverServerReq(t) PROVE Core'
  <2> DEFINE s == serving[t]
  <2>1. s \in live /\ t \in reqStreams[s] /\ routed \in Requests
    BY <1>29 DEF DeliverServerReq, Targets
  <2>2. /\ router = "routing"
        /\ queue' = [queue EXCEPT ![t] = Append(queue[t], routed)]
        /\ put' = [put EXCEPT ![routed] = s]
        /\ owner' = [owner EXCEPT ![routed] = s]
        /\ pendingReqs' = [pendingReqs EXCEPT ![s] = pendingReqs[s] \cup {routed}]
        /\ router' = "waiting" /\ routed' = Nobody
        /\ UNCHANGED <<restOfStore, at, serving, holding, posts, stale, registry, shown>>
    BY <1>29 DEF DeliverServerReq
  <2>3. Append(queue[t], routed) \in Seq(Requests)
    BY <2>1, Queueing
  <2>4. Types'
    BY <2>1, <2>2, <2>3
  <2>5. OwnersMirrored'
    <3>1. owner[routed] = Nobody /\ UNCHANGED live
      BY <2>1, <2>2
    <3> HIDE DEF s, Core, OwnersMirrored
    <3> QED
      BY <2>1, <2>2, <3>1, Owning
  <2>6. Handlers' /\ Registered'
    BY <2>2
  <2>7. Routed'
    BY <2>1, <2>2
  <2> QED
    BY <2>4, <2>5, <2>6, <2>7
<1>30. ASSUME RefuseUndelivered PROVE Core'
  BY <1>30 DEF RefuseUndelivered, RefusePending
<1>31. ASSUME NEW r \in Requests, RegistryGivesUp(r) PROVE Core'
  BY <1>31 DEF RegistryGivesUp, RefusePending
<1>32. ASSUME StopServing PROVE Core'
  BY <1>32 DEF StopServing
<1>33. ASSUME CloseRegistry PROVE Core'
  BY <1>33 DEF CloseRegistry, RefusePending
<1>34. ASSUME UNCHANGED vars PROVE Core'
  BY <1>34
<1> HIDE DEF Core
<1> QED
  BY <1>1, <1>2, <1>3, <1>4, <1>5, <1>6, <1>7, <1>8, <1>9, <1>10, <1>11, <1>12, <1>13, <1>14,
     <1>15, <1>16, <1>17, <1>18, <1>19, <1>20, <1>21, <1>22, <1>23, <1>24, <1>25, <1>26, <1>27,
     <1>28, <1>29, <1>30, <1>31, <1>32, <1>33, <1>34
     DEF Next, Client, Handle, Serve, Route

-----------------------------------------------------------------------------
(* streamStarted and streamEnded keep a session's count of its streams. *)
LEMMA CountedAreFinite ==
    ASSUME NEW s
    PROVE  IsFiniteSet(Counted(s)) /\ Cardinality(Counted(s)) \in Nat
<1>1. IsFiniteSet(Counted(s))
  BY StreamsAssumption, FS_Subset DEF Counted
<1> QED
  BY <1>1, FS_CardinalityType

LEMMA CountKept ==
    ASSUME Tallied, TallyBounded, UNCHANGED tally,
           \A t \in Streams :
              at'[t] \in {"off", "touched", "ended"} <=> at[t] \in {"off", "touched", "ended"},
           \A t \in Streams :
              at[t] \notin {"off", "touched", "ended"} => serving'[t] = serving[t]
    PROVE  Tallied' /\ TallyBounded'
<1>1. \A s \in Ids : Counted(s)' = Counted(s)
  BY DEF Counted
<1> QED
  BY <1>1 DEF Tallied, TallyBounded

LEMMA TallyStep ==
    ASSUME Core, Tallied, TallyBounded, [Next]_vars
    PROVE  Tallied' /\ TallyBounded'
<1> USE DEF Core, Types, Go
<1>1. ASSUME NEW t \in Streams, StreamStarted(t) PROVE Tallied' /\ TallyBounded'
  <2>1. PICK s \in Ids : s = serving[t] /\ at[t] = "touched" /\ UNCHANGED serving
    BY <1>1 DEF StreamStarted, Handlers
  <2>2. CASE tally[s] >= MaxStreams
    <3>1. at' = [at EXCEPT ![t] = "ended"] /\ UNCHANGED tally
      BY <1>1, <2>1, <2>2 DEF StreamStarted
    <3> QED
      BY <2>1, <3>1, CountKept
  <2>3. CASE ~(tally[s] >= MaxStreams)
    <3>1. at' = [at EXCEPT ![t] = "counted"] /\ tally' = [tally EXCEPT ![s] = @ + 1]
      BY <1>1, <2>1, <2>3 DEF StreamStarted
    <3>2. tally[s] \in 0 .. MaxStreams /\ MaxStreams \in Nat
      BY <2>1, BoundsAssumption DEF TallyBounded
    <3>3. \A x \in Ids : tally'[x] = IF x = s THEN tally[x] + 1 ELSE tally[x]
      BY <2>1, <3>1 DEF TallyBounded
    <3>4. Counted(s)' = Counted(s) \cup {t} /\ t \notin Counted(s)
      BY <2>1, <3>1 DEF Counted
    <3>5. Cardinality(Counted(s)') = Cardinality(Counted(s)) + 1
      <4> HIDE DEF Core, Types
      <4>1. IsFiniteSet(Counted(s))
        BY CountedAreFinite
      <4> QED
        BY <3>4, <4>1, FS_AddElement
    <3>6. \A x \in Ids : x # s => Counted(x)' = Counted(x)
      BY <2>1, <3>1 DEF Counted
    <3>7. Tallied'
      BY <2>1, <3>3, <3>5, <3>6 DEF Tallied
    <3>8. TallyBounded'
      BY <2>1, <2>3, <3>1, <3>2 DEF TallyBounded
    <3> QED
      BY <3>7, <3>8
  <2> QED
    BY <2>2, <2>3
<1>2. ASSUME NEW t \in Streams, StreamEnded(t) PROVE Tallied' /\ TallyBounded'
  <2>1. PICK s \in Ids :
        /\ s = serving[t] /\ at[t] = "draining"
        /\ at' = [at EXCEPT ![t] = "ended"]
        /\ serving' = [serving EXCEPT ![t] = Nobody]
        /\ tally' = [tally EXCEPT ![s] = @ - 1]
    BY <1>2 DEF StreamEnded, Handlers
  <2>2. \A x \in Ids : tally'[x] = IF x = s THEN tally[x] - 1 ELSE tally[x]
    BY <2>1 DEF TallyBounded
  <2>3. Counted(s)' = Counted(s) \ {t} /\ t \in Counted(s)
    BY <2>1 DEF Counted
  <2>4. Cardinality(Counted(s)') = Cardinality(Counted(s)) - 1
    <3> HIDE DEF Core, Types
    <3>1. IsFiniteSet(Counted(s))
      BY CountedAreFinite
    <3> QED
      BY <2>3, <3>1, FS_RemoveElement
  <2>5. \A x \in Ids : x # s => Counted(x)' = Counted(x)
    BY <2>1, NobodyAssumption DEF Counted
  <2>6. Tallied'
    BY <2>1, <2>2, <2>4, <2>5 DEF Tallied
  <2>7. tally'[s] \in Nat
    <3>1. tally'[s] = Cardinality(Counted(s)')
      BY <2>1, <2>6 DEF Tallied
    <3>2. Cardinality(Counted(s)') \in Nat
      BY <2>3, CountedAreFinite, FS_RemoveElement, FS_CardinalityType
    <3> QED
      BY <3>1, <3>2
  <2>8. TallyBounded'
    BY <2>1, <2>2, <2>7, BoundsAssumption DEF TallyBounded
  <2> QED
    BY <2>6, <2>8
<1>3. ASSUME NEW t \in Streams,
             \/ AddReqStream(t) \/ TakeEvent(t) \/ WriteEvent(t) \/ WriteFails(t)
             \/ RefuseUnwritten(t) \/ CloseStream(t) \/ RemoveReqStream(t) \/ RefuseQueued(t)
             \/ RefuseDropped(t)
      PROVE  Tallied' /\ TallyBounded'
  <2>1. UNCHANGED <<tally, serving>>
    BY <1>3 DEF AddReqStream, TakeEvent, WriteEvent, WriteFails, RefuseUnwritten, CloseStream,
                RemoveReqStream, RefuseQueued, RefuseDropped
  <2>2. /\ at[t] \notin {"off", "touched", "ended"}
        /\ \E place \in {"open", "writing", "refusing", "closing", "draining", "dropping"} :
              at' = [at EXCEPT ![t] = place]
    BY <1>3 DEF AddReqStream, TakeEvent, WriteEvent, WriteFails, RefuseUnwritten, CloseStream,
                RemoveReqStream, RefuseQueued, RefuseDropped
  <2> QED
    BY <2>1, <2>2, CountKept
<1>4. ASSUME NEW t \in Streams, NEW s \in Ids, OpenStream(t, s) PROVE Tallied' /\ TallyBounded'
  <2>1. UNCHANGED tally
    BY <1>4 DEF OpenStream, Expire
  <2>2. \/ UNCHANGED <<at, serving>>
        \/ /\ at[t] = "off" /\ at' = [at EXCEPT ![t] = "touched"]
           /\ serving' = [serving EXCEPT ![t] = s]
    BY <1>4 DEF OpenStream
  <2> QED
    BY <2>1, <2>2, CountKept
<1>5. ASSUME UNCHANGED <<tally, at, serving>> PROVE Tallied' /\ TallyBounded'
  BY <1>5, CountKept
<1>6. ASSUME NEW p \in Posts, Handle(p) PROVE UNCHANGED <<tally, at, serving>>
  BY <1>6 DEF Handle, EnsureRegistry, ReplyInitialized, Reinit, TakeServerReq, RouteAnswer
<1>7. ASSUME ModernPost \/ \E s \in Ids : Terminate(s) PROVE UNCHANGED <<tally, at, serving>>
  BY <1>7 DEF ModernPost, Terminate
<1>8. ASSUME NEW p \in Posts, NEW s \in Ids,
             Create(p, s) \/ PostInitialize(p, s) \/ \E r \in Requests : PostAnswer(p, s, r)
      PROVE  UNCHANGED <<tally, at, serving>>
  BY <1>8 DEF Create, PostInitialize, PostAnswer, Touch, Expire
<1>9. ASSUME \/ Drain \/ RegistryStarts \/ StopServing \/ CloseRegistry \/ UNCHANGED vars
             \/ \E r \in Requests : RefuseOrphaned(r) \/ Publish(r) \/ RegistryGivesUp(r)
      PROVE  UNCHANGED <<tally, at, serving>>
  BY <1>9 DEF Drain, RegistryStarts, StopServing, CloseRegistry, RefuseOrphaned, Publish,
              RegistryGivesUp
<1>10. ASSUME Route PROVE UNCHANGED <<tally, at, serving>>
  BY <1>10 DEF Route, Sweep, DropStale, RefuseUndelivered, DeliverServerReq
<1> QED
  BY <1>1, <1>2, <1>3, <1>4, <1>5, <1>6, <1>7, <1>8, <1>9, <1>10 DEF Next, Client, Serve

-----------------------------------------------------------------------------
(* A question is accounted for by the same handler, record or list. *)
LEMMA StillAccounted ==
    ASSUME NEW r, Accounted(r),
           UNCHANGED <<published, routed, owner, shown, queue, holding, at>>,
           orphaned \cup refusing \subseteq orphaned' \cup refusing',
           \A p \in Posts : pc[p] = "claimed" => pc'[p] = "claimed" /\ what'[p] = what[p]
    PROVE  Accounted(r)'
  BY DEF Accounted, InHandler

(* A removed session's questions become orphans. *)
LEMMA OrphanedAccounted ==
    ASSUME Core, NEW S \in SUBSET live, Forget(S), NEW r \in parked, Accounted(r),
           UNCHANGED <<published, routed, refusing, shown, queue, holding, at>>,
           \A p \in Posts : pc[p] = "claimed" => pc'[p] = "claimed" /\ what'[p] = what[p]
    PROVE  Accounted(r)'
<1>1. r \in Requests
  BY DEF Core, Types
<1>2. CASE owner[r] \in S
  BY <1>1, <1>2, Forgetting DEF Accounted
<1>3. CASE owner[r] \notin S
  <2>1. owner'[r] = owner[r] /\ orphaned \subseteq orphaned'
    BY <1>1, <1>3, Forgetting
  <2> QED
    BY <2>1 DEF Accounted, InHandler
<1> QED
  BY <1>2, <1>3

LEMMA AccountedStep ==
    ASSUME Core, NoneStranded, [Next]_vars, NEW r \in parked'
    PROVE  Accounted(r)'
<1> USE NobodyAssumption DEF Step, Finish, Go
<1>0. r \in parked => r \in Requests /\ Accounted(r)
  BY DEF NoneStranded, Core, Types
<1>1. ASSUME NEW p \in Posts, NEW s \in Ids, Create(p, s) PROVE Accounted(r)'
  <2>1. PICK S \in SUBSET live : Forget(S)
    BY <1>1 DEF Create
  <2>2. /\ r \in parked
        /\ UNCHANGED <<published, routed, refusing, shown, queue, holding, at>>
        /\ \A q \in Posts : pc[q] = "claimed" => pc'[q] = "claimed" /\ what'[q] = what[q]
    BY <1>1 DEF Create, Core, Types
  <2> QED
    BY <1>0, <2>1, <2>2, OrphanedAccounted
<1>2. ASSUME NEW s \in Ids, Terminate(s) PROVE Accounted(r)'
  <2>1. Forget({s}) /\ {s} \in SUBSET live
    BY <1>2 DEF Terminate, Known
  <2>2. r \in parked /\ UNCHANGED <<published, routed, refusing, shown, queue, holding, at, posts>>
    BY <1>2 DEF Terminate
  <2> QED
    BY <1>0, <2>1, <2>2, OrphanedAccounted
<1>3. ASSUME NEW p \in Posts, NEW s \in Ids, NEW place \in {"reinit", "answer"},
             NEW q \in Requests \cup {Nobody}, Touch(p, s, place, q)
      PROVE  Accounted(r)'
  <2>1. /\ r \in parked
        /\ UNCHANGED <<published, routed, refusing, shown, queue, holding, at>>
        /\ \A d \in Posts : pc[d] = "claimed" => pc'[d] = "claimed" /\ what'[d] = what[d]
    BY <1>3 DEF Touch, Expire, Core, Types
  <2>2. CASE Expire(s)
    <3>1. Forget({s}) /\ {s} \in SUBSET live
      BY <2>2 DEF Expire, MayExpire
    <3> QED
      BY <1>0, <2>1, <3>1, OrphanedAccounted
  <2>3. CASE UNCHANGED store
    BY <1>0, <2>1, <2>3, StillAccounted
  <2> QED
    BY <1>3, <2>2, <2>3 DEF Touch
<1>4. ASSUME NEW t \in Streams, NEW s \in Ids, OpenStream(t, s) PROVE Accounted(r)'
  <2>1. /\ r \in parked
        /\ UNCHANGED <<published, routed, refusing, shown, queue, holding, posts>>
    BY <1>4 DEF OpenStream, Expire
  <2>2. CASE Expire(s) /\ UNCHANGED at
    <3>1. Forget({s}) /\ {s} \in SUBSET live
      BY <2>2 DEF Expire, MayExpire
    <3> QED
      BY <1>0, <2>1, <2>2, <3>1, OrphanedAccounted
  <2>3. CASE at[t] = "off" /\ at' = [at EXCEPT ![t] = "touched"] /\ UNCHANGED store
    BY <1>0, <2>1, <2>3 DEF Accounted, InHandler, Core, Types
  <2> QED
    BY <1>4, <2>2, <2>3 DEF OpenStream
<1>5. ASSUME NEW p \in Posts, TakeServerReq(p) PROVE Accounted(r)'
  <2>1. /\ pc[p] = "answer" /\ who[p] \in Ids /\ what[p] \in Requests /\ r \in parked
        /\ Disown(who[p], what[p])
        /\ UNCHANGED <<published, routed, orphaned, refusing, shown, queue, holding, at>>
    BY <1>5 DEF TakeServerReq, Core, Handlers
  <2>2. CASE owner[what[p]] = who[p]
    <3>1. pc' = [pc EXCEPT ![p] = "claimed"] /\ UNCHANGED what
      BY <1>5, <2>2 DEF TakeServerReq
    <3>2. \A d \in Requests : d # what[p] => owner'[d] = owner[d]
      BY <2>1, Disowning
    <3> QED
      BY <1>0, <2>1, <3>1, <3>2 DEF Accounted, InHandler, Core, Types
  <2>3. CASE owner[what[p]] # who[p]
    <3>1. UNCHANGED owner
      BY <2>1, <2>3 DEF Disown
    <3>2. \A d \in Posts : pc[d] = "claimed" => pc'[d] = "claimed" /\ what'[d] = what[d]
      BY <1>5, <2>1, <2>3 DEF TakeServerReq, Core, Types
    <3> QED
      BY <1>0, <2>1, <3>1, <3>2, StillAccounted
  <2> QED
    BY <2>2, <2>3
<1>6. ASSUME NEW p \in Posts, RouteAnswer(p) PROVE Accounted(r)'
  <2>1. /\ r \in parked /\ r # what[p]
        /\ \A d \in Posts \ {p} : pc'[d] = pc[d] /\ what'[d] = what[d]
        /\ UNCHANGED <<store, gets, published, routed, shown>>
    BY <1>6 DEF RouteAnswer, Core, Types
  <2> QED
    BY <1>0, <2>1 DEF Accounted, InHandler
<1>7. ASSUME NEW p \in Posts, EnsureRegistry(p) \/ ReplyInitialized(p) \/ Reinit(p)
      PROVE  Accounted(r)'
  <2>1. /\ r \in parked
        /\ UNCHANGED <<published, routed, owner, shown, queue, holding, at, orphaned, refusing>>
        /\ \A d \in Posts : pc[d] = "claimed" => pc'[d] = "claimed" /\ what'[d] = what[d]
    BY <1>7 DEF EnsureRegistry, ReplyInitialized, Reinit, Core, Types
  <2> QED
    BY <1>0, <2>1, StillAccounted
<1>8. ASSUME ModernPost \/ RegistryStarts \/ Drain \/ StopServing \/ UNCHANGED vars
      PROVE  Accounted(r)'
  <2>1. /\ r \in parked
        /\ UNCHANGED <<published, routed, owner, shown, queue, holding, at, posts>>
        /\ orphaned \cup refusing \subseteq orphaned' \cup refusing'
    BY <1>8 DEF ModernPost, RegistryStarts, Drain, StopServing
  <2> QED
    BY <1>0, <2>1, StillAccounted
<1>9. ASSUME NEW q \in Requests, RefuseOrphaned(q) PROVE Accounted(r)'
  BY <1>9, <1>0 DEF RefuseOrphaned, RefusePending, Accounted, InHandler
<1>10. ASSUME NEW q \in Requests, RegistryGivesUp(q) PROVE Accounted(r)'
  BY <1>10, <1>0 DEF RegistryGivesUp, RefusePending, Accounted, InHandler
<1>11. ASSUME NEW q \in Requests, Publish(q) PROVE Accounted(r)'
  BY <1>11, <1>0 DEF Publish, Accounted, InHandler
<1>12. ASSUME CloseRegistry PROVE Accounted(r)'
  BY <1>12 DEF CloseRegistry, RefusePending
<1>13. ASSUME NEW q \in Requests, Sweep(q) PROVE Accounted(r)'
  BY <1>13, <1>0 DEF Sweep, Accounted, InHandler, Core, Routed
<1>14. ASSUME DropStale PROVE Accounted(r)'
  BY <1>14, <1>0 DEF DropStale, Accounted, InHandler, Core, Types, Routed
<1>15. ASSUME RefuseUndelivered PROVE Accounted(r)'
  BY <1>15, <1>0 DEF RefuseUndelivered, RefusePending, Accounted, InHandler
<1>16. ASSUME NEW t \in Streams, DeliverServerReq(t) PROVE Accounted(r)'
  <2>1. PICK s \in live : s = serving[t] /\ t \in reqStreams[s]
    BY <1>16 DEF DeliverServerReq, Targets, Core, Types, Registered
  <2>2. /\ r \in parked /\ routed \in Requests
        /\ queue' = [queue EXCEPT ![t] = Append(queue[t], routed)]
        /\ owner' = [owner EXCEPT ![routed] = s]
        /\ UNCHANGED <<published, orphaned, refusing, shown, holding, at, posts>>
    BY <1>16, <2>1 DEF DeliverServerReq, Core, Types, Routed
  <2>3. /\ at[t] \in {"open", "writing", "refusing", "closing"} /\ s # Nobody
        /\ queue[t] \in Seq(Requests)
    BY <2>1 DEF Core, Types, Registered
  <2>4. \A x \in Streams : \A i \in DOMAIN queue[x] :
           i \in DOMAIN queue'[x] /\ queue'[x][i] = queue[x][i]
    BY <2>2, <2>3, Queueing DEF Core, Types
  <2>5. \E i \in DOMAIN queue'[t] : queue'[t][i] = routed
    <3>1. queue'[t] = Append(queue[t], routed)
      BY <2>2 DEF Core, Types
    <3>2. Len(queue[t]) + 1 \in DOMAIN queue'[t] /\ queue'[t][Len(queue[t]) + 1] = routed
      BY <2>2, <2>3, <3>1, Queueing
    <3> QED
      BY <3>2
  <2>6. CASE r = routed
    BY <2>2, <2>3, <2>5, <2>6 DEF Accounted, InHandler, Core, OwnersMirrored
  <2>7. CASE r # routed
    <3>1. owner'[r] = owner[r]
      BY <1>0, <2>2, <2>7 DEF Core, OwnersMirrored
    <3>2. InHandler(r) => InHandler(r)'
      BY <2>2, <2>4 DEF InHandler
    <3> QED
      BY <1>0, <2>2, <2>7, <3>1, <3>2 DEF Accounted
  <2> QED
    BY <2>6, <2>7
<1>17. ASSUME NEW t \in Streams,
              StreamStarted(t) \/ AddReqStream(t) \/ CloseStream(t) \/ RemoveReqStream(t)
       PROVE  Accounted(r)'
  <2>1. /\ r \in parked
        /\ UNCHANGED <<published, routed, owner, shown, queue, holding, orphaned, refusing, posts>>
        /\ \A x \in Streams :
              at[x] \in {"open", "writing", "refusing", "closing", "draining", "dropping"}
              => at'[x] \in {"open", "writing", "refusing", "closing", "draining", "dropping"}
        /\ \A x \in Streams : at[x] \in {"refusing", "dropping"} => at'[x] = at[x]
    BY <1>17 DEF StreamStarted, AddReqStream, CloseStream, RemoveReqStream, Core, Types
  <2> QED
    BY <1>0, <2>1 DEF Accounted, InHandler
<1>18. ASSUME NEW t \in Streams, StreamEnded(t) PROVE Accounted(r)'
  <2>1. /\ r \in parked /\ queue[t] = <<>> /\ at[t] = "draining"
        /\ at' = [at EXCEPT ![t] = "ended"]
        /\ UNCHANGED <<published, routed, owner, shown, queue, holding, orphaned, refusing, posts>>
    BY <1>18 DEF StreamEnded
  <2>2. InHandler(r) => InHandler(r)'
    <3>1. DOMAIN queue[t] = {}
      BY <2>1
    <3>2. \A x \in Streams : x # t => at'[x] = at[x]
      BY <2>1 DEF Core, Types
    <3> QED
      BY <2>1, <3>1, <3>2 DEF InHandler
  <2> QED
    BY <1>0, <2>1, <2>2 DEF Accounted, Core, Types
<1>19. ASSUME NEW t \in Streams, TakeEvent(t) \/ RefuseQueued(t) PROVE Accounted(r)'
  <2>1. /\ r \in parked /\ queue[t] # <<>> /\ queue[t] \in Seq(Requests)
        /\ at[t] \in {"open", "draining"}
        /\ queue' = [queue EXCEPT ![t] = Tail(queue[t])]
        /\ holding' = [holding EXCEPT ![t] = Head(queue[t])]
        /\ UNCHANGED <<published, routed, shown, orphaned, refusing, posts>>
        /\ \/ at[t] = "open" /\ at' = [at EXCEPT ![t] = "writing"] /\ UNCHANGED owner
           \/ /\ at[t] = "draining" /\ at' = [at EXCEPT ![t] = "dropping"]
              /\ Disown(serving[t], Head(queue[t]))
    BY <1>19 DEF TakeEvent, RefuseQueued, Core, Types
  <2>2. Head(queue[t]) \in Requests /\ Head(queue[t]) = queue[t][1]
    BY <2>1, Dequeuing
  <2>3. r = Head(queue[t]) \/ owner'[r] = owner[r]
    BY <1>0, <2>1, <2>2, Disowning DEF Core, Handlers
  <2>4. CASE r = Head(queue[t])
    <3>1. holding'[t] = r
      BY <2>1, <2>4 DEF Core, Types
    <3>2. CASE at[t] = "draining"
      BY <2>1, <3>1, <3>2 DEF Accounted, Core, Types
    <3>3. CASE at[t] = "open"
      <4>1. \A x \in Streams : at[x] \in {"refusing", "dropping"} =>
               at'[x] = at[x] /\ holding'[x] = holding[x]
        BY <2>1, <3>3 DEF Core, Types
      <4> QED
        BY <1>0, <2>1, <3>1, <3>3, <4>1 DEF Accounted, InHandler
    <3> QED
      BY <2>1, <3>2, <3>3
  <2>5. CASE r # Head(queue[t])
    <3>1. InHandler(r) => InHandler(r)'
      <4>1. holding[t] = Nobody
        BY <2>1 DEF Core, Handlers
      <4>2. \A x \in Streams : x # t =>
               at'[x] = at[x] /\ holding'[x] = holding[x] /\ queue'[x] = queue[x]
        BY <2>1 DEF Core, Types
      <4>3. /\ queue'[t] = Tail(queue[t])
            /\ at'[t] \in {"writing", "dropping"}
        BY <2>1 DEF Core, Types
      <4>4. \A i \in DOMAIN queue[t] : queue[t][i] = r =>
               \E j \in DOMAIN queue'[t] : queue'[t][j] = r
        <5> DEFINE q == queue[t]
        <5>1. q \in Seq(Requests) /\ q # <<>>
          BY <2>1
        <5>2. \A i \in DOMAIN q : i = 1 \/ (i - 1 \in DOMAIN Tail(q) /\ Tail(q)[i - 1] = q[i])
          BY ONLY <5>1, Dequeuing
        <5> QED
          BY <2>2, <2>5, <4>3, <5>2
      <4>5. r # Nobody
        BY <1>0, <2>1
      <4> QED
        BY <4>1, <4>2, <4>3, <4>4, <4>5 DEF InHandler
    <3>2. CASE r \in published \/ routed = r \/ r \in orphaned \cup refusing
      BY <2>1, <3>2 DEF Accounted
    <3>3. CASE owner[r] # Nobody /\ (shown[r] \/ InHandler(r))
      BY <2>1, <2>3, <2>5, <3>1, <3>3 DEF Accounted
    <3>4. CASE \E x \in Streams : holding[x] = r /\ at[x] \in {"refusing", "dropping"}
      <4>1. PICK x \in Streams : holding[x] = r /\ at[x] \in {"refusing", "dropping"}
        BY <3>4
      <4>2. x # t
        BY <2>1, <4>1
      <4>3. holding'[x] = r /\ at'[x] = at[x]
        BY <2>1, <4>1, <4>2 DEF Core, Types
      <4> QED
        BY <4>1, <4>3 DEF Accounted
    <3>5. CASE \E p \in Posts : pc[p] = "claimed" /\ what[p] = r
      BY <2>1, <3>5 DEF Accounted
    <3>6. Accounted(r)
      BY <1>0, <2>1
    <3> QED
      BY <3>2, <3>3, <3>4, <3>5, <3>6 DEF Accounted
  <2> QED
    BY <2>4, <2>5
<1>20. ASSUME NEW t \in Streams, WriteEvent(t) PROVE Accounted(r)'
  BY <1>20, <1>0 DEF WriteEvent, Accounted, InHandler, Core, Types
<1>21. ASSUME NEW t \in Streams, WriteFails(t) PROVE Accounted(r)'
  <2>1. /\ r \in parked /\ at[t] = "writing" /\ at' = [at EXCEPT ![t] = "refusing"]
        /\ Disown(serving[t], holding[t]) /\ serving[t] \in Ids /\ holding[t] \in Requests
        /\ UNCHANGED <<published, routed, queue, holding, orphaned, refusing, posts>>
    BY <1>21 DEF WriteFails, Core, Types, Handlers
  <2>2. shown[r] => shown'[r]
    BY <1>21, <1>0, <2>1 DEF WriteFails, Core, Types
  <2>3. r = holding[t] \/ owner'[r] = owner[r]
    BY <1>0, <2>1, Disowning
  <2> QED
    BY <1>0, <2>1, <2>2, <2>3 DEF Accounted, InHandler, Core, Types
<1>22. ASSUME NEW t \in Streams, RefuseUnwritten(t) \/ RefuseDropped(t) PROVE Accounted(r)'
  <2>1. /\ r \in parked /\ r # holding[t] /\ at[t] \in {"refusing", "dropping"}
        /\ \E place \in {"open", "closing", "draining"} : at' = [at EXCEPT ![t] = place]
        /\ holding' = [holding EXCEPT ![t] = Nobody]
        /\ UNCHANGED <<published, routed, owner, shown, queue, orphaned, refusing, posts>>
    BY <1>22 DEF RefuseUnwritten, RefuseDropped, RefusePending
  <2> QED
    BY <1>0, <2>1 DEF Accounted, InHandler, Core, Types
<1> QED
  BY <1>1, <1>2, <1>3, <1>4, <1>5, <1>6, <1>7, <1>8, <1>9, <1>10, <1>11, <1>12, <1>13, <1>14,
     <1>15, <1>16, <1>17, <1>18, <1>19, <1>20, <1>21, <1>22
     DEF Next, Client, Handle, Serve, Route, PostInitialize, PostAnswer

-----------------------------------------------------------------------------
(* The inductive invariant: the two records of who owns a question mirror  *)
(* each other, and each question is where its record says.                 *)
THEOREM SessionsInvariant == Safety => []Inv
<1>1. Init => Inv
  <2> SUFFICES ASSUME Init PROVE Inv
    OBVIOUS
  <2>1. Core /\ TallyBounded /\ NoneStranded
    BY InitCore, BoundsAssumption DEF Init, TallyBounded, NoneStranded
  <2>2. Tallied
    <3>1. \A s \in Ids : Counted(s) = {}
      BY DEF Init, Counted
    <3> QED
      BY <3>1, FS_EmptySet DEF Init, Tallied
  <2> QED
    BY <2>1, <2>2 DEF Inv
<1>2. Inv /\ [Next]_vars => Inv'
  BY CoreStep, TallyStep, AccountedStep DEF Inv, NoneStranded
<1> QED
  BY <1>1, <1>2, PTL DEF Safety

(* Every variable has its type; reqOwners and the sessions' pendingReqs    *)
(* stay the mirror of one another through removeLocked, takeServerReq,     *)
(* dropServerReqs and deliverServerReq, so no removed session owns         *)
(* anything; and no session has more streams than maxStreams allows.       *)
THEOREM SessionsTyping == Safety => []TypeOK
<1>1. Inv => TypeOK
  BY DEF Inv, Core, TypeOK
<1> QED
  BY <1>1, SessionsInvariant, PTL

(* A session's count of its streams is right, not only within bounds: a    *)
(* stream adds itself once, when it starts, and takes itself off once,     *)
(* however it ends, so the streams that are open are never more than       *)
(* maxStreams and none that ended keeps a place (streamStarted,            *)
(* streamEnded).                                                           *)
StreamsWithinCap ==
    \A s \in Ids :
        tally[s] = Cardinality(Counted(s)) /\ Cardinality(Counted(s)) <= MaxStreams

THEOREM StreamsAreTallied == Safety => []StreamsWithinCap
<1>1. Inv => StreamsWithinCap
  BY BoundsAssumption DEF Inv, TallyBounded, Tallied, StreamsWithinCap
<1> QED
  BY <1>1, SessionsInvariant, PTL

(* A question the registry waits for is published or being routed, lies    *)
(* before its session or in a handler that will show or refuse it, or is   *)
(* an orphan somebody will refuse, or is being answered.                   *)
THEOREM QuestionsAreAccounted == Safety => []NoneStranded
<1>1. Inv => NoneStranded
  BY DEF Inv
<1> QED
  BY <1>1, SessionsInvariant, PTL

(* reinit refuses a session that has been removed since touch found it,    *)
(* and no other handler brings one back.                                   *)
LEMMA RemovedStays ==
    ASSUME Core, [Next]_vars, NEW s \in gone
    PROVE  s \notin live' /\ caps'[s] = caps[s]
<1>1. s \in Ids /\ s \notin live
  BY DEF Core, Types, Registered
<1>2. ASSUME NEW p \in Posts, NEW x \in Ids, Create(p, x)
      PROVE  s \notin live' /\ caps'[s] = caps[s]
  BY <1>1, <1>2 DEF Create, Core, Types
<1>3. ASSUME NEW p \in Posts, Reinit(p) PROVE s \notin live' /\ caps'[s] = caps[s]
  BY <1>1, <1>3 DEF Reinit, Core, Types
<1>4. ASSUME NEW p \in Posts, NEW x \in Ids,
             PostInitialize(p, x) \/ \E r \in Requests : PostAnswer(p, x, r)
      PROVE  live' \subseteq live /\ UNCHANGED caps
  BY <1>4 DEF PostInitialize, PostAnswer, Touch, Expire
<1>5. ASSUME NEW t \in Streams, NEW x \in Ids, OpenStream(t, x)
      PROVE  live' \subseteq live /\ UNCHANGED caps
  BY <1>5 DEF OpenStream, Expire
<1>6. ASSUME NEW t \in Streams, Serve(t) \/ CloseStream(t) PROVE UNCHANGED <<live, caps>>
  BY <1>6 DEF Serve, CloseStream, StreamStarted, AddReqStream, TakeEvent, WriteEvent, WriteFails,
              RefuseUnwritten, RemoveReqStream, RefuseQueued, RefuseDropped, StreamEnded
<1>7. ASSUME NEW p \in Posts,
             EnsureRegistry(p) \/ ReplyInitialized(p) \/ TakeServerReq(p) \/ RouteAnswer(p)
      PROVE  UNCHANGED <<live, caps>>
  BY <1>7 DEF EnsureRegistry, ReplyInitialized, TakeServerReq, RouteAnswer
<1>8. ASSUME \/ ModernPost \/ Drain \/ RegistryStarts \/ StopServing \/ CloseRegistry
             \/ UNCHANGED vars \/ \E x \in Ids : Terminate(x)
      PROVE  live' \subseteq live /\ UNCHANGED caps
  BY <1>8 DEF ModernPost, Drain, RegistryStarts, StopServing, CloseRegistry, Terminate
<1>9. ASSUME \/ Route
             \/ \E r \in Requests : RefuseOrphaned(r) \/ Publish(r) \/ RegistryGivesUp(r)
      PROVE  UNCHANGED <<live, caps>>
  BY <1>9 DEF Route, Sweep, DropStale, RefuseUndelivered, DeliverServerReq, RefuseOrphaned,
              Publish, RegistryGivesUp
<1> QED
  BY <1>1, <1>2, <1>3, <1>4, <1>5, <1>6, <1>7, <1>8, <1>9 DEF Next, Client, Handle

(* A session that has been removed is never back in the map and never      *)
(* given another client's capabilities.                                    *)
THEOREM RemovedForGood == Safety => NoResurrection
<1>1. Inv /\ [Next]_vars => [\A s \in gone : s \notin live' /\ caps'[s] = caps[s]]_vars
  BY RemovedStays DEF Inv
<1> QED
  BY <1>1, SessionsInvariant, PTL DEF Safety, NoResurrection

-----------------------------------------------------------------------------
(* Giving up on questions, one or many, settles those still waited for. *)
LEMMA RefusalRefines ==
    ASSUME Core, NEW R \in SUBSET Requests, RefusePending(R), UNCHANGED put
    PROVE  U!Next
<1>1. U!GiveUp(R \cap parked)
  BY DEF RefusePending, U!GiveUp, Core, Types, Routed
<1> QED
  BY <1>1 DEF U!Next

LEMMA StepRefines ==
    ASSUME Core, [Next]_vars
    PROVE  [U!Next]_(U!vars)
<1> USE DEF U!vars
<1>1. ASSUME NEW t \in Streams, DeliverServerReq(t) PROVE U!Next
  <2>1. /\ routed \in Requests /\ put[routed] = Nobody /\ serving[t] \in Ids
        /\ put' = [put EXCEPT ![routed] = serving[t]] /\ UNCHANGED result
    BY <1>1 DEF DeliverServerReq, Targets, Core, Types, Registered, Routed
  <2> QED
    BY <2>1 DEF U!Put, U!Next
<1>2. ASSUME NEW p \in Posts, RouteAnswer(p) PROVE [U!Next]_(U!vars)
  <2>1. PICK r \in Requests : r = what[p] /\ put[r] = who[p] /\ who[p] # Nobody
    BY <1>2, NobodyAssumption DEF RouteAnswer, Core, Handlers, Routed
  <2>2. UNCHANGED put /\ result' = [result EXCEPT ![r] = IF r \in parked THEN who[p] ELSE @]
    BY <1>2, <2>1 DEF RouteAnswer
  <2>3. CASE r \in parked
    <3>1. U!Answer(r)
      BY <2>1, <2>2, <2>3 DEF U!Answer, Core, Routed
    <3> QED
      BY <3>1 DEF U!Next
  <2>4. CASE r \notin parked
    BY <2>1, <2>2, <2>4 DEF Core, Types
  <2> QED
    BY <2>3, <2>4
<1>3. ASSUME NEW R \in SUBSET Requests, RefusePending(R), UNCHANGED put PROVE U!Next
  BY <1>3, RefusalRefines
<1>4. ASSUME NEW r \in Requests, RefuseOrphaned(r) \/ RegistryGivesUp(r) PROVE U!Next
  BY <1>4, <1>3 DEF RefuseOrphaned, RegistryGivesUp
<1>5. ASSUME NEW t \in Streams, RefuseUnwritten(t) \/ RefuseDropped(t) PROVE U!Next
  <2>1. holding[t] \in Requests
    BY <1>5 DEF RefuseUnwritten, RefuseDropped, Core, Types, Handlers
  <2> QED
    BY <1>5, <2>1, <1>3 DEF RefuseUnwritten, RefuseDropped
<1>6. ASSUME RefuseUndelivered \/ CloseRegistry PROVE U!Next
  <2>1. RefuseUndelivered => routed \in Requests
    BY DEF RefuseUndelivered, Core, Types, Routed
  <2>2. parked \subseteq Requests
    BY DEF Core, Types
  <2> QED
    BY <1>6, <1>3, <2>1, <2>2 DEF RefuseUndelivered, CloseRegistry
<1>7. ASSUME Client PROVE UNCHANGED <<put, result>>
  BY <1>7 DEF Client, ModernPost, Terminate, Create, PostInitialize, PostAnswer, Touch, OpenStream
<1>8. ASSUME NEW t \in Streams,
             \/ StreamStarted(t) \/ AddReqStream(t) \/ TakeEvent(t) \/ WriteEvent(t)
             \/ WriteFails(t) \/ CloseStream(t) \/ RemoveReqStream(t) \/ RefuseQueued(t)
             \/ StreamEnded(t)
      PROVE  UNCHANGED <<put, result>>
  BY <1>8 DEF StreamStarted, AddReqStream, TakeEvent, WriteEvent, WriteFails, CloseStream,
              RemoveReqStream, RefuseQueued, StreamEnded
<1>9. ASSUME NEW p \in Posts,
             EnsureRegistry(p) \/ ReplyInitialized(p) \/ Reinit(p) \/ TakeServerReq(p)
      PROVE  UNCHANGED <<put, result>>
  BY <1>9 DEF EnsureRegistry, ReplyInitialized, Reinit, TakeServerReq
<1>10. ASSUME \/ Drain \/ RegistryStarts \/ StopServing \/ DropStale \/ UNCHANGED vars
              \/ \E r \in Requests : Publish(r) \/ Sweep(r)
       PROVE  UNCHANGED <<put, result>>
  BY <1>10 DEF Drain, RegistryStarts, StopServing, DropStale, Publish, Sweep
<1> QED
  BY <1>1, <1>2, <1>4, <1>5, <1>6, <1>7, <1>8, <1>9, <1>10 DEF Next, Handle, Serve, Route

(* A question is put to the streams of one session at most, and no other   *)
(* session's answer is taken for it; it is settled once, by that answer or *)
(* by being given up.                                                      *)
THEOREM SessionsRefine == Safety => ImplementsUnicast
<1>1. Init => U!Init
  BY DEF Init, U!Init
<1>2. Inv /\ [Next]_vars => [U!Next]_(U!vars)
  BY StepRefines DEF Inv
<1> QED
  BY <1>1, <1>2, SessionsInvariant, PTL DEF Safety, ImplementsUnicast, U!Spec
=============================================================================
