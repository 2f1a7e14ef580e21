---------------------------- MODULE CallsProofs ----------------------------
(***************************************************************************)
(* Theorems about Calls, for any calls, clients and request ids, any       *)
(* number of connections, and any values max_concurrent is reloaded to.    *)
(***************************************************************************)
EXTENDS Calls, FiniteSetTheorems, TLAPS

USE DEF request, attempt, wires, vars

(* An entry of the dispatcher's table is of a tools/call under way.        *)
Entries ==
    /\ \A c \in Calls : pc[c] # "idle" => id[c] \in Ids /\ kind[c] \in {"tool", "read"}
    /\ \A i \in Ids : cancels[i] # None => kind[cancels[i]] = "tool" /\ pc[cancels[i]] # "idle"

(* A call has a connection from the moment its route is resolved, and so   *)
(* has a write that outlives its call.                                     *)
Resolved ==
    \A c \in Calls :
        \/ pc[c] \in {"limiting", "queued", "sending", "writing", "waiting", "unsent"}
        \/ writing[c] = "busy"
        => on[c] \in Conns

(* Who is in a waiter table waits on that connection, which is still read, *)
(* and its channel holds nothing yet; and who waits is there or has been   *)
(* handed something.                                                       *)
Registered ==
    /\ \A c \in Calls, k \in Conns :
          c \in waiters[k] =>
             /\ on[c] = k /\ pc[c] \in {"writing", "waiting"}
             /\ inbox[c] = "empty" /\ conn[k] # "dead"
    /\ \A c \in Calls :
          pc[c] \in {"writing", "waiting"} => c \in waiters[on[c]] \/ inbox[c] # "empty"
    /\ \A c \in Calls : inbox[c] # "empty" => pc[c] \in {"writing", "waiting", "returned"}

(* Whether the upstream has received a call, as its program counter, its   *)
(* writer and its outcome tell: not before it is written, once if it was   *)
(* answered, never if it is to be refused.                                 *)
Received ==
    \A c \in Calls :
        /\ ran[c] \in {0, 1}
        /\ writing[c] \in {"busy", "error"} => ran[c] = 0
        /\ writing[c] = "ok" => ran[c] = 1
        /\ writing[c] \in {"ok", "error"} => pc[c] = "writing"
        /\ writing[c] = "busy" => pc[c] \in {"writing", "returned", "done"}
        /\ pc[c] = "writing" => writing[c] # "no"
        /\ pc[c] = "waiting" => ran[c] = 1
        /\ pc[c] \notin {"writing", "waiting", "returned", "done"} => ran[c] = 0
        /\ pc[c] = "returned" <=> outcome[c] # None
        /\ pc[c] = "done" <=> verdict[c] # None
        /\ "answered" \in {outcome[c], verdict[c]} => ran[c] = 1
        /\ "refused" \in {outcome[c], verdict[c]} => ran[c] = 0 /\ writing[c] = "no"

Inv == TypeOK /\ Entries /\ Resolved /\ Registered /\ Received

-----------------------------------------------------------------------------
LEMMA InitInv == Init => Inv
  BY ConnsAssumption, LimitsAssumption, NoneAssumption
     DEF Init, Inv, Conns, TypeOK, Types, EntriesAreUnderWay, PermitsAreInUse, Entries, Resolved,
         Registered, Received

LEMMA InvStep ==
    ASSUME Inv, [Next]_vars
    PROVE  Inv'
<1> USE NoneAssumption
    DEF Inv, TypeOK, Types, EntriesAreUnderWay, PermitsAreInUse, Entries, Resolved, Registered,
        Received, Go, Return
<1>1. ASSUME NEW w \in Clients, NEW i \in Ids, HandleCancelled(w, i) PROVE Inv'
  BY <1>1 DEF HandleCancelled
<1>2. ASSUME NEW w \in Clients, NEW i \in Ids, NEW c \in Calls, NEW k \in {"tool", "read"},
             Issue(c, w, i, k)
      PROVE  Inv'
  BY <1>2 DEF Issue
<1>3. ASSUME NEW c \in Calls, Register(c) PROVE Inv'
  <2>1. CASE cancels[id[c]] = None
    <3>1. /\ pc[c] = "issued" /\ kind[c] = "tool"
          /\ pc' = [pc EXCEPT ![c] = "dispatched"]
          /\ cancels' = [cancels EXCEPT ![id[c]] = c]
          /\ UNCHANGED <<request, cancelled, attempt, verdict, sem, wires, ran>>
      BY <1>3, <2>1 DEF Register
    <3> QED
      BY <2>1, <3>1
  <2>2. CASE cancels[id[c]] # None
    <3>1. /\ pc[c] = "issued" /\ kind[c] = "tool"
          /\ pc' = [pc EXCEPT ![c] = "done"]
          /\ verdict' = [verdict EXCEPT ![c] = "refused"]
          /\ UNCHANGED <<request, cancelled, attempt, cancels, sem, wires, ran>>
      BY <1>3, <2>2 DEF Register
    <3> QED
      BY <2>2, <3>1
  <2> QED
    BY <1>3, <2>1, <2>2 DEF Register
<1>4. ASSUME NEW c \in Calls, DispatchRead(c) PROVE Inv'
  BY <1>4 DEF DispatchRead
<1>5. ASSUME NEW c \in Calls, CallTool(c) PROVE Inv'
  <2>1. CASE installed = None
    <3>1. /\ pc[c] = "dispatched"
          /\ pc' = [pc EXCEPT ![c] = "returned"]
          /\ outcome' = [outcome EXCEPT ![c] = "refused"]
          /\ permit' = [permit EXCEPT ![c] = None]
          /\ UNCHANGED <<request, cancelled, on, retried, queuedOn, writing, inbox, verdict,
                         cancels, sem, wires, ran>>
      BY <1>5, <2>1 DEF CallTool, Resolve
    <3> QED
      BY <2>1, <3>1
  <2>2. CASE installed # None
    <3>1. /\ pc[c] = "dispatched"
          /\ pc' = [pc EXCEPT ![c] = "limiting"]
          /\ on' = [on EXCEPT ![c] = installed]
          /\ UNCHANGED <<request, cancelled, retried, permit, queuedOn, writing, inbox, outcome,
                         verdict, cancels, sem, wires, ran>>
      BY <1>5, <2>2 DEF CallTool, Resolve
    <3> QED
      BY <2>2, <3>1
  <2> QED
    BY <1>5, <2>1, <2>2 DEF CallTool, Resolve
<1>6. ASSUME NEW c \in Calls, ReadResource(c) PROVE Inv'
  <2>1. CASE installed = None
    <3>1. /\ pc[c] = "dispatched"
          /\ pc' = [pc EXCEPT ![c] = "returned"]
          /\ outcome' = [outcome EXCEPT ![c] = "refused"]
          /\ permit' = [permit EXCEPT ![c] = None]
          /\ UNCHANGED <<request, cancelled, on, retried, queuedOn, writing, inbox, verdict,
                         cancels, sem, wires, ran>>
      BY <1>6, <2>1 DEF ReadResource, Resolve
    <3> QED
      BY <2>1, <3>1
  <2>2. CASE installed # None
    <3>1. /\ pc[c] = "dispatched"
          /\ pc' = [pc EXCEPT ![c] = "sending"]
          /\ on' = [on EXCEPT ![c] = installed]
          /\ UNCHANGED <<request, cancelled, retried, permit, queuedOn, writing, inbox, outcome,
                         verdict, cancels, sem, wires, ran>>
      BY <1>6, <2>2 DEF ReadResource, Resolve
    <3> QED
      BY <2>2, <3>1
  <2> QED
    BY <1>6, <2>1, <2>2 DEF ReadResource, Resolve
<1>7. ASSUME NEW c \in Calls, RateLimit(c) PROVE Inv'
  <2>1. CASE pc'[c] = "returned"
    <3>1. /\ pc[c] = "limiting"
          /\ pc' = [pc EXCEPT ![c] = "returned"]
          /\ outcome' = [outcome EXCEPT ![c] = "refused"]
          /\ permit' = [permit EXCEPT ![c] = None]
          /\ UNCHANGED <<request, cancelled, on, retried, queuedOn, writing, inbox, verdict,
                         cancels, sem, wires, ran>>
      BY <1>7, <2>1, LimitsAssumption DEF RateLimit
    <3> QED
      BY <2>1, <3>1
  <2>2. CASE pc'[c] # "returned"
    <3> DEFINE p == IF MaxConcurrent[sem] = 0 THEN "sending" ELSE "queued"
               g == IF MaxConcurrent[sem] = 0 THEN None ELSE sem
    <3>1. pc[c] = "limiting" /\ pc' = [pc EXCEPT ![c] = p] /\ queuedOn' = [queuedOn EXCEPT ![c] = g]
      BY <1>7, <2>2 DEF RateLimit
    <3>2. UNCHANGED <<request, cancelled, on, retried, permit, writing, inbox, outcome, verdict,
                      cancels, sem, wires, ran>>
      BY <1>7, <2>2 DEF RateLimit
    <3>3. p \in {"sending", "queued"} /\ g \in 0 .. sem \cup {None}
      BY LimitsAssumption
    <3> HIDE DEF p, g
    <3> QED
      BY <3>1, <3>2, <3>3
  <2> QED
    BY <1>7, <2>1, <2>2 DEF RateLimit
<1>8. ASSUME NEW c \in Calls, Acquire(c) PROVE Inv'
  BY <1>8 DEF Acquire
<1>9. ASSUME NEW c \in Calls, AcquireRefused(c) PROVE Inv'
  BY <1>9 DEF AcquireRefused
<1>10. ASSUME ReloadLimits PROVE Inv'
  BY <1>10, LimitsAssumption DEF ReloadLimits
<1>11. ASSUME NEW c \in Calls, RetryOrFail(c) PROVE Inv'
  <2>1. CASE ~retried[c] /\ installed \notin {None, on[c]}
    <3>1. /\ pc[c] = "unsent"
          /\ permit' = [permit EXCEPT ![c] = None]
          /\ pc' = [pc EXCEPT ![c] = "sending"]
          /\ retried' = [retried EXCEPT ![c] = TRUE]
          /\ on' = [on EXCEPT ![c] = installed]
          /\ UNCHANGED <<request, cancelled, queuedOn, writing, inbox, outcome, verdict, cancels,
                         sem, wires, ran>>
      BY <1>11, <2>1 DEF RetryOrFail
    <3> QED
      BY <2>1, <3>1
  <2>2. CASE ~(~retried[c] /\ installed \notin {None, on[c]})
    <3>1. /\ pc[c] = "unsent"
          /\ pc' = [pc EXCEPT ![c] = "returned"]
          /\ outcome' = [outcome EXCEPT ![c] = "failed"]
          /\ permit' = [permit EXCEPT ![c] = None]
          /\ UNCHANGED <<request, cancelled, on, retried, queuedOn, writing, inbox, verdict,
                         cancels, sem, wires, ran>>
      BY <1>11, <2>2 DEF RetryOrFail
    <3> QED
      BY <2>2, <3>1
  <2> QED
    BY <1>11, <2>1, <2>2 DEF RetryOrFail
<1>12. ASSUME NEW c \in Calls, Send(c) PROVE Inv'
  <2>1. CASE conn[on[c]] = "up"
    <3>1. /\ pc[c] = "sending"
          /\ pc' = [pc EXCEPT ![c] = "writing"]
          /\ waiters' = [waiters EXCEPT ![on[c]] = @ \cup {c}]
          /\ writing' = [writing EXCEPT ![c] = "busy"]
          /\ UNCHANGED <<request, cancelled, on, retried, permit, queuedOn, inbox, outcome, verdict,
                         cancels, sem, installed, conn, ran>>
      BY <1>12, <2>1 DEF Send
    <3> QED
      BY <2>1, <3>1
  <2>2. CASE conn[on[c]] # "up"
    <3>1. /\ pc[c] = "sending"
          /\ pc' = [pc EXCEPT ![c] = "unsent"]
          /\ UNCHANGED <<request, cancelled, attempt, verdict, cancels, sem, wires, ran>>
      BY <1>12, <2>2 DEF Send
    <3> QED
      BY <2>2, <3>1
  <2> QED
    BY <1>12, <2>1, <2>2 DEF Send
<1>13. ASSUME NEW c \in Calls, Write(c) PROVE Inv'
  BY <1>13 DEF Write
<1>14. ASSUME NEW c \in Calls, WriteFails(c) PROVE Inv'
  BY <1>14 DEF WriteFails
<1>15. ASSUME NEW c \in Calls, Written(c) PROVE Inv'
  <2>1. CASE writing[c] = "ok"
    <3>1. /\ pc[c] = "writing"
          /\ pc' = [pc EXCEPT ![c] = "waiting"]
          /\ writing' = [writing EXCEPT ![c] = "no"]
          /\ UNCHANGED <<request, cancelled, on, retried, permit, queuedOn, inbox, outcome, verdict,
                         cancels, sem, wires, ran>>
      BY <1>15, <2>1 DEF Written
    <3> QED
      BY <2>1, <3>1
  <2>2. CASE writing[c] = "error"
    <3>1. /\ pc[c] = "writing"
          /\ writing' = [writing EXCEPT ![c] = "no"]
          /\ pc' = [pc EXCEPT ![c] = "returned"]
          /\ outcome' = [outcome EXCEPT ![c] = "failed"]
          /\ permit' = [permit EXCEPT ![c] = None]
          /\ waiters' = [waiters EXCEPT ![on[c]] = @ \ {c}]
          /\ UNCHANGED <<request, cancelled, on, retried, queuedOn, inbox, verdict, cancels, sem,
                         installed, conn, ran>>
      BY <1>15, <2>2 DEF Written
    <3> QED
      BY <2>2, <3>1
  <2> QED
    BY <1>15, <2>1, <2>2 DEF Written
<1>16. ASSUME NEW c \in Calls, Deliver(c) PROVE Inv'
  BY <1>16 DEF Deliver
<1>17. ASSUME NEW c \in Calls, Receive(c) PROVE Inv'
  BY <1>17 DEF Receive
<1>18. ASSUME NEW c \in Calls, Abandon(c) PROVE Inv'
  BY <1>18 DEF Abandon
<1>19. ASSUME NEW k \in Conns, CloseConn(k) PROVE Inv'
  BY <1>19 DEF CloseConn
<1>20. ASSUME NEW k \in Conns, FailAll(k) PROVE Inv'
  BY <1>20 DEF FailAll
<1>21. ASSUME NEW k \in Conns, Install(k) PROVE Inv'
  BY <1>21 DEF Install
<1>22. ASSUME Drop PROVE Inv'
  BY <1>22 DEF Drop
<1>23. ASSUME NEW c \in Calls, Reply(c) PROVE Inv'
  <2>1. /\ pc[c] = "returned"
        /\ pc' = [pc EXCEPT ![c] = "done"]
        /\ cancelled' = [cancelled EXCEPT ![c] = FALSE]
        /\ outcome' = [outcome EXCEPT ![c] = None]
        /\ inbox' = [inbox EXCEPT ![c] = "empty"]
        /\ retried' = [retried EXCEPT ![c] = FALSE]
        /\ on' = [on EXCEPT ![c] = IF writing[c] = "busy" THEN on[c] ELSE None]
        /\ UNCHANGED <<request, permit, queuedOn, writing, sem, wires, ran>>
    BY <1>23 DEF Reply
  <2>2. PICK v \in {outcome[c]} \cup (IF cancelled[c] THEN {"silence"} ELSE {}) :
            verdict' = [verdict EXCEPT ![c] = v]
    BY <1>23 DEF Reply
  <2>3. CASE cancels' = [cancels EXCEPT ![id[c]] = None] /\ kind[c] = "tool"
    BY <2>1, <2>2, <2>3
  <2>4. CASE cancels' = cancels /\ kind[c] # "tool"
    BY <2>1, <2>2, <2>4
  <2> QED
    BY <1>23, <2>3, <2>4 DEF Reply
<1>24. ASSUME UNCHANGED vars PROVE Inv'
  BY <1>24
<1> HIDE DEF Inv
<1> QED
  BY <1>1, <1>2, <1>3, <1>4, <1>5, <1>6, <1>7, <1>8, <1>9, <1>10, <1>11, <1>12, <1>13, <1>14,
     <1>15, <1>16, <1>17, <1>18, <1>19, <1>20, <1>21, <1>22, <1>23, <1>24
     DEF Next, Client, Upstream, Progress

(* The inductive invariant: where a call is decides which permit, entry,   *)
(* waiter and channel it has.                                              *)
THEOREM CallsInvariant == Spec => []Inv
<1>1. Init => Inv
  BY InitInv
<1>2. Inv /\ [Next]_vars => Inv'
  BY InvStep
<1> QED
  BY <1>1, <1>2, PTL DEF Spec

(* Every variable has its type; the dispatcher's table holds only calls    *)
(* under way, each under its own id, and a permit of the semaphore is held *)
(* only from its acquisition to the end of the attempt: no exit of         *)
(* dispatchToolsCall or of callWithConnRetry forgets either.               *)
THEOREM CallsTyping == Spec => []TypeOK
<1>1. Inv => TypeOK
  BY DEF Inv
<1> QED
  BY <1>1, CallsInvariant, PTL

(* However a crash (failAll), a close or a late response (deliver) crosses *)
(* its registration, a caller is in the table of a connection that is      *)
(* still read or has something in its channel; and no table keeps a caller *)
(* that has left.                                                          *)
THEOREM CallersAreWoken == Spec => []NoLostWakeup
<1>1. Inv => NoLostWakeup
  <2> SUFFICES ASSUME Inv, NEW c \in Calls, NEW k \in Conns
               PROVE  IF pc[c] \in {"writing", "waiting"} /\ on[c] = k
                      THEN (c \in waiters[k] /\ conn[k] # "dead") \/ inbox[c] # "empty"
                      ELSE c \notin waiters[k]
    BY DEF NoLostWakeup
  <2> QED
    BY DEF Inv, Registered
<1> QED
  BY <1>1, CallsInvariant, PTL

-----------------------------------------------------------------------------
(* Only the write of a call gives it to the upstream, and only a refusal   *)
(* or a reply concludes it.                                                *)
LEMMA StepRefines ==
    ASSUME Inv, [Next]_vars
    PROVE  [A!Next]_(A!vars)
<1> USE DEF A!vars
<1>1. ASSUME NEW c \in Calls, Write(c) PROVE A!Next
  <2>1. ran[c] = 0 /\ verdict[c] \notin {"refused", "answered"}
    BY <1>1 DEF Write, Inv, Received
  <2>2. A!Run(c)
    BY <1>1, <2>1 DEF Write, A!Run
  <2> QED
    BY <2>2 DEF A!Next
<1>2. ASSUME NEW c \in Calls, Register(c) PROVE [A!Next]_(A!vars)
  <2>1. CASE cancels[id[c]] = None
    BY <1>2, <2>1 DEF Register
  <2>2. CASE cancels[id[c]] # None
    <3>1. pc[c] = "issued" /\ verdict' = [verdict EXCEPT ![c] = "refused"] /\ UNCHANGED ran
      BY <1>2, <2>2 DEF Register
    <3>2. A!Conclude(c, "refused")
      BY <3>1 DEF Inv, Received, A!Conclude
    <3> QED
      BY <3>2 DEF A!Next
  <2> QED
    BY <2>1, <2>2
<1>3. ASSUME NEW c \in Calls, Reply(c) PROVE A!Next
  <2>1. pc[c] = "returned" /\ UNCHANGED ran
    BY <1>3 DEF Reply
  <2>2. PICK v \in {outcome[c]} \cup (IF cancelled[c] THEN {"silence"} ELSE {}) :
            verdict' = [verdict EXCEPT ![c] = v]
    BY <1>3 DEF Reply
  <2>3. v \in {"refused", "answered", "failed", "silence"}
    BY <2>1 DEF Inv, TypeOK, Types, Received
  <2>4. A!Conclude(c, v)
    BY <2>1, <2>2 DEF Inv, Received, A!Conclude
  <2> QED
    BY <2>3, <2>4 DEF A!Next
<1>4. ASSUME NEW c \in Calls,
             DispatchRead(c) \/ CallTool(c) \/ ReadResource(c) \/ RateLimit(c) \/ Acquire(c)
             \/ AcquireRefused(c) \/ RetryOrFail(c)
      PROVE  UNCHANGED <<ran, verdict>>
  BY <1>4 DEF DispatchRead, CallTool, ReadResource, Resolve, RateLimit, Acquire, AcquireRefused,
              RetryOrFail
<1>5. ASSUME NEW c \in Calls,
             Send(c) \/ WriteFails(c) \/ Written(c) \/ Deliver(c) \/ Receive(c) \/ Abandon(c)
      PROVE  UNCHANGED <<ran, verdict>>
  BY <1>5 DEF Send, WriteFails, Written, Deliver, Receive, Abandon
<1>6. ASSUME \/ Client \/ ReloadLimits \/ Drop \/ UNCHANGED vars
             \/ \E k \in Conns : CloseConn(k) \/ FailAll(k) \/ Install(k)
      PROVE  UNCHANGED <<ran, verdict>>
  BY <1>6 DEF Client, HandleCancelled, Issue, ReloadLimits, Drop, CloseConn, FailAll, Install
<1> QED
  BY <1>1, <1>2, <1>3, <1>4, <1>5, <1>6 DEF Next, Upstream, Progress

(* An upstream is given a call once at most, the retry on a replaced       *)
(* connection included; an answer is of a call it ran; and a call refused  *)
(* to its client has not run and never will.                               *)
THEOREM CallsRefine == Spec => ImplementsAtMostOnce
<1>1. Init => A!Init
  BY DEF Init, A!Init
<1>2. Inv /\ [Next]_vars => [A!Next]_(A!vars)
  BY StepRefines
<1> QED
  BY <1>1, <1>2, CallsInvariant, PTL DEF Spec, ImplementsAtMostOnce, A!Spec

-----------------------------------------------------------------------------
(* No generation of the semaphore is held by more calls than the limit it  *)
(* was made with, whatever reloads, cancellations and retries do around it *)
(* (a retry has given its permit up).                                      *)
WithinLimit == \A g \in 0 .. MaxReloads : Cardinality(Holders(g)) <= MaxConcurrent[g]

LEMMA HoldersAreFinite ==
    ASSUME NEW g
    PROVE  IsFiniteSet(Holders(g)) /\ Cardinality(Holders(g)) \in Nat
<1>1. IsFiniteSet(Holders(g))
  BY CallsAssumption, FS_Subset DEF Holders
<1> QED
  BY <1>1, FS_CardinalityType

(* A step that takes no permit leaves no semaphore with more holders.      *)
LEMMA OnlyAcquireTakes ==
    ASSUME Inv, WithinLimit,
           \A c \in Calls : permit'[c] = permit[c] \/ permit'[c] = None
    PROVE  WithinLimit'
<1> SUFFICES ASSUME NEW g \in 0 .. MaxReloads
             PROVE  Cardinality(Holders(g)') <= MaxConcurrent[g]
  BY DEF WithinLimit
<1>1. Holders(g)' \subseteq Holders(g)
  BY NoneAssumption, LimitsAssumption DEF Holders
<1>2. Cardinality(Holders(g)') <= Cardinality(Holders(g)) /\ Cardinality(Holders(g)') \in Nat
  BY <1>1, HoldersAreFinite, FS_Subset, FS_CardinalityType
<1>3. Cardinality(Holders(g)) <= MaxConcurrent[g] /\ MaxConcurrent[g] \in Nat
  BY LimitsAssumption DEF WithinLimit
<1> QED
  BY <1>2, <1>3, HoldersAreFinite

LEMMA WithinLimitStep ==
    ASSUME Inv, WithinLimit, [Next]_vars
    PROVE  WithinLimit'
<1> USE DEF Go, Return
<1>1. ASSUME NEW c \in Calls, Acquire(c) PROVE WithinLimit'
  <2> SUFFICES ASSUME NEW g \in 0 .. MaxReloads
               PROVE  Cardinality(Holders(g)') <= MaxConcurrent[g]
    BY DEF WithinLimit
  <2>1. permit' = [permit EXCEPT ![c] = queuedOn[c]] /\ c \notin Holders(g)
    BY <1>1, NoneAssumption DEF Acquire, Inv, TypeOK, PermitsAreInUse, Holders
  <2>2. CASE queuedOn[c] = g
    <3>1. Holders(g)' = Holders(g) \cup {c}
      BY <2>1, <2>2 DEF Holders, Inv, TypeOK, Types
    <3>2. Cardinality(Holders(g)') = Cardinality(Holders(g)) + 1
      BY <2>1, <3>1, HoldersAreFinite, FS_AddElement
    <3>3. Cardinality(Holders(g)) < MaxConcurrent[g]
      BY <1>1, <2>2 DEF Acquire
    <3> QED
      BY <3>2, <3>3, HoldersAreFinite, LimitsAssumption
  <2>3. CASE queuedOn[c] # g
    <3>1. Holders(g)' = Holders(g)
      BY <2>1, <2>3 DEF Holders, Inv, TypeOK, Types
    <3> QED
      BY <3>1 DEF WithinLimit
  <2> QED
    BY <2>2, <2>3
<1>2. ASSUME NEW c \in Calls,
             Register(c) \/ DispatchRead(c) \/ CallTool(c) \/ ReadResource(c) \/ RateLimit(c)
             \/ AcquireRefused(c) \/ RetryOrFail(c) \/ Reply(c)
      PROVE  \A d \in Calls : permit'[d] = permit[d] \/ permit'[d] = None
  BY <1>2 DEF Register, DispatchRead, CallTool, ReadResource, Resolve, RateLimit, AcquireRefused,
              RetryOrFail, Reply, Inv, TypeOK, Types
<1>3. ASSUME NEW c \in Calls,
             Send(c) \/ Write(c) \/ WriteFails(c) \/ Written(c) \/ Deliver(c) \/ Receive(c)
             \/ Abandon(c)
      PROVE  \A d \in Calls : permit'[d] = permit[d] \/ permit'[d] = None
  BY <1>3 DEF Send, Write, WriteFails, Written, Deliver, Receive, Abandon, Inv, TypeOK, Types
<1>4. ASSUME \/ Client \/ ReloadLimits \/ Drop \/ UNCHANGED vars
             \/ \E k \in Conns : CloseConn(k) \/ FailAll(k) \/ Install(k)
      PROVE  \A d \in Calls : permit'[d] = permit[d] \/ permit'[d] = None
  BY <1>4 DEF Client, HandleCancelled, Issue, ReloadLimits, Drop, CloseConn, FailAll, Install
<1> QED
  BY <1>1, <1>2, <1>3, <1>4, OnlyAcquireTakes DEF Next, Upstream, Progress

(* semaphore.Weighted as callWithConnRetry uses it: each attempt releases  *)
(* what it acquired and on the semaphore it acquired it from.              *)
THEOREM SemaphoreAdmits == Spec => []WithinLimit
<1>1. Init => WithinLimit
  <2> SUFFICES ASSUME Init, NEW g \in 0 .. MaxReloads
               PROVE  Cardinality(Holders(g)) <= MaxConcurrent[g]
    BY DEF WithinLimit
  <2>1. Holders(g) = {}
    BY NoneAssumption, LimitsAssumption DEF Init, Holders
  <2> QED
    BY <2>1, FS_EmptySet, LimitsAssumption
<1>2. Inv /\ WithinLimit /\ [Next]_vars => WithinLimit'
  BY WithinLimitStep
<1> QED
  BY <1>1, <1>2, CallsInvariant, PTL DEF Spec
-----------------------------------------------------------------------------
(* What EveryCallEnds rests on where calls wait for each other: who queues *)
(* for a semaphore can take a permit, or another call holds one and is in  *)
(* its attempt, which ends by its timeout if by nothing else.              *)
NoneQueuesInVain ==
    \A c \in Calls : pc[c] = "queued" =>
        \/ Cardinality(Holders(queuedOn[c])) < MaxConcurrent[queuedOn[c]]
        \/ \E d \in Calls : /\ d # c /\ permit[d] = queuedOn[c]
                            /\ pc[d] \in {"sending", "writing", "waiting", "unsent"}

(* Nobody queues for a semaphore that has no permits: 0 means unlimited,   *)
(* and is not queued for, whatever it was or becomes by a reload.          *)
Queueing ==
    \A c \in Calls : pc[c] = "queued" =>
        queuedOn[c] \in 0 .. MaxReloads /\ MaxConcurrent[queuedOn[c]] # 0

LEMMA QueueKept ==
    ASSUME Queueing,
           \A c \in Calls : pc'[c] = "queued" => pc[c] = "queued" /\ queuedOn'[c] = queuedOn[c]
    PROVE  Queueing'
  BY DEF Queueing

LEMMA QueueingStep ==
    ASSUME Inv, Queueing, [Next]_vars
    PROVE  Queueing'
<1> USE DEF Go, Return
<1>0. /\ pc \in [Calls -> {"idle", "issued", "dispatched", "limiting", "queued", "sending",
                           "writing", "waiting", "unsent", "returned", "done"}]
      /\ queuedOn \in [Calls -> 0 .. sem \cup {None}] /\ sem \in 0 .. MaxReloads
  BY DEF Inv, TypeOK, Types
<1>1. ASSUME NEW c \in Calls, RateLimit(c) PROVE Queueing'
  <2>1. CASE /\ pc' = [pc EXCEPT ![c] = "queued"] /\ MaxConcurrent[sem] # 0
             /\ queuedOn' = [queuedOn EXCEPT ![c] = sem]
    BY <1>0, <2>1 DEF Queueing
  <2>2. CASE \E l \in {"sending", "returned"} : pc' = [pc EXCEPT ![c] = l]
    <3>1. PICK l \in {"sending", "returned"} : pc' = [pc EXCEPT ![c] = l]
      BY <2>2
    <3>2. \A d \in Calls : d # c => queuedOn'[d] = queuedOn[d]
      BY <1>0, <1>1 DEF RateLimit
    <3> QED
      BY <1>0, <3>1, <3>2, QueueKept
  <2> QED
    BY <1>1, <2>1, <2>2 DEF RateLimit
<1>2. ASSUME NEW c \in Calls, Acquire(c) \/ AcquireRefused(c) PROVE Queueing'
  BY <1>0, <1>2, QueueKept DEF Acquire, AcquireRefused
<1>3. ASSUME NEW c \in Calls,
             Register(c) \/ DispatchRead(c) \/ CallTool(c) \/ ReadResource(c) \/ RetryOrFail(c) \/ Reply(c)
      PROVE  Queueing'
  <2>1. queuedOn' = queuedOn
    BY <1>3 DEF Register, DispatchRead, CallTool, ReadResource, Resolve, RetryOrFail, Reply
  <2>2. PICK l \in {"dispatched", "done", "limiting", "sending", "returned"} :
            pc' = [pc EXCEPT ![c] = l]
    BY <1>3 DEF Register, DispatchRead, CallTool, ReadResource, Resolve, RetryOrFail, Reply
  <2> QED
    BY <1>0, <2>1, <2>2, QueueKept
<1>4. ASSUME NEW c \in Calls, Send(c) \/ Written(c) \/ Receive(c) \/ Abandon(c) PROVE Queueing'
  <2>1. queuedOn' = queuedOn
    BY <1>4 DEF Send, Written, Receive, Abandon
  <2>2. PICK l \in {"writing", "unsent", "waiting", "returned"} : pc' = [pc EXCEPT ![c] = l]
    BY <1>4 DEF Send, Written, Receive, Abandon
  <2> QED
    BY <1>0, <2>1, <2>2, QueueKept
<1>5. ASSUME NEW c \in Calls, NEW w \in Clients, NEW i \in Ids, NEW k \in {"tool", "read"},
             Issue(c, w, i, k)
      PROVE  Queueing'
  BY <1>0, <1>5, QueueKept DEF Issue
<1>6. ASSUME \/ \E c \in Calls : Write(c) \/ WriteFails(c) \/ Deliver(c)
             \/ \E w \in Clients, i \in Ids : HandleCancelled(w, i)
             \/ \E k \in Conns : CloseConn(k) \/ FailAll(k) \/ Install(k)
             \/ Drop \/ ReloadLimits \/ UNCHANGED vars
      PROVE  Queueing'
  <2>1. UNCHANGED <<pc, queuedOn>>
    BY <1>6 DEF Write, WriteFails, Deliver, HandleCancelled, CloseConn, FailAll, Install, Drop, ReloadLimits
  <2> QED
    BY <2>1, QueueKept
<1> QED
  BY <1>1, <1>2, <1>3, <1>4, <1>5, <1>6 DEF Next, Client, Upstream, Progress

(* No call waits for a permit that nobody would give back: a queue on a    *)
(* semaphore that a reload has replaced moves on with the calls it let in. *)
THEOREM QueuesMove == Spec => []NoneQueuesInVain
<1>1. Init => Queueing
  BY DEF Init, Queueing
<1>2. Inv /\ Queueing => NoneQueuesInVain
  <2> SUFFICES ASSUME Inv, Queueing, NEW c \in Calls, pc[c] = "queued", NEW g, g = queuedOn[c],
                      ~(Cardinality(Holders(g)) < MaxConcurrent[g])
               PROVE  \E d \in Calls : /\ d # c /\ permit[d] = g
                                       /\ pc[d] \in {"sending", "writing", "waiting", "unsent"}
    BY DEF NoneQueuesInVain
  <2>1. g \in 0 .. MaxReloads /\ MaxConcurrent[g] \in Nat /\ MaxConcurrent[g] # 0
    BY LimitsAssumption DEF Queueing
  <2>2. Holders(g) # {}
    BY <2>1, HoldersAreFinite, FS_EmptySet
  <2>3. PICK d \in Calls : permit[d] = g
    BY <2>2 DEF Holders
  <2>4. permit[d] # None
    BY <2>1, <2>3, NoneAssumption, LimitsAssumption
  <2> QED
    BY <2>3, <2>4 DEF Inv, TypeOK, PermitsAreInUse
<1>3. Inv /\ Queueing /\ [Next]_vars => Queueing'
  BY QueueingStep
<1> QED
  BY <1>1, <1>2, <1>3, CallsInvariant, PTL DEF Spec
=============================================================================
