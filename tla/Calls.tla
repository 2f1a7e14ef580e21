------------------------------- MODULE Calls -------------------------------
(***************************************************************************)
(* A client's call on its way to an upstream and back: the dispatcher's    *)
(* table of cancellable calls (dispatch.go), the guards (limits.go), the   *)
(* registry's one retry (registry.go), and the waiter table of the stdio   *)
(* connection (stdio.go), which may crash or be replaced at any step.      *)
(*                                                                         *)
(* "tool" is tools/call; "read" stands for prompts/get, resources/read and *)
(* completion/complete, which have neither guards nor a cancel entry.  The *)
(* rate limiter is left to pass or refuse; a generation of the semaphore   *)
(* stands for each value of max_concurrent.                                *)
(***************************************************************************)
EXTENDS Naturals, FiniteSets

CONSTANTS
    Calls, Clients, Ids,
    LastConn,     \* successive connections of the upstream
    MaxReloads,   \* reloads of max_concurrent
    MaxConcurrent,\* [0 .. MaxReloads -> Nat], 0 meaning unlimited
    None

ASSUME ConnsAssumption == LastConn \in Nat \ {0}
ASSUME LimitsAssumption == MaxReloads \in Nat /\ MaxConcurrent \in [0 .. MaxReloads -> Nat]
ASSUME CallsAssumption == IsFiniteSet(Calls)
ASSUME NoneAssumption ==
    None \notin Calls \cup Clients \cup Ids \cup Nat
                \cup {"tool", "read", "answered", "failed", "refused", "silence"}

Conns == 1 .. LastConn

VARIABLES       \* of each call
    kind, who, id,
    pc,
    cancelled,  \* its context, by handleCancelled
    on,         \* the connection it was resolved to
    retried,
    permit,     \* the semaphore it holds
    queuedOn,   \* the semaphore it waits for
    writing,    \* the goroutine that writes it
    inbox,      \* its response channel
    outcome,    \* what the attempt returned
    verdict     \* what the client was told; "refused" is any error that means "not sent"

VARIABLES
    cancels,    \* dispatcher.cancels
    sem,        \* the generation of the semaphore
    installed,  \* Registry.conns
    conn,       \* of each connection: "new", "up", "closing", "dead"
    waiters,    \* of each connection
    ran         \* history: [Calls -> how often an upstream received it]

request == <<kind, who, id>>
attempt == <<on, retried, permit, queuedOn, writing, inbox, outcome>>
wires == <<installed, conn, waiters>>
vars == <<request, pc, cancelled, attempt, verdict, cancels, sem, wires, ran>>

Init ==
    /\ kind = [c \in Calls |-> None] /\ who = [c \in Calls |-> None] /\ id = [c \in Calls |-> None]
    /\ pc = [c \in Calls |-> "idle"]
    /\ cancelled = [c \in Calls |-> FALSE]
    /\ on = [c \in Calls |-> None]
    /\ retried = [c \in Calls |-> FALSE]
    /\ permit = [c \in Calls |-> None] /\ queuedOn = [c \in Calls |-> None]
    /\ writing = [c \in Calls |-> "no"]
    /\ inbox = [c \in Calls |-> "empty"]
    /\ outcome = [c \in Calls |-> None]
    /\ verdict = [c \in Calls |-> None]
    /\ cancels = [i \in Ids |-> None]
    /\ sem = 0
    /\ installed = 1
    /\ conn = [k \in Conns |-> IF k = 1 THEN "up" ELSE "new"]
    /\ waiters = [k \in Conns |-> {}]
    /\ ran = [c \in Calls |-> 0]

Go(c, place) == pc' = [pc EXCEPT ![c] = place]

(* MUTANT of Return: the permit is not released. *)
ReturnHolding(c, what) ==
    /\ Go(c, "returned")
    /\ outcome' = [outcome EXCEPT ![c] = what]
    /\ UNCHANGED permit

(* The attempt returns; a guarded one releases its permit. *)
Return(c, what) ==
    /\ Go(c, "returned")
    /\ outcome' = [outcome EXCEPT ![c] = what]
    /\ permit' = [permit EXCEPT ![c] = None]

-----------------------------------------------------------------------------
(* The dispatcher. *)

(* A client sends a call; it never uses an id twice. *)
Issue(c, w, i, k) ==
    /\ pc[c] = "idle"
    /\ \A d \in Calls : who[d] = w => id[d] # i
    /\ Go(c, "issued")
    /\ kind' = [kind EXCEPT ![c] = k]
    /\ who' = [who EXCEPT ![c] = w]
    /\ id' = [id EXCEPT ![c] = i]
    /\ UNCHANGED <<cancelled, attempt, verdict, cancels, sem, wires, ran>>

(* dispatchToolsCall, on a goroutine of its own, registers the call under  *)
(* its id, or refuses it.                                                  *)
Register(c) ==
    /\ pc[c] = "issued"
    /\ kind[c] = "tool"
    /\ IF cancels[id[c]] = None
       THEN /\ Go(c, "dispatched")
            /\ cancels' = [cancels EXCEPT ![id[c]] = c]
            /\ UNCHANGED verdict
       ELSE /\ Go(c, "done")
            /\ verdict' = [verdict EXCEPT ![c] = "refused"]
            /\ UNCHANGED cancels
    /\ UNCHANGED <<request, cancelled, attempt, sem, wires, ran>>

DispatchRead(c) ==
    /\ pc[c] = "issued"
    /\ kind[c] = "read"
    /\ Go(c, "dispatched")
    /\ UNCHANGED <<request, cancelled, attempt, verdict, cancels, sem, wires, ran>>

(* handleCancelled, of a notification sent by w for its call i. *)
HandleCancelled(w, i) ==
    LET c == cancels[i] IN
    /\ \E d \in Calls : who[d] = w /\ id[d] = i /\ verdict[d] = None
    /\ c # None
    /\ cancels' = [cancels EXCEPT ![i] = None]
    /\ cancelled' = [cancelled EXCEPT ![c] = TRUE]
    /\ UNCHANGED <<request, pc, attempt, verdict, sem, wires, ran>>

(* MUTANT of Reply: the entry stays. *)
ReplyLeavingEntry(c) ==
    /\ pc[c] = "returned"
    /\ Go(c, "done")
    /\ \E v \in {outcome[c]} \cup (IF cancelled[c] THEN {"silence"} ELSE {}) :
          verdict' = [verdict EXCEPT ![c] = v]
    /\ UNCHANGED <<request, cancelled, attempt, cancels, sem, wires, ran>>

(* After the call: the entry of its id goes, and a cancelled call has no   *)
(* reply, unless its request's own context has ended too (and with it      *)
(* whoever would read the reply).  What the call kept is forgotten.        *)
Reply(c) ==
    /\ pc[c] = "returned"
    /\ Go(c, "done")
    /\ IF kind[c] = "tool" THEN cancels' = [cancels EXCEPT ![id[c]] = None] ELSE UNCHANGED cancels
    /\ \E v \in {outcome[c]} \cup (IF cancelled[c] THEN {"silence"} ELSE {}) :
          verdict' = [verdict EXCEPT ![c] = v]
    /\ cancelled' = [cancelled EXCEPT ![c] = FALSE]
    /\ outcome' = [outcome EXCEPT ![c] = None]
    /\ inbox' = [inbox EXCEPT ![c] = "empty"]
    /\ retried' = [retried EXCEPT ![c] = FALSE]
    /\ on' = [on EXCEPT ![c] = IF writing[c] = "busy" THEN @ ELSE None]
    /\ UNCHANGED <<request, permit, queuedOn, writing, sem, wires, ran>>

-----------------------------------------------------------------------------
(* The registry. *)

(* The route's connection, if it has one. *)
Resolve(c, next) ==
    /\ pc[c] = "dispatched"
    /\ IF installed = None
       THEN Return(c, "refused") /\ UNCHANGED on
       ELSE /\ Go(c, next)
            /\ on' = [on EXCEPT ![c] = installed]
            /\ UNCHANGED <<outcome, permit>>
    /\ UNCHANGED <<request, cancelled, retried, queuedOn, writing, inbox, verdict, cancels, sem, wires, ran>>

CallTool(c) == kind[c] = "tool" /\ Resolve(c, "limiting")
ReadResource(c) == kind[c] = "read" /\ Resolve(c, "sending")

(* The rate limiter admits the call, which then takes the semaphore of the *)
(* moment (semFor), or refuses what would wait too long.                   *)
RateLimit(c) ==
    /\ pc[c] = "limiting"
    /\ \/ /\ ~cancelled[c]
          /\ Go(c, IF MaxConcurrent[sem] = 0 THEN "sending" ELSE "queued")
          /\ queuedOn' = [queuedOn EXCEPT ![c] = IF MaxConcurrent[sem] = 0 THEN None ELSE sem]
          /\ UNCHANGED <<outcome, permit>>
       \/ Return(c, "refused") /\ UNCHANGED queuedOn
    /\ UNCHANGED <<request, cancelled, on, retried, writing, inbox, verdict, cancels, sem, wires, ran>>

Holders(g) == {c \in Calls : permit[c] = g}

Acquire(c) ==
    /\ pc[c] = "queued"
    /\ Cardinality(Holders(queuedOn[c])) < MaxConcurrent[queuedOn[c]]
    /\ Go(c, "sending")
    /\ permit' = [permit EXCEPT ![c] = queuedOn[c]]
    /\ queuedOn' = [queuedOn EXCEPT ![c] = None]
    /\ UNCHANGED <<request, cancelled, on, retried, writing, inbox, outcome, verdict, cancels, sem, wires, ran>>

(* The context ended while the call was queued: cancelled, or with the     *)
(* request.                                                                *)
AcquireRefused(c) ==
    /\ pc[c] = "queued"
    /\ Return(c, "refused")
    /\ queuedOn' = [queuedOn EXCEPT ![c] = None]
    /\ UNCHANGED <<request, cancelled, on, retried, writing, inbox, verdict, cancels, sem, wires, ran>>

(* A reload changes max_concurrent. *)
ReloadLimits ==
    /\ sem < MaxReloads
    /\ sem' = sem + 1
    /\ UNCHANGED <<request, pc, cancelled, attempt, verdict, cancels, wires, ran>>

(* MUTANT of RetryOrFail: any failure is retried. *)
RetryAlways(c) ==
    /\ pc[c] \in {"unsent", "returned"}
    /\ outcome[c] \in {None, "failed"}
    /\ permit' = [permit EXCEPT ![c] = None]
    /\ IF ~retried[c] /\ installed \notin {None, on[c]}
       THEN /\ Go(c, "sending")
            /\ retried' = [retried EXCEPT ![c] = TRUE]
            /\ on' = [on EXCEPT ![c] = installed]
            /\ writing' = [writing EXCEPT ![c] = "no"]
            /\ inbox' = [inbox EXCEPT ![c] = "empty"]
            /\ outcome' = [outcome EXCEPT ![c] = None]
       ELSE /\ pc[c] = "unsent"
            /\ Go(c, "returned")
            /\ outcome' = [outcome EXCEPT ![c] = "failed"]
            /\ UNCHANGED <<on, retried, writing, inbox>>
    /\ UNCHANGED <<request, cancelled, queuedOn, verdict, cancels, sem, wires, ran>>

(* callWithConnRetry: what was refused before it was sent is tried once    *)
(* more, on a connection resolved anew, past the guards.                   *)
RetryOrFail(c) ==
    /\ pc[c] = "unsent"
    /\ permit' = [permit EXCEPT ![c] = None]
    /\ IF ~retried[c] /\ installed \notin {None, on[c]}
       THEN /\ Go(c, "sending")
            /\ retried' = [retried EXCEPT ![c] = TRUE]
            /\ on' = [on EXCEPT ![c] = installed]
            /\ UNCHANGED outcome
       ELSE /\ Go(c, "returned")
            /\ outcome' = [outcome EXCEPT ![c] = "failed"]
            /\ UNCHANGED <<on, retried>>
    /\ UNCHANGED <<request, cancelled, queuedOn, writing, inbox, verdict, cancels, sem, wires, ran>>

-----------------------------------------------------------------------------
(* The connection. *)

(* MUTANT of Send: `closed' is not looked at under the lock. *)
SendUnchecked(c) ==
    /\ pc[c] = "sending"
    /\ Go(c, "writing")
    /\ waiters' = [waiters EXCEPT ![on[c]] = @ \cup {c}]
    /\ writing' = [writing EXCEPT ![c] = "busy"]
    /\ UNCHANGED <<request, cancelled, on, retried, permit, queuedOn, inbox, outcome, verdict, cancels, sem, installed, conn, ran>>

(* call registers the waiter and leaves the write to a goroutine, unless   *)
(* the connection is closed.                                               *)
Send(c) ==
    /\ pc[c] = "sending"
    /\ IF conn[on[c]] = "up"
       THEN /\ Go(c, "writing")
            /\ waiters' = [waiters EXCEPT ![on[c]] = @ \cup {c}]
            /\ writing' = [writing EXCEPT ![c] = "busy"]
       ELSE Go(c, "unsent") /\ UNCHANGED <<waiters, writing>>
    /\ UNCHANGED <<request, cancelled, on, retried, permit, queuedOn, inbox, outcome, verdict, cancels, sem, installed, conn, ran>>

(* That goroutine may outlive the call. *)
Write(c) ==
    /\ writing[c] = "busy"
    /\ conn[on[c]] \in {"up", "closing"}
    /\ writing' = [writing EXCEPT ![c] = IF pc[c] = "writing" THEN "ok" ELSE "no"]
    /\ ran' = [ran EXCEPT ![c] = @ + 1]
    /\ UNCHANGED <<request, pc, cancelled, on, retried, permit, queuedOn, inbox, outcome, verdict, cancels, sem, wires>>

WriteFails(c) ==
    /\ writing[c] = "busy"
    /\ conn[on[c]] # "up"
    /\ writing' = [writing EXCEPT ![c] = IF pc[c] = "writing" THEN "error" ELSE "no"]
    /\ UNCHANGED <<request, pc, cancelled, on, retried, permit, queuedOn, inbox, outcome, verdict, cancels, sem, wires, ran>>

Written(c) ==
    /\ pc[c] = "writing"
    /\ writing' = [writing EXCEPT ![c] = "no"]
    /\ \/ /\ writing[c] = "ok"
          /\ Go(c, "waiting")
          /\ UNCHANGED <<outcome, permit, waiters>>
       \/ /\ writing[c] = "error"
          /\ Return(c, "failed")
          /\ waiters' = [waiters EXCEPT ![on[c]] = @ \ {c}]
    /\ UNCHANGED <<request, cancelled, on, retried, queuedOn, inbox, verdict, cancels, sem, installed, conn, ran>>

(* The reader hands a response to its waiter (deliver). *)
Deliver(c) ==
    LET k == on[c] IN
    /\ pc[c] = "waiting" \/ writing[c] = "ok"
    /\ conn[k] \in {"up", "closing"}
    /\ c \in waiters[k]
    /\ waiters' = [waiters EXCEPT ![k] = @ \ {c}]
    /\ inbox' = [inbox EXCEPT ![c] = "response"]
    /\ UNCHANGED <<request, pc, cancelled, on, retried, permit, queuedOn, writing, outcome, verdict, cancels, sem, installed, conn, ran>>

Receive(c) ==
    /\ pc[c] = "waiting"
    /\ inbox[c] # "empty"
    /\ Return(c, IF inbox[c] = "response" THEN "answered" ELSE "failed")
    /\ UNCHANGED <<request, cancelled, on, retried, queuedOn, writing, inbox, verdict, cancels, sem, wires, ran>>

(* The context ends, by the call timeout if nothing else: the waiter goes, *)
(* but nobody can call the write back.                                     *)
Abandon(c) ==
    /\ pc[c] \in {"writing", "waiting"}
    /\ Return(c, "failed")
    /\ waiters' = [waiters EXCEPT ![on[c]] = @ \ {c}]
    /\ writing' = [writing EXCEPT ![c] = IF @ = "busy" THEN @ ELSE "no"]
    /\ UNCHANGED <<request, cancelled, on, retried, queuedOn, inbox, verdict, cancels, sem, installed, conn, ran>>

(* Close of the connection by a reload or by the supervisor. *)
CloseConn(k) ==
    /\ conn[k] = "up"
    /\ conn' = [conn EXCEPT ![k] = "closing"]
    /\ UNCHANGED <<request, pc, cancelled, attempt, verdict, cancels, sem, installed, waiters, ran>>

(* The reader ends, by a crash too: failAll closes every channel. *)
FailAll(k) ==
    /\ conn[k] \in {"up", "closing"}
    /\ conn' = [conn EXCEPT ![k] = "dead"]
    /\ waiters' = [waiters EXCEPT ![k] = {}]
    /\ inbox' = [c \in Calls |-> IF c \in waiters[k] THEN "closed" ELSE inbox[c]]
    /\ UNCHANGED <<request, pc, cancelled, on, retried, permit, queuedOn, writing, outcome, verdict, cancels, sem, installed, ran>>

(* A restart or reload installs the next connection; a give-up, none. *)
Install(k) ==
    /\ conn[k] = "new"
    /\ k - 1 \in Conns /\ conn[k - 1] \in {"closing", "dead"}
    /\ conn' = [conn EXCEPT ![k] = "up"]
    /\ installed' = k
    /\ UNCHANGED <<request, pc, cancelled, attempt, verdict, cancels, sem, waiters, ran>>

Drop ==
    /\ installed # None
    /\ conn[installed] \in {"closing", "dead"}
    /\ installed' = None
    /\ UNCHANGED <<request, pc, cancelled, attempt, verdict, cancels, sem, conn, waiters, ran>>

-----------------------------------------------------------------------------
Progress(c) ==
    \/ Register(c) \/ DispatchRead(c) \/ CallTool(c) \/ ReadResource(c) \/ RateLimit(c)
    \/ Send(c) \/ Written(c) \/ Receive(c) \/ RetryOrFail(c) \/ Reply(c)
    \/ cancelled[c] /\ AcquireRefused(c)

Client ==
    \E w \in Clients, i \in Ids :
        \/ HandleCancelled(w, i)
        \/ \E c \in Calls, k \in {"tool", "read"} : Issue(c, w, i, k)

Upstream ==
    \/ \E c \in Calls : Write(c) \/ WriteFails(c) \/ Deliver(c)
    \/ \E k \in Conns : CloseConn(k) \/ FailAll(k) \/ Install(k)
    \/ Drop

Next ==
    \/ Client \/ Upstream \/ ReloadLimits
    \/ \E c \in Calls : Progress(c) \/ Acquire(c) \/ AcquireRefused(c) \/ Abandon(c)

(* Goroutines run, the call timeout fires, and the semaphore admits        *)
(* somebody.  Nothing is assumed of the upstream or of the client.         *)
Fairness ==
    \A c \in Calls : WF_vars(Progress(c)) /\ WF_vars(Abandon(c)) /\ WF_vars(Acquire(c))

Spec == Init /\ [][Next]_vars /\ Fairness

-----------------------------------------------------------------------------
(* Properties *)

Types ==
    /\ kind \in [Calls -> {"tool", "read", None}]
    /\ who \in [Calls -> Clients \cup {None}] /\ id \in [Calls -> Ids \cup {None}]
    /\ pc \in [Calls -> {"idle", "issued", "dispatched", "limiting", "queued", "sending",
                         "writing", "waiting", "unsent", "returned", "done"}]
    /\ cancelled \in [Calls -> BOOLEAN]
    /\ on \in [Calls -> Conns \cup {None}]
    /\ retried \in [Calls -> BOOLEAN]
    /\ permit \in [Calls -> 0 .. sem \cup {None}] /\ queuedOn \in [Calls -> 0 .. sem \cup {None}]
    /\ writing \in [Calls -> {"no", "busy", "ok", "error"}]
    /\ inbox \in [Calls -> {"empty", "response", "closed"}]
    /\ outcome \in [Calls -> {"answered", "failed", "refused", None}]
    /\ verdict \in [Calls -> {"answered", "failed", "refused", "silence", None}]
    /\ cancels \in [Ids -> Calls \cup {None}]
    /\ sem \in 0 .. MaxReloads
    /\ installed \in Conns \cup {None}
    /\ conn \in [Conns -> {"new", "up", "closing", "dead"}]
    /\ waiters \in [Conns -> SUBSET Calls]
    /\ ran \in [Calls -> Nat]

EntriesAreUnderWay ==
    \A i \in Ids : cancels[i] # None => id[cancels[i]] = i /\ pc[cancels[i]] \notin {"issued", "done"}

PermitsAreInUse ==
    \A c \in Calls : permit[c] # None => pc[c] \in {"sending", "writing", "waiting", "unsent"}

(* Every variable has its type; a cancel entry is of a call under way, and *)
(* only a call in its attempt holds a permit.                              *)
TypeOK == Types /\ EntriesAreUnderWay /\ PermitsAreInUse

(* A caller that waits for its response is in the waiter table of a        *)
(* connection that is still read, or its channel holds the response or is  *)
(* closed: however a crash, a close or a late response crosses its         *)
(* registration, it is woken before its timeout; and who no longer waits   *)
(* has left the table.                                                     *)
NoLostWakeup ==
    \A c \in Calls, k \in Conns :
        IF pc[c] \in {"writing", "waiting"} /\ on[c] = k
        THEN (c \in waiters[k] /\ conn[k] # "dead") \/ inbox[c] # "empty"
        ELSE c \notin waiters[k]

(* An upstream receives a call once at most, retry included, and a call    *)
(* the client was told to repeat never.                                    *)
A == INSTANCE AtMostOnce WITH runs <- ran
ImplementsAtMostOnce == A!Spec

(* Every call ends, whatever the upstream does: no permit, waiter or       *)
(* cancelled wait keeps it for ever.                                       *)
EveryCallEnds == \A c \in Calls : pc[c] = "issued" ~> pc[c] = "done"

(* dispatch.go:515 says of a cancelled call that "the client is abandoning *)
(* (by its OWN request id" it: a call is silenced only by its own client.  *)
SilencedByItsClient ==
    [][\A w \in Clients, i \in Ids : HandleCancelled(w, i) => who[cancels[i]] = w]_vars
=============================================================================
