-------------------------------- MODULE Mrtr --------------------------------
(***************************************************************************)
(* The MRTR bridge (mrtr.go): a modern client is never sent a request.     *)
(* What an upstream asks in the middle of a modern call is intercepted,    *)
(* the call is parked, its client gets the questions as the call's reply   *)
(* and resumes it with a retry that carries the answers.                   *)
(*                                                                         *)
(* One upstream and the modern calls on it.  Each call has a waiter, a     *)
(* detached goroutine running the call, and one owner at a time: the       *)
(* collector of the first request or of a retry, or the sweep of its park. *)
(* Questions are delivered by the upstream's reader goroutines, of which   *)
(* an HTTP upstream has several.  A park's token is random and taken once, *)
(* so a token that is not the current one finds nothing and is left out.   *)
(*                                                                         *)
(* All questions are of one method with a plain spec entry; a question     *)
(* stands for the gateway id it is parked under.                           *)
(***************************************************************************)
EXTENDS Naturals, SequencesExt

CONSTANTS
    Calls,      \* modern calls on the upstream
    Questions,  \* what the upstream asks while a modern call is in flight
    Buf,        \* capacity of a waiter's channel (8 in callModern)
    NoCall

ASSUME BufAssumption == Buf \in Nat \ {0}
ASSUME NoCallAssumption == NoCall \notin Calls

VARIABLES
    stack,      \* r.mrtrWaiters[upstream]
    pending,    \* r.pendingServerReqs
    phase       \* progress of Close

VARIABLES       \* of each call
    pc,         \* who owns it and how far its owner has come
    capable,    \* its request declared the questions' capability
    run,        \* its detached goroutine; "returned": the result is in the channel
    window,     \* parkDeadline
    channel,    \* waiter.questions
    open,       \* waiter.open
    closed,     \* waiter.closed
    batch,      \* questions the owner holds: collected, or taken to be refused
    reply,      \* the InputRequests its client has been given
    inputs      \* answers of the retry being resumed, not yet routed

VARIABLES       \* of each question
    step,       \* its delivery
    claimer,    \* the waiter picked for it
    answers     \* history: responses decided on

callVars == <<pc, capable, run, window, channel, open, closed, batch, reply, inputs>>
questionVars == <<step, claimer, answers>>
vars == <<stack, pending, phase, callVars, questionVars>>

Init ==
    /\ stack = <<>>
    /\ pending = {}
    /\ phase = "running"
    /\ pc = [c \in Calls |-> "idle"]
    /\ capable = [c \in Calls |-> FALSE]
    /\ run = [c \in Calls |-> "none"]
    /\ window = [c \in Calls |-> "unset"]
    /\ channel = [c \in Calls |-> <<>>]
    /\ open = [c \in Calls |-> {}]
    /\ closed = [c \in Calls |-> FALSE]
    /\ batch = [c \in Calls |-> {}]
    /\ reply = [c \in Calls |-> {}]
    /\ inputs = [c \in Calls |-> {}]
    /\ step = [q \in Questions |-> "unasked"]
    /\ claimer = [q \in Questions |-> NoCall]
    /\ answers = [q \in Questions |-> 0]

Goto(c, label) == pc' = [pc EXCEPT ![c] = label]
Deliver(q, label) == step' = [step EXCEPT ![q] = label]
Respond(q) == answers' = [answers EXCEPT ![q] = @ + 1]

(* takePendingServerReq and a response, or nothing if q is not parked. *)
Finish(q) ==
    /\ pending' = pending \ {q}
    /\ IF q \in pending THEN Respond(q) ELSE UNCHANGED answers

-----------------------------------------------------------------------------
(* An upstream asks: handleMRTRIfWaiting, on a reader goroutine. *)

(* topMRTRWaiterLocked: the newest call that declared the capability. *)
IsTop(c) ==
    \E i \in 1 .. Len(stack) :
        /\ stack[i] = c
        /\ capable[c]
        /\ \A j \in i + 1 .. Len(stack) : ~capable[stack[j]]

(* deliverMRTRQuestion: the pending entry first; it has no timer. *)
Intercept(q, c) ==
    /\ step[q] = "unasked"
    /\ phase # "closed"
    /\ IsTop(c)
    /\ pending' = pending \cup {q}
    /\ Deliver(q, "parked")
    /\ claimer' = [claimer EXCEPT ![q] = c]
    /\ UNCHANGED <<stack, phase, callVars, answers>>

(* Modern calls are in flight, none of which declared the capability. *)
RefuseIncapable(q) ==
    /\ step[q] = "unasked"
    /\ phase # "closed"
    /\ stack # <<>>
    /\ \A i \in 1 .. Len(stack) : ~capable[stack[i]]
    /\ Deliver(q, "done")
    /\ Respond(q)
    /\ UNCHANGED <<stack, pending, phase, callVars, claimer>>

(* MUTANT of TrackOpen: the waiter may have been closed. *)
TrackAnyway(q) ==
    LET c == claimer[q] IN
    /\ step[q] = "parked"
    /\ open' = [open EXCEPT ![c] = @ \cup {q}]
    /\ Deliver(q, "tracked")
    /\ UNCHANGED <<stack, pending, phase, pc, capable, run, window, channel, closed, batch,
                   reply, inputs, claimer, answers>>

(* trackOpen: not once the waiter is closed. *)
TrackOpen(q) ==
    LET c == claimer[q] IN
    /\ step[q] = "parked"
    /\ IF closed[c]
       THEN Deliver(q, "rejected") /\ UNCHANGED open
       ELSE Deliver(q, "tracked") /\ open' = [open EXCEPT ![c] = @ \cup {q}]
    /\ UNCHANGED <<stack, pending, phase, pc, capable, run, window, channel, closed, batch,
                   reply, inputs, claimer, answers>>

(* The call has finished meanwhile: rolled back and refused. *)
RollBack(q) ==
    /\ step[q] = "rejected"
    /\ pending' = pending \ {q}
    /\ Deliver(q, "done")
    /\ Respond(q)
    /\ UNCHANGED <<stack, phase, callVars, claimer>>

(* The non-blocking send to the collector. *)
Send(q) ==
    LET c == claimer[q] IN
    /\ step[q] = "tracked"
    /\ Len(channel[c]) < Buf
    /\ channel' = [channel EXCEPT ![c] = Append(@, q)]
    /\ Deliver(q, "done")
    /\ UNCHANGED <<stack, pending, phase, pc, capable, run, window, open, closed, batch,
                   reply, inputs, claimer, answers>>

(* ... finds the buffer full: forgetOpen, and a goroutine to refuse. *)
SendFails(q) ==
    LET c == claimer[q] IN
    /\ step[q] = "tracked"
    /\ Len(channel[c]) >= Buf
    /\ open' = [open EXCEPT ![c] = @ \ {q}]
    /\ Deliver(q, "refusing")
    /\ UNCHANGED <<stack, pending, phase, pc, capable, run, window, channel, closed, batch,
                   reply, inputs, claimer, answers>>

(* MUTANT of RefuseUnsent: refuses whoever has the entry by now. *)
RefuseDirectly(q) ==
    /\ step[q] = "refusing"
    /\ pending' = pending \ {q}
    /\ Respond(q)
    /\ Deliver(q, "done")
    /\ UNCHANGED <<stack, phase, callVars, claimer>>

(* RefusePendingServerReq, the arbiter. *)
RefuseUnsent(q) ==
    /\ step[q] = "refusing"
    /\ Finish(q)
    /\ Deliver(q, "done")
    /\ UNCHANGED <<stack, phase, callVars, claimer>>

-----------------------------------------------------------------------------
(* A modern call and its owner. *)

(* callModern: the waiter is registered, the call detached from its        *)
(* request, and its questions and its result collected.                    *)
CallModern(c) ==
    /\ pc[c] = "idle"
    /\ phase = "running"
    /\ stack' = Append(stack, c)
    /\ \E declared \in BOOLEAN : capable' = [capable EXCEPT ![c] = declared]
    /\ run' = [run EXCEPT ![c] = "running"]
    /\ Goto(c, "collecting")
    /\ UNCHANGED <<pending, phase, window, channel, open, closed, batch, reply, inputs,
                   questionVars>>

(* The upstream answers the call, or it fails: timeout, cancellation, a    *)
(* connection that is gone.                                                *)
CallReturns(c) ==
    /\ run[c] = "running"
    /\ run' = [run EXCEPT ![c] = "returned"]
    /\ UNCHANGED <<stack, pending, phase, pc, capable, window, channel, open, closed, batch, reply,
                   inputs, questionVars>>

(* collectMRTR: the result ... *)
CollectResult(c) ==
    /\ pc[c] = "collecting"
    /\ run[c] = "returned"
    /\ Goto(c, "leaving")
    /\ UNCHANGED <<stack, pending, phase, capable, run, window, channel, open, closed, batch,
                   reply, inputs, questionVars>>

(* ... a question ... *)
CollectQuestion(c) ==
    /\ pc[c] = "collecting"
    /\ channel[c] # <<>>
    /\ batch' = [batch EXCEPT ![c] = @ \cup {Head(channel[c])}]
    /\ channel' = [channel EXCEPT ![c] = Tail(@)]
    /\ UNCHANGED <<stack, pending, phase, pc, capable, run, window, open, closed, reply,
                   inputs, questionVars>>

(* MUTANT of Park: every park gets a window of its own. *)
ParkAfresh(c, Q) ==
    /\ window' = [window EXCEPT ![c] = "ahead"]
    /\ reply' = [reply EXCEPT ![c] = Q]
    /\ Goto(c, "parked")

(* parkMRTR, reparkMRTR: within the one window fixed by the first park, or *)
(* the call is torn down.                                                  *)
Park(c, Q) ==
    /\ window' = [window EXCEPT ![c] = IF @ = "unset" THEN "ahead" ELSE @]
    /\ IF window[c] = "passed"
       THEN Goto(c, "leaving") /\ UNCHANGED reply
       ELSE Goto(c, "parked") /\ reply' = [reply EXCEPT ![c] = Q]

(* ... or the end of the collect window, with questions in hand. *)
CloseWindow(c) ==
    /\ pc[c] = "collecting"
    /\ batch[c] # {}
    /\ Park(c, batch[c])
    /\ batch' = [batch EXCEPT ![c] = {}]
    /\ UNCHANGED <<stack, pending, phase, capable, run, channel, open, closed, inputs,
                   questionVars>>

(* MUTANT of Resume: the waiter is registered once more. *)
ResumeRegistering(c, A) ==
    /\ pc[c] = "parked"
    /\ A \subseteq reply[c]
    /\ Goto(c, "resuming")
    /\ inputs' = [inputs EXCEPT ![c] = A]
    /\ reply' = [reply EXCEPT ![c] = {}]
    /\ stack' = Append(stack, c)
    /\ UNCHANGED <<pending, phase, capable, run, window, channel, open, closed, batch,
                   questionVars>>

(* ResumeToolModern: a retry takes the park with answers to some of what   *)
(* the client was asked.                                                   *)
Resume(c, A) ==
    /\ pc[c] = "parked"
    /\ A \subseteq reply[c]
    /\ Goto(c, "resuming")
    /\ inputs' = [inputs EXCEPT ![c] = A]
    /\ reply' = [reply EXCEPT ![c] = {}]
    /\ UNCHANGED <<stack, pending, phase, capable, run, window, channel, open, closed, batch,
                   questionVars>>

(* MUTANT of RouteInput: responds though the entry may be gone. *)
RouteUnchecked(c, q) ==
    /\ pc[c] = "resuming"
    /\ q \in inputs[c]
    /\ inputs' = [inputs EXCEPT ![c] = @ \ {q}]
    /\ open' = [open EXCEPT ![c] = @ \ {q}]
    /\ pending' = pending \ {q}
    /\ Respond(q)
    /\ UNCHANGED <<stack, phase, pc, capable, run, window, channel, closed, batch, reply,
                   step, claimer>>

(* Each answer: forgetOpen and RouteUpstreamResponse. *)
RouteInput(c, q) ==
    /\ pc[c] = "resuming"
    /\ q \in inputs[c]
    /\ inputs' = [inputs EXCEPT ![c] = @ \ {q}]
    /\ open' = [open EXCEPT ![c] = @ \ {q}]
    /\ Finish(q)
    /\ UNCHANGED <<stack, phase, pc, capable, run, window, channel, closed, batch, reply,
                   step, claimer>>

(* A partial retry is parked again with what is still open ... *)
Repark(c) ==
    /\ pc[c] = "resuming"
    /\ inputs[c] = {}
    /\ open[c] # {}
    /\ Park(c, open[c])
    /\ UNCHANGED <<stack, pending, phase, capable, run, channel, open, closed, batch, inputs,
                   questionVars>>

(* ... a complete one waits for the upstream's next move. *)
CollectAgain(c) ==
    /\ pc[c] = "resuming"
    /\ inputs[c] = {}
    /\ open[c] = {}
    /\ Goto(c, "collecting")
    /\ UNCHANGED <<stack, pending, phase, capable, run, window, channel, open, closed, batch,
                   reply, inputs, questionVars>>

-----------------------------------------------------------------------------
(* The end of a call: its result, its sweep or its teardown. *)

(* The park chain's deadline. *)
WindowPasses(c) ==
    /\ window[c] = "ahead"
    /\ window' = [window EXCEPT ![c] = "passed"]
    /\ UNCHANGED <<stack, pending, phase, pc, capable, run, channel, open, closed, batch,
                   reply, inputs, questionVars>>

(* sweepMRTRParked takes the park a retry has not. *)
Sweep(c) ==
    /\ pc[c] = "parked"
    /\ window[c] = "passed"
    /\ Goto(c, "leaving")
    /\ reply' = [reply EXCEPT ![c] = {}]
    /\ UNCHANGED <<stack, pending, phase, capable, run, window, channel, open, closed, batch,
                   inputs, questionVars>>

(* deregisterMRTRWaiter filters the waiter out of the list, in which it    *)
(* stands once (TypeOK), or not at all after CloseMRTR.                    *)
Deregister(c) ==
    /\ pc[c] = "leaving"
    /\ \/ \E i \in 1 .. Len(stack) : stack[i] = c /\ stack' = RemoveAt(stack, i)
       \/ (\A i \in 1 .. Len(stack) : stack[i] # c) /\ UNCHANGED stack
    /\ Goto(c, "closing")
    /\ UNCHANGED <<pending, phase, capable, run, window, channel, open, closed, batch, reply,
                   inputs, questionVars>>

(* takeOpen: whoever delivers from now on finds the waiter closed. *)
TakeOpen(c) ==
    /\ pc[c] = "closing"
    /\ closed' = [closed EXCEPT ![c] = TRUE]
    /\ batch' = [batch EXCEPT ![c] = open[c]]
    /\ open' = [open EXCEPT ![c] = {}]
    /\ Goto(c, "refusing")
    /\ UNCHANGED <<stack, pending, phase, capable, run, window, channel, reply, inputs,
                   questionVars>>

(* refuseOpenMRTR, one by one. *)
RefuseOpen(c, q) ==
    /\ pc[c] = "refusing"
    /\ q \in batch[c]
    /\ batch' = [batch EXCEPT ![c] = @ \ {q}]
    /\ Finish(q)
    /\ UNCHANGED <<stack, phase, pc, capable, run, window, channel, open, closed, reply, inputs,
                   step, claimer>>

Leave(c) ==
    /\ pc[c] = "refusing"
    /\ batch[c] = {}
    /\ Goto(c, "done")
    /\ UNCHANGED <<stack, pending, phase, capable, run, window, channel, open, closed, batch,
                   reply, inputs, questionVars>>

-----------------------------------------------------------------------------
(* dropPendingServerReqs: the upstream's connection is gone or replaced;   *)
(* the waiters and what they hold are left alone.                          *)
DropPending ==
    /\ pending # {}
    /\ pending' = {}
    /\ UNCHANGED <<stack, phase, callVars, questionVars>>

(* Close: closeServerReqs, then closeMRTR. *)
CloseServerReqs ==
    /\ phase = "running"
    /\ phase' = "drained"
    /\ pending' = {}
    /\ UNCHANGED <<stack, callVars, questionVars>>

CloseMRTR ==
    /\ phase = "drained"
    /\ phase' = "closed"
    /\ stack' = <<>>
    /\ pc' = [c \in Calls |-> IF pc[c] = "parked" THEN "done" ELSE pc[c]]
    /\ reply' = [c \in Calls |-> {}]
    /\ UNCHANGED <<pending, capable, run, window, channel, open, closed, batch, inputs,
                   questionVars>>

-----------------------------------------------------------------------------
Delivery(q) ==
    \/ RefuseIncapable(q) \/ \E c \in Calls : Intercept(q, c)
    \/ TrackOpen(q) \/ RollBack(q) \/ Send(q) \/ SendFails(q) \/ RefuseUnsent(q)

Own(c) ==   \* steps of a call's owner that wait for nobody
    \/ CollectResult(c) \/ CollectQuestion(c) \/ CloseWindow(c)
    \/ \E q \in Questions : RouteInput(c, q) \/ RefuseOpen(c, q)
    \/ Repark(c) \/ CollectAgain(c)
    \/ Deregister(c) \/ TakeOpen(c) \/ Leave(c)

Next ==
    \/ \E q \in Questions : Delivery(q)
    \/ \E c \in Calls : CallModern(c) \/ CallReturns(c) \/ Own(c)
    \/ \E c \in Calls : \E A \in SUBSET reply[c] : Resume(c, A)
    \/ \E c \in Calls : WindowPasses(c) \/ Sweep(c)
    \/ DropPending \/ CloseServerReqs \/ CloseMRTR

Safety == Init /\ [][Next]_vars

(* Owners, deliveries and timers run; a call returns by its call_timeout.  *)
(* The client need not retry.                                              *)
Fairness ==
    /\ \A q \in Questions :
        WF_vars(TrackOpen(q) \/ RollBack(q) \/ Send(q) \/ SendFails(q) \/ RefuseUnsent(q))
    /\ \A c \in Calls : WF_vars(Own(c))
    /\ \A c \in Calls : WF_vars(CallReturns(c))
    /\ \A c \in Calls : WF_vars(WindowPasses(c))
    /\ \A c \in Calls : WF_vars(Sweep(c))

Spec == Safety /\ Fairness

-----------------------------------------------------------------------------
(* Properties *)

Places == {"idle", "collecting", "parked", "resuming", "leaving", "closing", "refusing", "done"}
Steps == {"unasked", "parked", "rejected", "tracked", "refusing", "done"}

(* Every variable has its type, and no waiter is registered twice. *)
TypeOK ==
    /\ stack \in Seq(Calls)
    /\ \A i, j \in 1 .. Len(stack) : stack[i] = stack[j] => i = j
    /\ pending \subseteq Questions
    /\ phase \in {"running", "drained", "closed"}
    /\ pc \in [Calls -> Places]
    /\ capable \in [Calls -> BOOLEAN]
    /\ run \in [Calls -> {"none", "running", "returned"}]
    /\ window \in [Calls -> {"unset", "ahead", "passed"}]
    /\ channel \in [Calls -> Seq(Questions)]
    /\ open \in [Calls -> SUBSET Questions] /\ batch \in [Calls -> SUBSET Questions]
    /\ closed \in [Calls -> BOOLEAN]
    /\ reply \in [Calls -> SUBSET Questions] /\ inputs \in [Calls -> SUBSET Questions]
    /\ step \in [Questions -> Steps]
    /\ claimer \in [Questions -> Calls \cup {NoCall}]
    /\ answers \in [Questions -> Nat]

(* Delivery, retry, sweep, teardown and the end of a call never send two   *)
(* responses to one question, nor one to a question still parked.          *)
AnsweredOnce ==
    \A q \in Questions :
        /\ answers[q] <= 1
        /\ q \in pending => answers[q] = 0

(* Modern questions have no timer of their own: each one that is parked is *)
(* in the hands of its delivery, or of its call, which has not finished    *)
(* with its waiter ("no question is ever orphaned").                       *)
NoOrphan ==
    phase = "running" =>
        \A q \in pending :
            \/ step[q] \in {"parked", "rejected", "refusing"}
            \/ \E c \in Calls :
                  \/ q \in open[c] /\ pc[c] \notin {"refusing", "done"}
                  \/ q \in batch[c] /\ pc[c] = "refusing"

(* Somebody may still respond to q. *)
Undecided(q) == q \in pending \/ step[q] \in {"parked", "rejected"}

Fate == [q \in Questions |->
            IF step[q] = "unasked" THEN "unasked"
            ELSE IF Undecided(q) THEN "waiting"
            ELSE IF answers[q] > 0 THEN "decided"
            ELSE "dropped"]

RR == INSTANCE RequestReply WITH Requests <- Questions, fate <- Fate

(* Every question's fate is settled once and never revised. *)
ImplementsRequestReply == RR!Safety

(* No modern call outlives the window of its first park by more than its   *)
(* own call_timeout, however often its client retries: it ends, and every  *)
(* question is settled.                                                    *)
CallsEnd == \A c \in Calls : pc[c] # "idle" ~> pc[c] = "done"
QuestionsSettle == \A q \in Questions : Undecided(q) ~> ~Undecided(q) \/ phase # "running"

(* Both together: nothing a modern call began stays unfinished, whether or *)
(* not its client ever comes back.                                         *)
CallsAndQuestionsEnd == CallsEnd /\ QuestionsSettle

(* MRTROutcome: InputRequests are "questions the client must answer before *)
(* the call can continue": none of them has been answered already.         *)
AskedWhatIsOpen == \A c \in Calls : pc[c] = "parked" => reply[c] \subseteq open[c]
=============================================================================
