----------------------------- MODULE MrtrProofs -----------------------------
(***************************************************************************)
(* Theorems about Mrtr, for any calls, questions and channel capacity.     *)
(***************************************************************************)
EXTENDS Mrtr, SequenceTheorems, TLAPS

USE DEF callVars, questionVars, vars

(* What the invariants need of the variables' types. *)
Typed ==
    /\ pending \subseteq Questions
    /\ pc \in [Calls -> Places]
    /\ channel \in [Calls -> Seq(Questions)]
    /\ open \in [Calls -> SUBSET Questions] /\ batch \in [Calls -> SUBSET Questions]
    /\ closed \in [Calls -> BOOLEAN]
    /\ reply \in [Calls -> SUBSET Questions] /\ inputs \in [Calls -> SUBSET Questions]
    /\ step \in [Questions -> Steps]
    /\ claimer \in [Questions -> Calls \cup {NoCall}]
    /\ answers \in [Questions -> Nat]

(* A question being delivered has a waiter and no response; whatever a     *)
(* call holds, queues or has shown its client has been delivered to it;    *)
(* and a call that is through with its waiter has closed it.               *)
Delivered(q) == step[q] \in {"tracked", "refusing", "done"}

BridgeInv ==
    /\ \A q \in Questions :
          step[q] \in {"parked", "rejected", "tracked", "refusing"} => claimer[q] \in Calls
    /\ \A q \in Questions :
          step[q] \in {"unasked", "parked", "rejected"} => answers[q] = 0
    /\ \A q \in pending : step[q] # "unasked"
    /\ \A c \in Calls : \A q \in open[c] \cup batch[c] \cup reply[c] \cup inputs[c] : Delivered(q)
    /\ \A c \in Calls : \A i \in 1 .. Len(channel[c]) : step[channel[c][i]] = "done"
    /\ \A c \in Calls : pc[c] = "refusing" => closed[c]
    /\ \A c \in Calls : pc[c] = "done" /\ phase # "closed" => closed[c]
    /\ AnsweredOnce
    /\ NoOrphan

Inv == Typed /\ BridgeInv

-----------------------------------------------------------------------------
(* Queueing a question, and taking the oldest one. *)
LEMMA Queueing ==
    ASSUME NEW S, NEW s \in Seq(S), NEW x \in S
    PROVE  /\ Append(s, x) \in Seq(S)
           /\ Len(Append(s, x)) = Len(s) + 1
           /\ Len(s) \in Nat
           /\ Append(s, x)[Len(s) + 1] = x
           /\ \A i \in 1 .. Len(s) : Append(s, x)[i] = s[i] /\ s[i] \in S
    OBVIOUS

LEMMA Dequeuing ==
    ASSUME NEW S, NEW s \in Seq(S), s # <<>>
    PROVE  /\ Head(s) \in S /\ Head(s) = s[1] /\ 1 \in 1 .. Len(s)
           /\ Tail(s) \in Seq(S)
           /\ \A i \in 1 .. Len(Tail(s)) : i + 1 \in 1 .. Len(s) /\ Tail(s)[i] = s[i + 1]
    OBVIOUS

-----------------------------------------------------------------------------
(* Steps that leave every question where it is. *)
LEMMA QuietStep ==
    ASSUME Inv,
           UNCHANGED <<pending, channel, open, closed, step, claimer, answers>>,
           pc' \in [Calls -> Places],
           batch' \in [Calls -> SUBSET Questions],
           reply' \in [Calls -> SUBSET Questions],
           inputs' \in [Calls -> SUBSET Questions],
           \A c \in Calls :
              batch'[c] \cup reply'[c] \cup inputs'[c]
                 \subseteq open[c] \cup batch[c] \cup reply[c] \cup inputs[c],
           \A c \in Calls : pc'[c] = "refusing" <=> pc[c] = "refusing",
           \A c \in Calls : batch'[c] = batch[c] \/ pc[c] # "refusing",
           \A c \in Calls : pc'[c] = "done" /\ phase' # "closed" => pc[c] = "done",
           phase = "closed" => phase' = "closed",
           phase' = "running" => phase = "running"
    PROVE  Inv'
<1> USE DEF Inv, Typed
<1>1. Typed'
  OBVIOUS
<1>2. \A c \in Calls : \A q \in open'[c] \cup batch'[c] \cup reply'[c] \cup inputs'[c] : Delivered(q)'
  BY DEF BridgeInv, Delivered
<1>3. \A c \in Calls : pc'[c] = "refusing" => closed'[c]
  BY DEF BridgeInv
<1>4. \A c \in Calls : pc'[c] = "done" /\ phase' # "closed" => closed'[c]
  BY DEF BridgeInv
<1>5. NoOrphan'
  <2> SUFFICES ASSUME phase' = "running", NEW q \in pending,
                      ~(step[q] \in {"parked", "rejected", "refusing"})
               PROVE  \E c \in Calls :
                         \/ q \in open[c] /\ pc'[c] \notin {"refusing", "done"}
                         \/ q \in batch'[c] /\ pc'[c] = "refusing"
    BY DEF NoOrphan
  <2>1. PICK c \in Calls : \/ q \in open[c] /\ pc[c] \notin {"refusing", "done"}
                           \/ q \in batch[c] /\ pc[c] = "refusing"
    BY DEF BridgeInv, NoOrphan
  <2> QED
    BY <2>1
<1> QED
  BY <1>1, <1>2, <1>3, <1>4, <1>5 DEF BridgeInv, AnsweredOnce

LEMMA BridgeStep ==
    ASSUME Inv, [Next]_vars
    PROVE  Inv'
<1> USE DEF Inv, Typed, Places, Steps
<1>1. ASSUME NEW q \in Questions, NEW c \in Calls, Intercept(q, c) PROVE Inv'
  BY <1>1 DEF Intercept, Deliver, BridgeInv, Delivered, AnsweredOnce, NoOrphan
<1>2. ASSUME NEW q \in Questions, RefuseIncapable(q) PROVE Inv'
  BY <1>2 DEF RefuseIncapable, Deliver, Respond, BridgeInv, Delivered, AnsweredOnce, NoOrphan
<1>3. ASSUME NEW q \in Questions, TrackOpen(q) PROVE Inv'
  <2> DEFINE c == claimer[q]
  <2>1. c \in Calls
    BY <1>3 DEF TrackOpen, BridgeInv
  <2>2. CASE closed[c]
    <3>1. /\ step' = [step EXCEPT ![q] = "rejected"] /\ step[q] = "parked"
          /\ UNCHANGED <<pending, phase, pc, channel, open, closed, batch, reply, inputs, claimer,
                         answers>>
      BY <1>3, <2>2 DEF TrackOpen, Deliver
    <3>2. NoOrphan'
      BY <3>1 DEF BridgeInv, NoOrphan
    <3>3. \A d \in Calls : \A i \in 1 .. Len(channel'[d]) : step'[channel'[d][i]] = "done"
      BY <3>1 DEF BridgeInv
    <3> QED
      BY <3>1, <3>2, <3>3, <2>1 DEF BridgeInv, Delivered, AnsweredOnce
  <2>3. CASE ~closed[c]
    <3>1. /\ step' = [step EXCEPT ![q] = "tracked"]
          /\ open' = [open EXCEPT ![c] = @ \cup {q}]
          /\ UNCHANGED <<pending, phase, pc, channel, closed, batch, reply, inputs, claimer, answers>>
      BY <1>3, <2>3 DEF TrackOpen, Deliver
    <3>2. phase = "running" => pc[c] \notin {"refusing", "done"}
      BY <2>1, <2>3 DEF BridgeInv
    <3>3. NoOrphan'
      BY <3>1, <3>2, <2>1 DEF BridgeInv, NoOrphan
    <3> QED
      BY <3>1, <3>3, <2>1, <1>3 DEF BridgeInv, Delivered, AnsweredOnce, TrackOpen
  <2> QED
    BY <2>2, <2>3
<1>4. ASSUME NEW q \in Questions, RollBack(q) PROVE Inv'
  BY <1>4 DEF RollBack, Deliver, Respond, BridgeInv, Delivered, AnsweredOnce, NoOrphan
<1>5. ASSUME NEW q \in Questions, Send(q) PROVE Inv'
  <2> DEFINE c == claimer[q]
  <2>1. c \in Calls /\ step[q] = "tracked"
    BY <1>5 DEF Send, BridgeInv
  <2>2. /\ channel' = [channel EXCEPT ![c] = Append(channel[c], q)]
        /\ step' = [step EXCEPT ![q] = "done"]
        /\ UNCHANGED <<pending, phase, pc, open, closed, batch, reply, inputs, claimer, answers>>
    BY <1>5 DEF Send, Deliver
  <2>3. Typed'
    BY <2>1, <2>2, Queueing
  <2>4. \A d \in Calls : \A i \in 1 .. Len(channel'[d]) : step'[channel'[d][i]] = "done"
    BY <2>1, <2>2, Queueing DEF BridgeInv
  <2> QED
    BY <2>1, <2>2, <2>3, <2>4 DEF BridgeInv, Delivered, AnsweredOnce, NoOrphan
<1>6. ASSUME NEW q \in Questions, SendFails(q) PROVE Inv'
  <2> DEFINE c == claimer[q]
  <2>1. c \in Calls /\ step[q] = "tracked"
    BY <1>6 DEF SendFails, BridgeInv
  <2>2. /\ open' = [open EXCEPT ![c] = @ \ {q}]
        /\ step' = [step EXCEPT ![q] = "refusing"]
        /\ UNCHANGED <<pending, phase, pc, channel, closed, batch, reply, inputs, claimer, answers>>
    BY <1>6 DEF SendFails, Deliver
  <2>3. NoOrphan'
    BY <2>1, <2>2 DEF BridgeInv, NoOrphan
  <2>4. \A d \in Calls : \A i \in 1 .. Len(channel'[d]) : step'[channel'[d][i]] = "done"
    BY <2>1, <2>2 DEF BridgeInv
  <2> QED
    BY <2>1, <2>2, <2>3, <2>4 DEF BridgeInv, Delivered, AnsweredOnce
<1>7. ASSUME NEW q \in Questions, RefuseUnsent(q) PROVE Inv'
  BY <1>7 DEF RefuseUnsent, Finish, Deliver, Respond, BridgeInv, Delivered, AnsweredOnce, NoOrphan
<1>8. ASSUME NEW c \in Calls,
             CallModern(c) \/ CallReturns(c) \/ CollectResult(c) \/ CollectAgain(c)
             \/ Deregister(c) \/ WindowPasses(c) \/ Sweep(c)
      PROVE  Inv'
  BY <1>8, QuietStep DEF CallModern, CallReturns, CollectResult, CollectAgain, Deregister,
                         WindowPasses, Sweep, Goto
<1>9. ASSUME NEW c \in Calls, CollectQuestion(c) PROVE Inv'
  <2>1. /\ pc[c] = "collecting" /\ channel[c] # <<>>
        /\ batch' = [batch EXCEPT ![c] = @ \cup {Head(channel[c])}]
        /\ channel' = [channel EXCEPT ![c] = Tail(@)]
        /\ UNCHANGED <<pending, phase, pc, open, closed, reply, inputs, step, claimer, answers>>
    BY <1>9 DEF CollectQuestion
  <2>2. Head(channel[c]) \in Questions /\ step[Head(channel[c])] = "done"
    BY <2>1, Dequeuing DEF BridgeInv
  <2>3. Typed'
    BY <2>1, <2>2, Dequeuing
  <2>4. \A d \in Calls : \A i \in 1 .. Len(channel'[d]) : step'[channel'[d][i]] = "done"
    BY <2>1, Dequeuing DEF BridgeInv
  <2>5. NoOrphan'
    BY <2>1 DEF BridgeInv, NoOrphan
  <2> QED
    BY <2>1, <2>2, <2>3, <2>4, <2>5 DEF BridgeInv, Delivered, AnsweredOnce
<1>10. ASSUME NEW c \in Calls, CloseWindow(c) \/ Repark(c) PROVE Inv'
  <2>1. PICK Q \in SUBSET (open[c] \cup batch[c]) :
           /\ pc[c] \in {"collecting", "resuming"}
           /\ Park(c, Q)
           /\ batch' = batch \/ batch' = [batch EXCEPT ![c] = {}]
           /\ UNCHANGED <<pending, phase, channel, open, closed, inputs, step, claimer, answers>>
    BY <1>10 DEF CloseWindow, Repark
  <2>2. \/ pc' = [pc EXCEPT ![c] = "leaving"] /\ reply' = reply
        \/ pc' = [pc EXCEPT ![c] = "parked"] /\ reply' = [reply EXCEPT ![c] = Q]
    BY <2>1 DEF Park, Goto
  <2>3. /\ pc' \in [Calls -> Places]
        /\ batch' \in [Calls -> SUBSET Questions]
        /\ reply' \in [Calls -> SUBSET Questions]
    BY <2>1, <2>2
  <2>4. \A d \in Calls : /\ pc'[d] = "refusing" <=> pc[d] = "refusing"
                         /\ batch'[d] = batch[d] \/ pc[d] # "refusing"
                         /\ pc'[d] = "done" => pc[d] = "done"
    BY <2>1, <2>2
  <2>5. \A d \in Calls : batch'[d] \cup reply'[d] \cup inputs'[d]
                            \subseteq open[d] \cup batch[d] \cup reply[d] \cup inputs[d]
    <3> SUFFICES ASSUME NEW d \in Calls
                 PROVE  batch'[d] \subseteq batch[d] /\ reply'[d] \subseteq Q \cup reply[d]
                        /\ inputs'[d] = inputs[d] /\ (d # c => reply'[d] = reply[d])
      BY <2>1
    <3> QED
      BY <2>1, <2>2
  <2> QED
    BY <2>1, <2>3, <2>4, <2>5, QuietStep
<1>11. ASSUME NEW c \in Calls, NEW A \in SUBSET reply[c], Resume(c, A) PROVE Inv'
  BY <1>11, QuietStep DEF Resume, Goto
<1>12. ASSUME NEW c \in Calls, NEW q \in Questions, RouteInput(c, q) PROVE Inv'
  <2>1. pending' = pending \ {q} /\ Delivered(q)
    BY <1>12 DEF RouteInput, Finish, BridgeInv
  <2>2. /\ \A p \in Questions : p # q => answers'[p] = answers[p]
        /\ answers'[q] = IF q \in pending THEN answers[q] + 1 ELSE answers[q]
        /\ answers' \in [Questions -> Nat]
    <3>1. answers' = IF q \in pending THEN [answers EXCEPT ![q] = @ + 1] ELSE answers
      BY <1>12 DEF RouteInput, Finish, Respond
    <3> QED
      BY <3>1
  <2>3. AnsweredOnce'
    BY <2>1, <2>2 DEF BridgeInv, AnsweredOnce
  <2>4. NoOrphan'
    BY <1>12, <2>1 DEF RouteInput, BridgeInv, NoOrphan
  <2>5. \A p \in Questions : step'[p] \in {"unasked", "parked", "rejected"} => answers'[p] = 0
    BY <1>12, <2>1, <2>2 DEF RouteInput, BridgeInv, Delivered
  <2>6. \A d \in Calls : \A i \in 1 .. Len(channel'[d]) : step'[channel'[d][i]] = "done"
    BY <1>12 DEF RouteInput, BridgeInv
  <2> QED
    BY <1>12, <2>1, <2>2, <2>3, <2>4, <2>5, <2>6 DEF RouteInput, BridgeInv, Delivered
<1>13. ASSUME NEW c \in Calls, TakeOpen(c) PROVE Inv'
  <2>1. /\ pc[c] = "closing"
        /\ closed' = [closed EXCEPT ![c] = TRUE]
        /\ batch' = [batch EXCEPT ![c] = open[c]]
        /\ open' = [open EXCEPT ![c] = {}]
        /\ pc' = [pc EXCEPT ![c] = "refusing"]
        /\ UNCHANGED <<pending, phase, channel, reply, inputs, step, claimer, answers>>
    BY <1>13 DEF TakeOpen, Goto
  <2>2. NoOrphan'
    BY <2>1 DEF BridgeInv, NoOrphan
  <2> QED
    BY <2>1, <2>2 DEF BridgeInv, Delivered, AnsweredOnce
<1>14. ASSUME NEW c \in Calls, NEW q \in Questions, RefuseOpen(c, q) PROVE Inv'
  <2>1. pending' = pending \ {q} /\ Delivered(q)
    BY <1>14 DEF RefuseOpen, Finish, BridgeInv
  <2>2. /\ \A p \in Questions : p # q => answers'[p] = answers[p]
        /\ answers'[q] = IF q \in pending THEN answers[q] + 1 ELSE answers[q]
        /\ answers' \in [Questions -> Nat]
    <3>1. answers' = IF q \in pending THEN [answers EXCEPT ![q] = @ + 1] ELSE answers
      BY <1>14 DEF RefuseOpen, Finish, Respond
    <3> QED
      BY <3>1
  <2>3. AnsweredOnce'
    BY <2>1, <2>2 DEF BridgeInv, AnsweredOnce
  <2>4. NoOrphan'
    <3>1. /\ batch' = [batch EXCEPT ![c] = @ \ {q}]
          /\ UNCHANGED <<phase, pc, open, step>>
      BY <1>14 DEF RefuseOpen
    <3> QED
      BY <3>1, <2>1 DEF BridgeInv, NoOrphan
  <2>5. \A p \in Questions : step'[p] \in {"unasked", "parked", "rejected"} => answers'[p] = 0
    BY <1>14, <2>1, <2>2 DEF RefuseOpen, BridgeInv, Delivered
  <2>6. \A d \in Calls : \A i \in 1 .. Len(channel'[d]) : step'[channel'[d][i]] = "done"
    BY <1>14 DEF RefuseOpen, BridgeInv
  <2> QED
    BY <1>14, <2>1, <2>2, <2>3, <2>4, <2>5, <2>6 DEF RefuseOpen, BridgeInv, Delivered
<1>15. ASSUME NEW c \in Calls, Leave(c) PROVE Inv'
  BY <1>15 DEF Leave, Goto, BridgeInv, Delivered, AnsweredOnce, NoOrphan
<1>16. CASE DropPending \/ CloseServerReqs
  BY <1>16 DEF DropPending, CloseServerReqs, BridgeInv, Delivered, AnsweredOnce, NoOrphan
<1>17. CASE CloseMRTR
  BY <1>17, QuietStep DEF CloseMRTR
<1>18. CASE UNCHANGED vars
  BY <1>18, QuietStep
<1> QED
  BY <1>1, <1>2, <1>3, <1>4, <1>5, <1>6, <1>7, <1>8, <1>9, <1>10, <1>11, <1>12, <1>13, <1>14,
     <1>15, <1>16, <1>17, <1>18 DEF Next, Delivery, Own

LEMMA BridgeInvariant == Safety => []Inv
<1>1. Init => Inv
  BY DEF Init, Inv, Typed, BridgeInv, Places, Steps, Delivered, AnsweredOnce, NoOrphan
<1> QED
  BY <1>1, BridgeStep, PTL DEF Safety

(* No question is ever responded to twice, nor responded to and left       *)
(* parked, whichever of delivery, retry, sweep and teardown comes first.   *)
THEOREM QuestionsAnsweredOnce == Safety => []AnsweredOnce
<1>1. Inv => AnsweredOnce
  BY DEF Inv, BridgeInv
<1> QED
  BY <1>1, BridgeInvariant, PTL

(* Every question parked is in somebody's hands: its delivery's, or those  *)
(* of a call that has not finished with its waiter.                        *)
THEOREM NoQuestionOrphaned == Safety => []NoOrphan
<1>1. Inv => NoOrphan
  BY DEF Inv, BridgeInv
<1> QED
  BY <1>1, BridgeInvariant, PTL

-----------------------------------------------------------------------------
(* The rest of the type invariant: the list of waiters. *)

(* No waiter is listed twice, since only a call that has not begun is      *)
(* added and every listed one has begun.                                   *)
Listed ==
    /\ stack \in Seq(Calls)
    /\ \A i, j \in 1 .. Len(stack) : stack[i] = stack[j] => i = j
    /\ \A i \in 1 .. Len(stack) : pc[stack[i]] # "idle"

RestTyped ==
    /\ phase \in {"running", "drained", "closed"}
    /\ capable \in [Calls -> BOOLEAN]
    /\ run \in [Calls -> {"none", "running", "returned"}]
    /\ window \in [Calls -> {"unset", "ahead", "passed"}]

LEMMA Removing ==
    ASSUME NEW S, NEW s \in Seq(S), NEW i \in 1 .. Len(s)
    PROVE  /\ RemoveAt(s, i) \in Seq(S)
           /\ Len(RemoveAt(s, i)) = Len(s) - 1
           /\ \A j \in 1 .. Len(s) - 1 :
                 RemoveAt(s, i)[j] = IF j < i THEN s[j] ELSE s[j + 1]
<1> DEFINE before == SubSeq(s, 1, i - 1)
           after == SubSeq(s, i + 1, Len(s))
<1>1. /\ Len(s) \in Nat /\ i \in Int
      /\ \A j \in 1 .. Len(s) : s[j] \in S
  BY LenProperties
<1>2. /\ before \in Seq(S) /\ Len(before) = i - 1
      /\ \A j \in 1 .. i - 1 : before[j] = s[j]
  BY <1>1, SubSeqProperties
<1>3. /\ after \in Seq(S) /\ Len(after) = Len(s) - i
      /\ \A j \in 1 .. Len(s) - i : after[j] = s[i + j]
  BY <1>1, SubSeqProperties
<1>4. RemoveAt(s, i) = before \o after
  BY DEF RemoveAt
<1> HIDE DEF before, after
<1>5. /\ before \o after \in Seq(S)
      /\ Len(before \o after) = Len(s) - 1
      /\ \A j \in 1 .. Len(s) - 1 :
            (before \o after)[j] = IF j <= i - 1 THEN before[j] ELSE after[j - (i - 1)]
  BY <1>1, <1>2, <1>3, ConcatProperties
<1>6. ASSUME NEW j \in 1 .. Len(s) - 1
      PROVE  (before \o after)[j] = IF j < i THEN s[j] ELSE s[j + 1]
  <2>1. CASE j < i
    BY <1>1, <1>2, <1>5, <2>1
  <2>2. CASE ~(j < i)
    <3>1. /\ j - (i - 1) \in 1 .. Len(s) - i
          /\ i + (j - (i - 1)) = j + 1
      BY <1>1, <2>2
    <3> QED
      BY <1>1, <1>3, <1>5, <2>2, <3>1
  <2> QED
    BY <2>1, <2>2
<1> QED
  BY <1>4, <1>5, <1>6

(* Every step but three leaves the list alone, and no call begins twice. *)
LEMMA ListKept ==
    ASSUME Listed, UNCHANGED stack,
           \A c \in Calls : pc[c] # "idle" => pc'[c] # "idle"
    PROVE  Listed'
    BY DEF Listed

LEMMA ListStep ==
    ASSUME Typed, Listed, [Next]_vars
    PROVE  Listed'
<1> USE DEF Goto
<1>1. ASSUME NEW c \in Calls, CallModern(c) PROVE Listed'
  <2>1. /\ pc[c] = "idle" /\ pc' = [pc EXCEPT ![c] = "collecting"]
        /\ stack' = Append(stack, c)
    BY <1>1 DEF CallModern
  <2>2. /\ stack' \in Seq(Calls) /\ Len(stack') = Len(stack) + 1 /\ Len(stack) \in Nat
        /\ stack'[Len(stack) + 1] = c
        /\ \A i \in 1 .. Len(stack) : stack'[i] = stack[i] /\ stack[i] \in Calls
    BY <2>1, Queueing DEF Listed
  <2>3. \A i \in 1 .. Len(stack) : stack[i] # c
    BY <2>1 DEF Listed
  <2>4. \A i, j \in 1 .. Len(stack') : stack'[i] = stack'[j] => i = j
    BY <2>2, <2>3 DEF Listed
  <2>5. \A i \in 1 .. Len(stack') : pc'[stack'[i]] # "idle"
    BY <2>1, <2>2, <2>3 DEF Listed, Typed
  <2> QED
    BY <2>2, <2>4, <2>5 DEF Listed
<1>2. ASSUME NEW c \in Calls, Deregister(c) PROVE Listed'
  <2>1. pc' = [pc EXCEPT ![c] = "closing"]
    BY <1>2 DEF Deregister
  <2>2. CASE UNCHANGED stack
    BY <2>1, <2>2, ListKept DEF Typed
  <2>3. CASE \E i \in 1 .. Len(stack) : stack' = RemoveAt(stack, i)
    <3>1. PICK i \in 1 .. Len(stack) : stack' = RemoveAt(stack, i)
      BY <2>3
    <3>2. /\ stack' \in Seq(Calls) /\ Len(stack') = Len(stack) - 1
          /\ \A j \in 1 .. Len(stack) - 1 :
                stack'[j] = IF j < i THEN stack[j] ELSE stack[j + 1]
          /\ Len(stack) \in Nat
          /\ \A j \in 1 .. Len(stack) : stack[j] \in Calls
      BY <3>1, Removing, LenProperties DEF Listed
    <3>3. ASSUME NEW j \in 1 .. Len(stack'), NEW k \in 1 .. Len(stack'), stack'[j] = stack'[k]
          PROVE  j = k
      <4> DEFINE at(n) == IF n < i THEN n ELSE n + 1
      <4>1. /\ at(j) \in 1 .. Len(stack) /\ stack'[j] = stack[at(j)]
            /\ at(k) \in 1 .. Len(stack) /\ stack'[k] = stack[at(k)]
        BY <3>2
      <4>2. at(j) = at(k)
        BY <3>3, <4>1 DEF Listed
      <4> QED
        BY <3>2, <4>2
    <3>4. ASSUME NEW j \in 1 .. Len(stack') PROVE pc'[stack'[j]] # "idle"
      <4>1. PICK k \in 1 .. Len(stack) : stack'[j] = stack[k]
        BY <3>2
      <4> QED
        BY <2>1, <3>2, <4>1 DEF Listed, Typed
    <3> QED
      BY <3>2, <3>3, <3>4 DEF Listed
  <2> QED
    BY <1>2, <2>2, <2>3 DEF Deregister
<1>3. CASE CloseMRTR
  <2>1. stack' = <<>> /\ Len(<<>>) = 0
    BY <1>3 DEF CloseMRTR
  <2> QED
    BY <2>1, EmptySeq DEF Listed
<1>4. ASSUME NEW q \in Questions,
             \/ RefuseIncapable(q) \/ \E c \in Calls : Intercept(q, c)
             \/ TrackOpen(q) \/ RollBack(q) \/ Send(q) \/ SendFails(q) \/ RefuseUnsent(q)
             \/ \E c \in Calls : RouteInput(c, q) \/ RefuseOpen(c, q)
      PROVE  UNCHANGED <<stack, pc>>
  BY <1>4 DEF RefuseIncapable, Intercept, TrackOpen, RollBack, Send, SendFails, RefuseUnsent,
              RouteInput, RefuseOpen
<1>5. ASSUME NEW c \in Calls,
             \/ CallReturns(c) \/ CollectResult(c) \/ CollectQuestion(c)
             \/ CloseWindow(c) \/ Repark(c) \/ CollectAgain(c)
             \/ TakeOpen(c) \/ Leave(c) \/ WindowPasses(c) \/ Sweep(c)
             \/ \E A \in SUBSET reply[c] : Resume(c, A)
      PROVE  /\ UNCHANGED stack
             /\ pc' = pc \/ \E label \in Places \ {"idle"} : pc' = [pc EXCEPT ![c] = label]
  BY <1>5 DEF CallReturns, CollectResult, CollectQuestion, CloseWindow, Repark, CollectAgain,
              TakeOpen, Leave, WindowPasses, Sweep, Resume, Park, Places
<1>6. CASE DropPending \/ CloseServerReqs \/ UNCHANGED vars
  BY <1>6, ListKept DEF DropPending, CloseServerReqs
<1>7. ASSUME NEW c \in Calls, UNCHANGED stack,
             pc' = pc \/ \E label \in Places \ {"idle"} : pc' = [pc EXCEPT ![c] = label]
      PROVE  Listed'
  BY <1>7, ListKept DEF Typed
<1> QED
  BY <1>1, <1>2, <1>3, <1>4, <1>5, <1>6, <1>7, ListKept DEF Next, Delivery, Own

LEMMA RestTypedStep ==
    ASSUME RestTyped, [Next]_vars
    PROVE  RestTyped'
<1>1. phase' = phase \/ phase' \in {"drained", "closed"}
  BY DEF Next, Delivery, Own, RefuseIncapable, Intercept, TrackOpen, RollBack, Send, SendFails,
         RefuseUnsent, RouteInput, RefuseOpen, CallModern, CallReturns, CollectResult,
         CollectQuestion, CloseWindow, Repark, CollectAgain, Deregister, TakeOpen, Leave,
         WindowPasses, Sweep, Resume, DropPending, CloseServerReqs, CloseMRTR
<1>2. \/ UNCHANGED <<capable, run, window>>
      \/ \E c \in Calls : CallModern(c) \/ CallReturns(c) \/ WindowPasses(c)
      \/ \E c \in Calls : UNCHANGED <<capable, run>> /\ \E Q \in {batch[c], open[c]} : Park(c, Q)
  BY DEF Next, Delivery, Own, RefuseIncapable, Intercept, TrackOpen, RollBack, Send, SendFails,
         RefuseUnsent, RouteInput, RefuseOpen, CollectResult,
         CollectQuestion, CloseWindow, Repark, CollectAgain, Deregister, TakeOpen, Leave,
         Sweep, Resume, DropPending, CloseServerReqs, CloseMRTR
<1>3. ASSUME NEW c \in Calls, CallModern(c)
      PROVE  (capable' \in [Calls -> BOOLEAN]) /\ (window' = window)
             /\ (run' \in [Calls -> {"none", "running", "returned"}])
  BY <1>3 DEF CallModern, RestTyped
<1>4. ASSUME NEW c \in Calls, CallReturns(c) \/ WindowPasses(c) PROVE RestTyped'
  BY <1>1, <1>4 DEF CallReturns, WindowPasses, RestTyped
<1>5. ASSUME NEW c \in Calls, UNCHANGED <<capable, run>>, \E Q \in {batch[c], open[c]} : Park(c, Q)
      PROVE  RestTyped'
  BY <1>1, <1>5 DEF Park, RestTyped
<1> QED
  BY <1>1, <1>2, <1>3, <1>4, <1>5 DEF RestTyped

(* The type invariant: no waiter is registered twice, however its call is  *)
(* parked, resumed, swept or torn down.                                    *)
THEOREM MrtrTyping == Safety => []TypeOK
<1>1. Init => Listed
  BY EmptySeq DEF Init, Listed
<1>2. Init => RestTyped
  BY DEF Init, RestTyped
<1>3. Listed /\ RestTyped /\ Inv /\ [Next]_vars => Listed' /\ RestTyped'
  BY ListStep, RestTypedStep DEF Inv
<1>4. Inv /\ Listed /\ RestTyped => TypeOK
  BY DEF Inv, Typed, Listed, RestTyped, TypeOK
<1> QED
  BY <1>1, <1>2, <1>3, <1>4, BridgeInvariant, PTL DEF Safety

-----------------------------------------------------------------------------
(* The refinement. *)

LEMMA FateValue ==
    ASSUME NEW q \in Questions
    PROVE  Fate[q] = IF step[q] = "unasked" THEN "unasked"
                     ELSE IF Undecided(q) THEN "waiting"
                     ELSE IF answers[q] > 0 THEN "decided"
                     ELSE "dropped"
    BY DEF Fate

LEMMA FateValueNext ==
    ASSUME NEW q \in Questions
    PROVE  Fate'[q] = IF step'[q] = "unasked" THEN "unasked"
                      ELSE IF Undecided(q)' THEN "waiting"
                      ELSE IF answers'[q] > 0 THEN "decided"
                      ELSE "dropped"
    BY DEF Fate

(* What keeps one question's fate. *)
LEMMA FateKept ==
    ASSUME NEW q \in Questions,
           step'[q] = "unasked" <=> step[q] = "unasked",
           Undecided(q)' <=> Undecided(q),
           answers'[q] = answers[q]
    PROVE  Fate'[q] = Fate[q]
    BY FateValue, FateValueNext

LEMMA MoveOne ==
    ASSUME NEW q \in Questions, NEW from, NEW to,
           Fate[q] = from, Fate'[q] = to,
           \A p \in Questions : p # q => Fate'[p] = Fate[p]
    PROVE  RR!Move(q, from, to)
    BY DEF RR!Move, Fate

LEMMA AllKept ==
    ASSUME \A q \in Questions : Fate'[q] = Fate[q]
    PROVE  UNCHANGED Fate
    BY DEF Fate

(* Undecided questions that nobody will respond to any more are dropped. *)
LEMMA DropSome ==
    ASSUME NEW R \in SUBSET Questions, R # {},
           \A q \in R : Fate[q] = "waiting" /\ Fate'[q] = "dropped",
           \A q \in Questions \ R : Fate'[q] = Fate[q]
    PROVE  RR!Drop(R)
    BY DEF RR!Drop, Fate

(* The arbiter's step: one waiting question is decided, or nothing is. *)
LEMMA FinishRefines ==
    ASSUME Inv, NEW q \in Questions, Finish(q), Delivered(q),
           step' = step \/ step' = [step EXCEPT ![q] = "done"]
    PROVE  [RR!Next]_Fate
<1> USE DEF Inv, Typed, Delivered
<1>1. CASE q \in pending
  <2>1. answers[q] = 0 /\ answers' = [answers EXCEPT ![q] = @ + 1] /\ pending' = pending \ {q}
    BY <1>1 DEF Finish, Respond, BridgeInv, AnsweredOnce
  <2>2. \A p \in Questions : p # q => Fate'[p] = Fate[p]
    BY <2>1, FateKept DEF Undecided
  <2>3. /\ step[q] # "unasked" /\ Undecided(q)
        /\ step'[q] # "unasked" /\ ~Undecided(q)' /\ answers'[q] = 1
    BY <1>1, <2>1 DEF Undecided
  <2>4. Fate[q] = "waiting"
    BY <2>3, FateValue
  <2>5. Fate'[q] = "decided"
    BY <2>3, FateValueNext
  <2>6. RR!Decide(q)
    BY <2>2, <2>4, <2>5, MoveOne DEF RR!Decide
  <2> QED
    BY <2>6 DEF RR!Next
<1>2. CASE q \notin pending
  <2>1. answers' = answers /\ pending' = pending
    BY <1>2 DEF Finish
  <2> QED
    BY <2>1, FateKept, AllKept DEF Undecided
<1> QED
  BY <1>1, <1>2

LEMMA StepRefines ==
    ASSUME Inv, [Next]_vars
    PROVE  [RR!Next]_Fate
<1> USE DEF Inv, Typed
<1>1. ASSUME NEW q \in Questions, NEW c \in Calls, Intercept(q, c) PROVE RR!Ask(q)
  <2>1. \A p \in Questions : p # q => Fate'[p] = Fate[p]
    BY <1>1, FateKept DEF Intercept, Deliver, Undecided
  <2>2. Fate[q] = "unasked" /\ Fate'[q] = "waiting"
    BY <1>1, FateValue, FateValueNext DEF Intercept, Deliver, Undecided
  <2> QED
    BY <2>1, <2>2, MoveOne DEF RR!Ask
<1>2. ASSUME NEW q \in Questions, RefuseIncapable(q) PROVE RR!Refuse(q)
  <2>1. /\ step[q] = "unasked" /\ q \notin pending /\ answers[q] = 0
        /\ step' = [step EXCEPT ![q] = "done"]
        /\ answers' = [answers EXCEPT ![q] = @ + 1]
        /\ pending' = pending
    BY <1>2 DEF RefuseIncapable, Deliver, Respond, BridgeInv
  <2>2. \A p \in Questions : p # q => Fate'[p] = Fate[p]
    BY <2>1, FateKept DEF Undecided
  <2>3. Fate[q] = "unasked" /\ Fate'[q] = "decided"
    BY <2>1, FateValue, FateValueNext DEF Undecided
  <2> QED
    BY <2>2, <2>3, MoveOne DEF RR!Refuse
<1>3. ASSUME NEW q \in Questions, TrackOpen(q) PROVE [RR!Next]_Fate
  <2>1. /\ step[q] = "parked" /\ pending' = pending /\ answers' = answers
        /\ step' = [step EXCEPT ![q] = "rejected"] \/ step' = [step EXCEPT ![q] = "tracked"]
        /\ answers[q] = 0
    BY <1>3 DEF TrackOpen, Deliver, BridgeInv
  <2>2. \A p \in Questions : p # q => Fate'[p] = Fate[p]
    BY <2>1, FateKept DEF Undecided
  <2>3. CASE step'[q] = "rejected" \/ q \in pending
    <3>1. Fate'[q] = Fate[q]
      BY <2>1, <2>3, FateKept DEF Undecided
    <3> QED
      BY <2>2, <3>1, AllKept
  <2>4. CASE step'[q] = "tracked" /\ q \notin pending
    <3>1. /\ step[q] # "unasked" /\ Undecided(q)
          /\ step'[q] # "unasked" /\ ~Undecided(q)' /\ answers'[q] = 0
      BY <2>1, <2>4 DEF Undecided
    <3>2. Fate[q] = "waiting"
      BY <3>1, FateValue
    <3>3. Fate'[q] = "dropped"
      BY <3>1, FateValueNext
    <3>4. RR!Drop({q})
      BY <2>2, <3>2, <3>3, DropSome
    <3> QED
      BY <3>4 DEF RR!Next
  <2> QED
    BY <2>1, <2>3, <2>4
<1>4. ASSUME NEW q \in Questions, RollBack(q) PROVE RR!Decide(q)
  <2>1. /\ step[q] = "rejected" /\ answers[q] = 0
        /\ pending' = pending \ {q}
        /\ step' = [step EXCEPT ![q] = "done"]
        /\ answers' = [answers EXCEPT ![q] = @ + 1]
    BY <1>4 DEF RollBack, Deliver, Respond, BridgeInv
  <2>2. \A p \in Questions : p # q => Fate'[p] = Fate[p]
    BY <2>1, FateKept DEF Undecided
  <2>3. /\ step[q] # "unasked" /\ Undecided(q)
        /\ step'[q] # "unasked" /\ ~Undecided(q)' /\ answers'[q] = 1
    BY <2>1 DEF Undecided
  <2>4. Fate[q] = "waiting"
    BY <2>3, FateValue
  <2>5. Fate'[q] = "decided"
    BY <2>3, FateValueNext
  <2> QED
    BY <2>2, <2>4, <2>5, MoveOne DEF RR!Decide
<1>5. ASSUME NEW q \in Questions, Send(q) \/ SendFails(q) PROVE UNCHANGED Fate
  <2>1. /\ step[q] = "tracked" /\ UNCHANGED <<pending, answers>>
        /\ step' = [step EXCEPT ![q] = "done"] \/ step' = [step EXCEPT ![q] = "refusing"]
    BY <1>5 DEF Send, SendFails, Deliver
  <2> QED
    BY <2>1, FateKept, AllKept DEF Undecided
<1>6. ASSUME NEW q \in Questions, RefuseUnsent(q) PROVE [RR!Next]_Fate
  <2>1. Delivered(q) /\ Finish(q) /\ step' = [step EXCEPT ![q] = "done"]
    BY <1>6 DEF RefuseUnsent, Deliver, Delivered
  <2> QED
    BY <2>1, FinishRefines
<1>7. ASSUME NEW c \in Calls, NEW q \in Questions, RouteInput(c, q) \/ RefuseOpen(c, q)
      PROVE  [RR!Next]_Fate
  <2>1. Delivered(q) /\ Finish(q) /\ step' = step
    BY <1>7 DEF RouteInput, RefuseOpen, BridgeInv
  <2> QED
    BY <2>1, FinishRefines
<1>8. CASE UNCHANGED <<pending, step, answers>>
  BY <1>8, FateKept, AllKept DEF Undecided
<1>9. CASE DropPending \/ CloseServerReqs
  <2> DEFINE R == {q \in pending : step[q] \notin {"parked", "rejected"}}
  <2>1. pending' = {} /\ UNCHANGED <<step, answers>>
    BY <1>9 DEF DropPending, CloseServerReqs
  <2>2. \A q \in Questions \ R : Fate'[q] = Fate[q]
    BY <2>1, FateKept DEF Undecided
  <2>3. \A q \in R : answers[q] = 0 /\ step[q] # "unasked"
    BY DEF BridgeInv, AnsweredOnce
  <2>4. \A q \in R : Fate[q] = "waiting" /\ Fate'[q] = "dropped"
    BY <2>1, <2>3, FateValue, FateValueNext DEF Undecided
  <2>5. CASE R = {}
    BY <2>2, <2>5, AllKept
  <2>6. CASE R # {}
    <3>1. RR!Drop(R)
      BY <2>2, <2>4, <2>6, DropSome
    <3> QED
      BY <3>1 DEF RR!Next
  <2> QED
    BY <2>5, <2>6
<1>10. ASSUME NEW c \in Calls,
              \/ CallModern(c) \/ CallReturns(c) \/ CollectResult(c) \/ CollectQuestion(c)
              \/ CloseWindow(c) \/ Repark(c) \/ CollectAgain(c)
              \/ Deregister(c) \/ TakeOpen(c) \/ Leave(c) \/ WindowPasses(c) \/ Sweep(c)
              \/ \E A \in SUBSET reply[c] : Resume(c, A)
       PROVE  UNCHANGED <<pending, step, answers>>
  BY <1>10 DEF CallModern, CallReturns, CollectResult, CollectQuestion, CloseWindow, Repark,
               CollectAgain, Deregister, TakeOpen, Leave, WindowPasses, Sweep, Resume
<1>11. CASE CloseMRTR
  BY <1>11, <1>8 DEF CloseMRTR
<1> QED
  BY <1>1, <1>2, <1>3, <1>4, <1>5, <1>6, <1>7, <1>8, <1>9, <1>10, <1>11
     DEF Next, Delivery, Own, RR!Next

(* Every behaviour of the bridge is one of RequestReply's: a question's    *)
(* fate is settled once, by a response or by its connection's removal.     *)
THEOREM BridgeImplementsRequestReply == Safety => ImplementsRequestReply
<1>1. Init => RR!Init
  BY DEF Init, RR!Init, Fate
<1>2. Inv /\ [Next]_vars => [RR!Next]_Fate
  BY StepRefines
<1> QED
  BY <1>1, <1>2, BridgeInvariant, PTL DEF Safety, RR!Safety, ImplementsRequestReply
=============================================================================
