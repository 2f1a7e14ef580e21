------------------------ MODULE ServerRequestsProofs ------------------------
(***************************************************************************)
(* Theorems about ServerRequests, for any upstreams, connections, request  *)
(* ids and channel capacity.                                               *)
(***************************************************************************)
EXTENDS ServerRequests, TLAPS

-----------------------------------------------------------------------------
(* Minting extends the table of gateway ids and leaves its prefix alone.   *)
LEMMA Minting ==
    ASSUME NEW S, NEW s \in Seq(S), NEW r \in S
    PROVE  /\ Append(s, r) \in Seq(S)
           /\ Len(Append(s, r)) = Len(s) + 1
           /\ Len(s) \in Nat
           /\ Append(s, r)[Len(s) + 1] = r
           /\ \A i \in 1 .. Len(s) : Append(s, r)[i] = s[i] /\ s[i] \in S
    OBVIOUS

(* The channel's head is an id and its tail is a channel again. *)
LEMMA Dequeuing ==
    ASSUME NEW S, NEW s \in Seq(S), s # <<>>
    PROVE  Head(s) \in S /\ Tail(s) \in Seq(S)
    OBVIOUS

USE DEF lifeVars, parkVars, respVars, vars, Gids, Requests

(* Every variable keeps its type: in particular the ids parked, armed and  *)
(* fired are ids that have been minted.                                    *)
THEOREM Typing == Safety => []TypeOK
<1>1. Init => TypeOK
  BY DEF Init, TypeOK
<1>2. TypeOK /\ [Next]_vars => TypeOK'
  <2> SUFFICES ASSUME TypeOK, [Next]_vars PROVE TypeOK'
    OBVIOUS
  <2> USE NameOfAssumption DEF TypeOK
  <2>1. ASSUME NEW c \in Conns, Launch(c) PROVE TypeOK'
    BY <2>1 DEF Launch
  <2>2. ASSUME NEW c \in Conns, Merge(c) PROVE TypeOK'
    BY <2>2 DEF Merge
  <2>3. ASSUME NEW c \in Conns, Replace(c) PROVE TypeOK'
    <3>1. NameOf[c] \in Names
      OBVIOUS
    <3>2. conns' \in [Names -> Conns \cup {NoConn}]
      BY <2>3, <3>1 DEF Replace
    <3> QED
      BY <2>3, <3>2 DEF Replace
  <2>4. ASSUME NEW c \in Conns, Discard(c) PROVE TypeOK'
    BY <2>4 DEF Discard
  <2>5. ASSUME NEW c \in Conns, Retire(c) PROVE TypeOK'
    BY <2>5 DEF Retire
  <2>6. ASSUME NEW c \in Conns, Exit(c) PROVE TypeOK'
    BY <2>6 DEF Exit
  <2>7. ASSUME NEW c \in Conns, DropUpstream(c) \/ DropUpstreamIfCurrent(c) PROVE TypeOK'
    <3>1. conns' \in [Names -> Conns \cup {NoConn}]
      BY <2>7 DEF DropUpstream, DropUpstreamIfCurrent
    <3>2. CASE DropUpstream(c)
      BY <3>1, <3>2 DEF DropUpstream
    <3>3. CASE DropUpstreamIfCurrent(c)
      BY <3>1, <3>3 DEF DropUpstreamIfCurrent
    <3> QED
      BY <2>7, <3>2, <3>3
  <2>8. ASSUME NEW o \in dropsDue, DropPending(o) PROVE TypeOK'
    BY <2>8 DEF DropPending
  <2>9. ASSUME NEW r \in Requests, AskUndeclared(r) PROVE TypeOK'
    BY <2>9 DEF AskUndeclared, Reads, Refuse
  <2>10. ASSUME NEW r \in Requests, Publish(r) PROVE TypeOK'
    <3>1. /\ minted' \in Seq(Requests)
          /\ Len(minted') = Len(minted) + 1
          /\ Len(minted) \in Nat
      BY <2>10, Minting DEF Publish
    <3>2. queue' \in Seq(Nat)
      BY <2>10, <3>1 DEF Publish
    <3>3. pending' \subseteq Gids' /\ armed' \subseteq Gids' /\ fired' \subseteq Gids'
      BY <2>10, <3>1 DEF Publish
    <3> QED
      BY <2>10, <3>1, <3>2, <3>3 DEF Publish, Reads
  <2>11. ASSUME NEW r \in Requests, PublishFails(r) PROVE TypeOK'
    <3>1. /\ minted' \in Seq(Requests)
          /\ Len(minted') = Len(minted) + 1
          /\ Len(minted) \in Nat
      BY <2>11, Minting DEF PublishFails
    <3> QED
      BY <2>11, <3>1 DEF PublishFails, Reads, Refuse
  <2>12. ASSUME NEW g \in Gids, Take(g)
         PROVE  /\ pending' \subseteq Gids
                /\ refusing' \subseteq Requests /\ taken' \subseteq Requests
                /\ writing' \subseteq Requests \X Conns /\ wire' \subseteq Requests \X Conns
                /\ answers' \in [Requests -> Nat]
    <3>1. minted[g] \in Requests
      OBVIOUS
    <3> QED
      BY <2>12, <3>1 DEF Take
  <2>13. CASE Show
    BY <2>13, Dequeuing DEF Show
  <2>14. CASE GiveUp
    <3>1. queue' \in Seq(Nat)
      BY <2>14, Dequeuing DEF GiveUp
    <3>2. CASE Head(queue) \in pending
      BY <2>14, <3>1, <3>2, <2>12 DEF GiveUp
    <3>3. CASE Head(queue) \notin pending
      BY <2>14, <3>1, <3>3 DEF GiveUp
    <3> QED
      BY <3>2, <3>3
  <2>15. ASSUME NEW g \in Gids, Abandon(g) \/ ClientAnswer(g) PROVE TypeOK'
    BY <2>15, <2>12 DEF Abandon, ClientAnswer
  <2>16. ASSUME NEW g \in Gids, FireTimer(g) PROVE TypeOK'
    BY <2>16 DEF FireTimer
  <2>17. ASSUME NEW g \in Gids, Expire(g) PROVE TypeOK'
    <3>1. CASE g \in pending
      BY <2>17, <3>1, <2>12 DEF Expire
    <3>2. CASE g \notin pending
      BY <2>17, <3>2 DEF Expire
    <3> QED
      BY <3>1, <3>2
  <2>18. ASSUME NEW g \in Gids, StopTimer(g) PROVE TypeOK'
    BY <2>18 DEF StopTimer
  <2>19. ASSUME NEW r \in Requests, Lookup(r) PROVE TypeOK'
    <3> DEFINE c == conns[Upstream(r)]
    <3>1. c = NoConn \/ c \in Conns
      BY DEF Upstream
    <3>2. writing' \subseteq Requests \X Conns
      <4>1. CASE c = NoConn
        BY <2>19, <4>1 DEF Lookup
      <4>2. CASE c # NoConn
        BY <2>19, <3>1, <4>2 DEF Lookup
      <4> QED
        BY <4>1, <4>2
    <3> QED
      BY <2>19, <3>2 DEF Lookup
  <2>20. ASSUME NEW r \in Requests, NEW c \in Conns, Write(r, c) PROVE TypeOK'
    BY <2>20 DEF Write
  <2>21. CASE SetCaps
    BY <2>21 DEF SetCaps
  <2>22. CASE BeginClose
    BY <2>22 DEF BeginClose
  <2>23. CASE CloseServerReqs
    BY <2>23 DEF CloseServerReqs
  <2>24. CASE CloseConns
    BY <2>24 DEF CloseConns
  <2>25. CASE UNCHANGED vars
    BY <2>25
  <2> QED
    BY <2>1, <2>2, <2>3, <2>4, <2>5, <2>6, <2>7, <2>8, <2>9, <2>10, <2>11, <2>13,
       <2>14, <2>15, <2>16, <2>17, <2>18, <2>19, <2>20, <2>21, <2>22, <2>23, <2>24,
       <2>25 DEF Next, Life, Traffic
<1> QED
  BY <1>1, <1>2, PTL DEF Safety

-----------------------------------------------------------------------------
(* What a step can do to the requests' fates, and nothing else can: the    *)
(* reader turns one down or parks one, somebody takes one from the pending *)
(* map, or parked ones are forgotten.                                      *)

TurnsDown(r) ==
    /\ r \in Requests \ asked
    /\ asked' = asked \cup {r}
    /\ answers' = [answers EXCEPT ![r] = @ + 1]
    /\ pending' = pending
    /\ minted' = minted \/ minted' = Append(minted, r)

Parks(r) ==
    /\ r \in Requests \ asked
    /\ asked' = asked \cup {r}
    /\ minted' = Append(minted, r)
    /\ pending' = pending \cup {Len(minted) + 1}
    /\ answers' = answers

Takes(g) ==
    /\ g \in pending
    /\ pending' = pending \ {g}
    /\ answers' = [answers EXCEPT ![minted[g]] = @ + 1]
    /\ UNCHANGED <<asked, minted>>

Forgets ==
    /\ pending' \subseteq pending
    /\ UNCHANGED <<asked, minted, answers>>

LEMMA StepKinds ==
    ASSUME TypeOK, [Next]_vars
    PROVE  \/ \E r \in Requests : TurnsDown(r) \/ Parks(r)
           \/ \E g \in Gids : Takes(g)
           \/ Forgets
<1> USE DEF TypeOK
<1>1. ASSUME NEW c \in Conns,
             Launch(c) \/ Merge(c) \/ Replace(c) \/ Discard(c) \/ Retire(c) \/ Exit(c)
      PROVE  Forgets
  BY <1>1 DEF Forgets, Launch, Merge, Replace, Discard, Retire, Exit
<1>2. ASSUME NEW c \in Conns,
             DropUpstream(c) \/ DropUpstreamIfCurrent(c) \/ \E o \in dropsDue : DropPending(o)
      PROVE  Forgets
  BY <1>2 DEF Forgets, DropUpstream, DropUpstreamIfCurrent, DropPending
<1>3. ASSUME SetCaps \/ BeginClose \/ CloseServerReqs \/ CloseConns PROVE Forgets
  BY <1>3 DEF Forgets, SetCaps, BeginClose, CloseServerReqs, CloseConns
<1>4. ASSUME NEW r \in Requests, AskUndeclared(r) \/ PublishFails(r) PROVE TurnsDown(r)
  BY <1>4 DEF TurnsDown, AskUndeclared, PublishFails, Reads, Refuse
<1>5. ASSUME NEW r \in Requests, Publish(r) PROVE Parks(r)
  BY <1>5 DEF Parks, Publish, Reads
<1>6. ASSUME NEW g \in Gids, Abandon(g) \/ ClientAnswer(g) PROVE Takes(g)
  BY <1>6 DEF Takes, Abandon, ClientAnswer, Take
<1>7. ASSUME NEW g \in Gids, Expire(g) PROVE Takes(g) \/ Forgets
  BY <1>7 DEF Takes, Forgets, Expire, Take
<1>8. ASSUME GiveUp PROVE Forgets \/ \E g \in Gids : Takes(g)
  <2>1. CASE Head(queue) \in pending
    <3>1. Takes(Head(queue))
      BY <1>8, <2>1 DEF Takes, GiveUp, Take
    <3> QED
      BY <2>1, <3>1
  <2>2. CASE Head(queue) \notin pending
    BY <1>8, <2>2 DEF Forgets, GiveUp
  <2> QED
    BY <2>1, <2>2
<1>9. ASSUME NEW g \in Gids, FireTimer(g) \/ StopTimer(g) PROVE Forgets
  BY <1>9 DEF Forgets, FireTimer, StopTimer
<1>10. ASSUME NEW r \in Requests, Lookup(r) \/ \E c \in Conns : Write(r, c) PROVE Forgets
  BY <1>10 DEF Forgets, Lookup, Write
<1>11. ASSUME Show \/ UNCHANGED vars PROVE Forgets
  BY <1>11 DEF Forgets, Show
<1> QED
  BY <1>1, <1>2, <1>3, <1>4, <1>5, <1>6, <1>7, <1>8, <1>9, <1>10, <1>11
  DEF Next, Life, Traffic

(* The arbiter's invariant.  AtMostOneResponse is not inductive: it needs  *)
(* that two gateway ids never stand for one request (else two entries of   *)
(* it could be taken) and that only what was asked has been answered.      *)
ArbiterInv ==
    /\ \A g \in Gids : minted[g] \in asked
    /\ \A g, h \in Gids : minted[g] = minted[h] => g = h
    /\ \A r \in Requests : answers[r] <= 1
    /\ \A r \in Requests \ asked : answers[r] = 0
    /\ \A g \in pending : answers[minted[g]] = 0

LEMMA ArbiterStep ==
    ASSUME TypeOK, ArbiterInv, [Next]_vars
    PROVE  ArbiterInv'
<1> USE DEF TypeOK, ArbiterInv
<1>1. ASSUME NEW r \in Requests, TurnsDown(r) PROVE ArbiterInv'
  <2>1. answers[r] = 0 /\ answers'[r] = 1
    BY <1>1 DEF TurnsDown
  <2>2. \A q \in Requests : q # r => answers'[q] = answers[q]
    BY <1>1 DEF TurnsDown
  <2>3. \A g \in Gids : minted[g] # r
    BY <1>1 DEF TurnsDown
  <2>4. CASE minted' = minted
    BY <1>1, <2>1, <2>2, <2>3, <2>4 DEF TurnsDown
  <2>5. CASE minted' = Append(minted, r)
    <3>1. /\ Len(minted') = Len(minted) + 1 /\ Len(minted) \in Nat
          /\ minted'[Len(minted) + 1] = r
          /\ \A i \in 1 .. Len(minted) : minted'[i] = minted[i] /\ minted[i] \in Requests
      BY <2>5, Minting
    <3>2. \A g \in Gids' : g \in Gids \/ g = Len(minted) + 1
      BY <3>1
    <3>3. \A g \in Gids' : minted'[g] \in asked'
      BY <1>1, <3>1, <3>2 DEF TurnsDown
    <3>4. \A g, h \in Gids' : minted'[g] = minted'[h] => g = h
      BY <2>3, <3>1, <3>2, SMTT(30)
    <3>5. \A g \in pending' : answers'[minted'[g]] = 0
      BY <1>1, <2>2, <2>3, <3>1 DEF TurnsDown
    <3> QED
      BY <1>1, <2>1, <2>2, <3>3, <3>4, <3>5 DEF TurnsDown
  <2> QED
    BY <1>1, <2>4, <2>5 DEF TurnsDown
<1>2. ASSUME NEW r \in Requests, Parks(r) PROVE ArbiterInv'
  <2>1. /\ Len(minted') = Len(minted) + 1 /\ Len(minted) \in Nat
        /\ minted'[Len(minted) + 1] = r
        /\ \A i \in 1 .. Len(minted) : minted'[i] = minted[i] /\ minted[i] \in Requests
    BY <1>2, Minting DEF Parks
  <2>2. \A g \in Gids' : g \in Gids \/ g = Len(minted) + 1
    BY <2>1
  <2>3. \A g \in Gids : minted[g] # r
    BY <1>2 DEF Parks
  <2>4. \A g \in Gids' : minted'[g] \in asked'
    BY <1>2, <2>1, <2>2 DEF Parks
  <2>5. \A g, h \in Gids' : minted'[g] = minted'[h] => g = h
    BY <2>1, <2>2, <2>3
  <2>6. \A g \in pending' : answers'[minted'[g]] = 0
    BY <1>2, <2>1 DEF Parks
  <2> QED
    BY <1>2, <2>4, <2>5, <2>6 DEF Parks
<1>3. ASSUME NEW g \in Gids, Takes(g) PROVE ArbiterInv'
  <2>1. minted[g] \in Requests /\ answers[minted[g]] = 0
    BY <1>3 DEF Takes
  <2>2. \A q \in Requests : answers'[q] = IF q = minted[g] THEN 1 ELSE answers[q]
    BY <1>3, <2>1 DEF Takes
  <2>3. \A h \in pending' : minted[h] \in Requests /\ minted[h] # minted[g]
    BY <1>3 DEF Takes
  <2> QED
    BY <1>3, <2>1, <2>2, <2>3 DEF Takes
<1>4. CASE Forgets
  BY <1>4 DEF Forgets
<1> QED
  BY <1>1, <1>2, <1>3, <1>4, StepKinds

LEMMA ArbiterInvariant == Safety => []ArbiterInv
<1>1. Init => ArbiterInv
  BY DEF Init, ArbiterInv
<1>2. TypeOK /\ ArbiterInv /\ [Next]_vars => ArbiterInv'
  BY ArbiterStep
<1> QED
  BY <1>1, <1>2, Typing, PTL DEF Safety

(* The client's answer, the deadline, a transport giving up, the gate and  *)
(* the rollback together never decide two responses to one request.        *)
THEOREM ExactlyOneDecides == Safety => []AtMostOneResponse
<1>1. TypeOK /\ ArbiterInv => AtMostOneResponse
  BY DEF TypeOK, ArbiterInv, AtMostOneResponse, Parked
<1> QED
  BY <1>1, ArbiterInvariant, Typing, PTL

-----------------------------------------------------------------------------
(* A parked request is never without a deadline: arming happens with the   *)
(* parking, a callback that finds its entry settles it, and only the       *)
(* timers of entries already removed are stopped.                          *)
THEOREM DeadlineNeverLost == Safety => []DeadlineCovers
<1>1. Init => DeadlineCovers
  BY DEF Init, DeadlineCovers
<1>2. DeadlineCovers /\ [Next]_vars => DeadlineCovers'
  <2> SUFFICES ASSUME DeadlineCovers, [Next]_vars PROVE DeadlineCovers'
    OBVIOUS
  <2> USE DEF DeadlineCovers
  <2>1. ASSUME NEW c \in Conns,
               Launch(c) \/ Merge(c) \/ Replace(c) \/ Discard(c) \/ Retire(c) \/ Exit(c)
        PROVE  DeadlineCovers'
    BY <2>1 DEF Launch, Merge, Replace, Discard, Retire, Exit
  <2>2. ASSUME \/ \E c \in Conns : DropUpstream(c) \/ DropUpstreamIfCurrent(c)
               \/ \E o \in dropsDue : DropPending(o)
        PROVE  DeadlineCovers'
    BY <2>2 DEF DropUpstream, DropUpstreamIfCurrent, DropPending
  <2>3. CASE SetCaps \/ BeginClose \/ CloseServerReqs \/ CloseConns
    BY <2>3 DEF SetCaps, BeginClose, CloseServerReqs, CloseConns
  <2>4. ASSUME NEW r \in Requests, AskUndeclared(r) \/ Publish(r) \/ PublishFails(r)
        PROVE  DeadlineCovers'
    BY <2>4 DEF AskUndeclared, Publish, PublishFails
  <2>5. CASE Show \/ GiveUp
    BY <2>5 DEF Show, GiveUp, Take
  <2>6. ASSUME NEW g \in Gids, Abandon(g) \/ ClientAnswer(g) PROVE DeadlineCovers'
    BY <2>6 DEF Abandon, ClientAnswer, Take
  <2>7. ASSUME NEW g \in Gids, FireTimer(g) PROVE DeadlineCovers'
    BY <2>7 DEF FireTimer
  <2>8. ASSUME NEW g \in Gids, Expire(g) PROVE DeadlineCovers'
    BY <2>8 DEF Expire, Take
  <2>9. ASSUME NEW g \in Gids, StopTimer(g) PROVE DeadlineCovers'
    BY <2>9 DEF StopTimer
  <2>10. ASSUME NEW r \in Requests, Lookup(r) \/ \E c \in Conns : Write(r, c)
         PROVE  DeadlineCovers'
    BY <2>10 DEF Lookup, Write
  <2> QED
    BY <2>1, <2>2, <2>3, <2>4, <2>5, <2>6, <2>7, <2>8, <2>9, <2>10 DEF Next, Life, Traffic
<1> QED
  BY <1>1, <1>2, PTL DEF Safety

-----------------------------------------------------------------------------
(* The refinement. *)

(* Reading Fate off the pending map, the asked set and the answers. *)
LEMMA FateValue ==
    ASSUME NEW r \in Requests
    PROVE  Fate[r] = IF r \notin asked THEN "unasked"
                     ELSE IF Parked(r) THEN "waiting"
                     ELSE IF answers[r] > 0 THEN "decided"
                     ELSE "dropped"
    BY DEF Fate

LEMMA FateValueNext ==
    ASSUME NEW r \in Requests
    PROVE  Fate'[r] = IF r \notin asked' THEN "unasked"
                      ELSE IF Parked(r)' THEN "waiting"
                      ELSE IF answers'[r] > 0 THEN "decided"
                      ELSE "dropped"
    BY DEF Fate

(* The two facts a step needs to be a Move of the abstract specification. *)
LEMMA MoveOne ==
    ASSUME NEW r \in Requests, NEW from, NEW to,
           Fate[r] = from, Fate'[r] = to,
           \A q \in Requests : q # r => Fate'[q] = Fate[q]
    PROVE  RR!Move(r, from, to)
    BY DEF RR!Move, Fate

LEMMA StepRefines ==
    ASSUME TypeOK, ArbiterInv, [Next]_vars
    PROVE  [RR!Next]_Fate
<1> USE DEF TypeOK, ArbiterInv
<1>1. ASSUME NEW r \in Requests, TurnsDown(r) PROVE RR!Refuse(r)
  <2>1. \A q \in Requests : Parked(q)' <=> Parked(q)
    <3>1. \A g \in Gids : minted'[g] = minted[g]
      BY <1>1, Minting DEF TurnsDown
    <3> QED
      BY <1>1, <3>1 DEF TurnsDown, Parked
  <2>2. ~Parked(r)
    BY <1>1 DEF TurnsDown, Parked
  <2>3. answers'[r] = 1 /\ \A q \in Requests : q # r => answers'[q] = answers[q]
    BY <1>1 DEF TurnsDown
  <2>4. Fate[r] = "unasked" /\ Fate'[r] = "decided"
    BY <1>1, <2>1, <2>2, <2>3, FateValue, FateValueNext DEF TurnsDown
  <2>5. \A q \in Requests : q # r => Fate'[q] = Fate[q]
    <3> SUFFICES ASSUME NEW q \in Requests, q # r PROVE Fate'[q] = Fate[q]
      OBVIOUS
    <3>1. /\ q \in asked' <=> q \in asked
          /\ Parked(q)' <=> Parked(q)
          /\ answers'[q] = answers[q]
      BY <1>1, <2>1, <2>3 DEF TurnsDown
    <3> QED
      BY <3>1, FateValue, FateValueNext
  <2> QED
    BY <2>4, <2>5, MoveOne DEF RR!Refuse
<1>2. ASSUME NEW r \in Requests, Parks(r) PROVE RR!Ask(r)
  <2>1. /\ Len(minted') = Len(minted) + 1 /\ Len(minted) \in Nat
        /\ minted'[Len(minted) + 1] = r
        /\ \A i \in 1 .. Len(minted) : minted'[i] = minted[i]
    BY <1>2, Minting DEF Parks
  <2>2. Parked(r)' /\ \A q \in Requests : q # r => (Parked(q)' <=> Parked(q))
    BY <1>2, <2>1 DEF Parks, Parked
  <2>3. Fate[r] = "unasked" /\ Fate'[r] = "waiting"
    BY <1>2, <2>2, FateValue, FateValueNext DEF Parks
  <2>4. \A q \in Requests : q # r => Fate'[q] = Fate[q]
    BY <1>2, <2>2, FateValue, FateValueNext DEF Parks
  <2> QED
    BY <2>3, <2>4, MoveOne DEF RR!Ask
<1>3. ASSUME NEW g \in Gids, Takes(g) PROVE RR!Decide(minted[g])
  <2> DEFINE r == minted[g]
  <2>1. r \in Requests /\ r \in asked /\ Parked(r)
    BY <1>3 DEF Takes, Parked
  <2>2. ~Parked(r)' /\ \A q \in Requests : q # r => (Parked(q)' <=> Parked(q))
    BY <1>3 DEF Takes, Parked
  <2>3. answers'[r] = 1 /\ \A q \in Requests : q # r => answers'[q] = answers[q]
    BY <1>3 DEF Takes
  <2>4. Fate[r] = "waiting" /\ Fate'[r] = "decided"
    BY <1>3, <2>1, <2>2, <2>3, FateValue, FateValueNext DEF Takes
  <2>5. \A q \in Requests : q # r => Fate'[q] = Fate[q]
    BY <1>3, <2>2, <2>3, FateValue, FateValueNext DEF Takes
  <2> QED
    BY <2>1, <2>4, <2>5, MoveOne DEF RR!Decide
<1>4. CASE Forgets
  <2> DEFINE R == {r \in Requests : Parked(r) /\ ~Parked(r)'}
  <2>1. \A r \in Requests : Parked(r)' => Parked(r)
    BY <1>4 DEF Forgets, Parked
  <2>2. \A r \in R : Fate[r] = "waiting" /\ Fate'[r] = "dropped"
    <3>1. \A r \in R : r \in asked /\ answers[r] = 0
      BY DEF Parked
    <3> QED
      BY <1>4, <3>1, FateValue, FateValueNext DEF Forgets
  <2>3. \A r \in Requests \ R : Fate'[r] = Fate[r]
    BY <1>4, <2>1, FateValue, FateValueNext DEF Forgets
  <2>4. Fate' = [r \in Requests |-> IF r \in R THEN "dropped" ELSE Fate[r]]
    BY <2>2, <2>3 DEF Fate
  <2>5. CASE R = {}
    BY <2>4, <2>5 DEF Fate
  <2>6. CASE R # {}
    <3>1. RR!Drop(R)
      BY <2>2, <2>4, <2>6 DEF RR!Drop
    <3> QED
      BY <3>1 DEF RR!Next
  <2> QED
    BY <2>5, <2>6
<1> QED
  BY <1>1, <1>2, <1>3, <1>4, StepKinds DEF RR!Next

(* Every behaviour of the pipeline is one of RequestReply's: a fate, once  *)
(* settled by a response or by the connection's removal, stays settled.    *)
THEOREM ImplementsRequestReply == Safety => RR!Safety
<1>1. Init => RR!Init
  BY DEF Init, RR!Init, Fate
<1>2. TypeOK /\ ArbiterInv /\ [Next]_vars => [RR!Next]_Fate
  BY StepRefines
<1> QED
  BY <1>1, <1>2, ArbiterInvariant, Typing, PTL DEF Safety, RR!Safety

-----------------------------------------------------------------------------
(* Connections.  What a name denotes over time: the installed connection   *)
(* is of that name; one that served and was unhooked has exited; one being *)
(* launched to be installed is alone in that and everything that served    *)
(* its name has exited; none is while a reload closes the installed one;   *)
(* after Close no name denotes anything.                                   *)
Begun == served \cup launching \cup strays

LifeInv ==
    /\ \A n \in Names : conns[n] # NoConn => conns[n] \in served /\ NameOf[conns[n]] = n
    /\ \A c \in Begun : status[c] # "unborn"
    /\ \A c \in Conns : status[c] \in {"live", "failing"} => c \in Begun
    /\ \A c \in served : status[c] # "failing"
    /\ served \cap (launching \cup strays) = {} /\ launching \cap strays = {}
    /\ \A c, d \in launching : NameOf[d] = NameOf[c] => c = d
    /\ \A c \in launching, d \in served : NameOf[d] = NameOf[c] => status[d] = "down"
    /\ \A c \in retiring :
          conns[NameOf[c]] \in {c, NoConn} /\ \A d \in launching : NameOf[d] # NameOf[c]
    /\ phase # "closed" =>
          \A c \in served : conns[NameOf[c]] # c => status[c] = "down"
    /\ phase = "closed" => \A n \in Names : conns[n] = NoConn

LEMMA LifeStep ==
    ASSUME TypeOK, LifeInv, [Next]_vars
    PROVE  LifeInv'
<1> USE NameOfAssumption, NoConnAssumption DEF TypeOK, LifeInv, Begun
<1>1. ASSUME NEW c \in Conns, Launch(c) PROVE LifeInv'
  <2>1. \A d \in served : NameOf[d] = NameOf[c] => status[d] = "down"
    BY <1>1 DEF Launch
  <2>2. c \notin Begun
    BY <1>1 DEF Launch
  <2> QED
    BY <1>1, <2>1, <2>2 DEF Launch
<1>2. ASSUME NEW c \in Conns, Merge(c) PROVE LifeInv'
  BY <1>2 DEF Merge
<1>3. ASSUME NEW c \in Conns, Replace(c) PROVE LifeInv'
  BY <1>3 DEF Replace
<1>4. ASSUME NEW c \in Conns, Discard(c) PROVE LifeInv'
  <2>1. c \notin served
    BY <1>4 DEF Discard
  <2>2. CASE status[c] = "live"
    BY <1>4, <2>1, <2>2 DEF Discard
  <2>3. CASE status[c] = "down"
    <3>1. /\ launching' = launching \ {c} /\ strays' = strays \ {c}
          /\ UNCHANGED <<status, conns, retiring, served, phase>>
      BY <1>4, <2>3 DEF Discard
    <3> QED
      BY <2>1, <2>3, <3>1
  <2> QED
    BY <1>4, <2>2, <2>3 DEF Discard
<1>5. ASSUME NEW c \in Conns, Retire(c) PROVE LifeInv'
  BY <1>5 DEF Retire
<1>6. ASSUME NEW c \in Conns, Exit(c) PROVE LifeInv'
  BY <1>6 DEF Exit
<1>7. ASSUME NEW c \in Conns, DropUpstream(c) \/ DropUpstreamIfCurrent(c) PROVE LifeInv'
  <2>1. /\ status[c] = "down" /\ NameOf[c] \in Names
        /\ conns' = [conns EXCEPT ![NameOf[c]] = NoConn]
        /\ retiring' \subseteq retiring
        /\ UNCHANGED <<status, launching, strays, served, phase>>
    BY <1>7 DEF DropUpstream, DropUpstreamIfCurrent
  <2>2. phase # "closed" => \A d \in served : conns'[NameOf[d]] # d => status'[d] = "down"
    <3> SUFFICES ASSUME phase # "closed", NEW d \in served, conns'[NameOf[d]] # d
                 PROVE  status[d] = "down"
      BY <2>1
    <3>1. CASE conns[NameOf[d]] # d
      BY <3>1
    <3>2. CASE conns[NameOf[d]] = d
      <4>1. NameOf[d] = NameOf[c]
        BY <2>1, <3>2
      <4>2. CASE DropUpstreamIfCurrent(c)
        BY <2>1, <3>2, <4>1, <4>2 DEF DropUpstreamIfCurrent
      <4>3. CASE DropUpstream(c)
        BY <2>1, <3>2, <4>1, <4>3 DEF DropUpstream
      <4> QED
        BY <1>7, <4>2, <4>3
    <3> QED
      BY <3>1, <3>2
  <2> QED
    BY <2>1, <2>2
<1>8. ASSUME NEW o \in dropsDue, DropPending(o) PROVE LifeInv'
  BY <1>8 DEF DropPending
<1>9. CASE BeginClose \/ CloseServerReqs
  BY <1>9 DEF BeginClose, CloseServerReqs
<1>10. CASE CloseConns
  BY <1>10 DEF CloseConns
<1>11. CASE Traffic \/ SetCaps \/ UNCHANGED vars
  <2>1. UNCHANGED lifeVars
    BY <1>11 DEF Traffic, SetCaps, AskUndeclared, Publish, PublishFails, Show, GiveUp, Abandon,
       ClientAnswer, FireTimer, Expire, StopTimer, Lookup, Write
  <2> QED
    BY <2>1
<1> QED
  BY <1>1, <1>2, <1>3, <1>4, <1>5, <1>6, <1>7, <1>8, <1>9, <1>10, <1>11 DEF Next, Life

LEMMA LifeInvariant == Safety => []LifeInv
<1>1. Init => LifeInv
  BY DEF Init, LifeInv, Begun
<1>2. TypeOK /\ LifeInv /\ [Next]_vars => LifeInv'
  BY LifeStep
<1> QED
  BY <1>1, <1>2, Typing, PTL DEF Safety

(* Nothing a retired connection asked is still parked once the drops owed  *)
(* for its name have run.  The drop is by name and comes after the entry   *)
(* has changed hands; what makes it enough is that a connection's reader   *)
(* has finished before its name is given away (LifeInv).                   *)
THEOREM RetiredLeaveNothingParked == Safety => []NoStaleParked
<1> DEFINE OwedNext(n) == \E o \in dropsDue' : NameOf[o[1]] = n
<1>1. Init => NoStaleParked
  BY DEF Init, NoStaleParked
<1>2. TypeOK /\ LifeInv /\ NoStaleParked /\ [Next]_vars => NoStaleParked'
  <2> SUFFICES ASSUME TypeOK, LifeInv, NoStaleParked, [Next]_vars,
                      NEW g \in pending',
                      Asker(minted'[g]) \in served',
                      conns'[NameOf[Asker(minted'[g])]] # Asker(minted'[g]),
                      phase' = "running"
               PROVE  OwedNext(NameOf[Asker(minted'[g])])
    BY DEF NoStaleParked, DropOwed
  <2> DEFINE a == Asker(minted[g])
  <2> USE NameOfAssumption, NoConnAssumption DEF TypeOK
  <2>1. ASSUME NEW r \in Requests, Publish(r)
        PROVE  OwedNext(NameOf[Asker(minted'[g])])
    <3>1. /\ minted'[Len(minted) + 1] = r
          /\ \A i \in 1 .. Len(minted) : minted'[i] = minted[i]
      BY <2>1, Minting DEF Publish
    <3>2. CASE g = Len(minted) + 1
      <4>1. status[Asker(r)] # "down" /\ Asker(r) \in served /\ conns[NameOf[Asker(r)]] # Asker(r)
        BY <2>1, <3>1, <3>2 DEF Publish, Reads
      <4> QED
        BY <2>1, <4>1 DEF LifeInv, Publish
    <3>3. CASE g \in pending
      <4>1. minted'[g] = minted[g]
        BY <3>1, <3>3
      <4> QED
        BY <2>1, <3>3, <4>1 DEF NoStaleParked, Publish, DropOwed
    <3> QED
      BY <2>1, <3>2, <3>3 DEF Publish
  <2>2. ASSUME ~ \E r \in Requests : Publish(r)
        PROVE  g \in pending /\ minted'[g] = minted[g] /\ a \in Conns
    <3>1. ASSUME NEW r \in Requests, PublishFails(r) PROVE minted'[g] = minted[g] /\ g \in pending
      BY <3>1, Minting DEF PublishFails
    <3>2. ASSUME Life \/ SetCaps \/ UNCHANGED vars PROVE minted' = minted /\ g \in pending
      BY <3>2 DEF Life, SetCaps, Launch, Merge, Replace, Discard, Retire, Exit,
         DropUpstream, DropUpstreamIfCurrent, DropPending, BeginClose, CloseServerReqs, CloseConns
    <3>3. ASSUME Traffic, ~ \E r \in Requests : PublishFails(r) PROVE minted' = minted /\ g \in pending
      BY <2>2, <3>3 DEF Traffic, AskUndeclared, Show, GiveUp, Abandon, ClientAnswer, Take,
         FireTimer, Expire, StopTimer, Lookup, Write
    <3>4. g \in pending /\ minted'[g] = minted[g]
      BY <3>1, <3>2, <3>3 DEF Next
    <3>5. minted[g] \in Requests
      BY <3>4
    <3> QED
      BY <3>4, <3>5 DEF Asker
  <2>3. ASSUME NEW c \in Conns, Merge(c) PROVE OwedNext(NameOf[a])
    <3>1. g \in pending /\ minted'[g] = minted[g] /\ a \in Conns
      BY <2>3, <2>2 DEF Merge, Publish
    <3>2. a # c
      BY <2>3, <3>1 DEF Merge
    <3>3. a \in served /\ conns[NameOf[a]] # a
      BY <2>3, <3>1, <3>2 DEF Merge
    <3> QED
      BY <2>3, <3>1, <3>3 DEF Merge, NoStaleParked, DropOwed
  <2>4. ASSUME NEW c \in Conns, Replace(c) PROVE OwedNext(NameOf[a])
    <3>1. g \in pending /\ minted'[g] = minted[g] /\ a \in Conns
      BY <2>4, <2>2 DEF Replace, Publish
    <3>2. CASE NameOf[a] = NameOf[c]
      <4>1. <<c, "installed">> \in dropsDue' /\ NameOf[<<c, "installed">>[1]] = NameOf[a]
        BY <2>4, <3>2 DEF Replace
      <4> QED
        BY <4>1
    <3>3. CASE NameOf[a] # NameOf[c]
      <4>1. a \in served /\ conns[NameOf[a]] # a /\ phase = "running" /\ dropsDue \subseteq dropsDue'
        BY <2>4, <3>1, <3>3 DEF Replace
      <4> QED
        BY <3>1, <4>1 DEF NoStaleParked, DropOwed
    <3> QED
      BY <3>2, <3>3
  <2>5. ASSUME NEW c \in Conns, DropUpstream(c) \/ DropUpstreamIfCurrent(c)
        PROVE  OwedNext(NameOf[a])
    <3>1. g \in pending /\ minted'[g] = minted[g] /\ a \in Conns
      BY <2>5, <2>2 DEF DropUpstream, DropUpstreamIfCurrent, Publish
    <3>2. CASE NameOf[a] = NameOf[c]
      <4>1. \E why \in {"removed", "gaveUp"} : <<c, why>> \in dropsDue'
        BY <2>5 DEF DropUpstream, DropUpstreamIfCurrent
      <4>2. PICK why \in {"removed", "gaveUp"} : <<c, why>> \in dropsDue'
        BY <4>1
      <4>3. NameOf[<<c, why>>[1]] = NameOf[a]
        BY <3>2
      <4> QED
        BY <4>2, <4>3
    <3>3. CASE NameOf[a] # NameOf[c]
      <4>1. a \in served /\ conns[NameOf[a]] # a /\ phase = "running" /\ dropsDue \subseteq dropsDue'
        BY <2>5, <3>1, <3>3 DEF DropUpstream, DropUpstreamIfCurrent
      <4> QED
        BY <3>1, <4>1 DEF NoStaleParked, DropOwed
    <3> QED
      BY <3>2, <3>3
  <2>6. ASSUME NEW o \in dropsDue, DropPending(o) PROVE OwedNext(NameOf[a])
    <3>1. g \in pending /\ minted'[g] = minted[g] /\ a \in Conns
      BY <2>6, <2>2 DEF DropPending, Publish
    <3>2. NameOf[a] # NameOf[o[1]]
      BY <2>6, <3>1 DEF DropPending, Upstream, Asker
    <3>3. DropOwed(NameOf[a])
      BY <2>6, <3>1 DEF DropPending, NoStaleParked
    <3> QED
      BY <2>6, <3>2, <3>3 DEF DropPending, DropOwed
  <2>7. ASSUME UNCHANGED <<conns, served, dropsDue, phase>>, ~ \E r \in Requests : Publish(r)
        PROVE  OwedNext(NameOf[a])
    BY <2>7, <2>2 DEF NoStaleParked, DropOwed
  <2>8. CASE Traffic \/ SetCaps \/ UNCHANGED vars
    <3>1. UNCHANGED <<conns, served, dropsDue, phase>>
      BY <2>8 DEF Traffic, SetCaps, AskUndeclared, Publish, PublishFails, Show, GiveUp, Abandon,
         ClientAnswer, FireTimer, Expire, StopTimer, Lookup, Write
    <3>2. CASE \E r \in Requests : Publish(r)
      BY <2>1, <3>2
    <3>3. CASE ~ \E r \in Requests : Publish(r)
      BY <2>2, <2>7, <3>1, <3>3
    <3> QED
      BY <3>2, <3>3
  <2>9. CASE Life
    <3>1. ~ \E r \in Requests : Publish(r)
      <4>1. minted' = minted
        BY <2>9 DEF Life, Launch, Merge, Replace, Discard, Retire, Exit,
         DropUpstream, DropUpstreamIfCurrent, DropPending, BeginClose, CloseServerReqs, CloseConns
      <4> QED
        BY <4>1, Minting DEF Publish
    <3>2. ASSUME NEW c \in Conns, Launch(c) \/ Discard(c) \/ Retire(c) \/ Exit(c)
          PROVE  UNCHANGED <<conns, served, dropsDue, phase>>
      BY <3>2 DEF Launch, Discard, Retire, Exit
    <3>3. ~ (BeginClose \/ CloseServerReqs \/ CloseConns)
      BY DEF BeginClose, CloseServerReqs, CloseConns
    <3> QED
      BY <2>2, <2>3, <2>4, <2>5, <2>6, <2>7, <2>9, <3>1, <3>2, <3>3 DEF Life
  <2> QED
    BY <2>8, <2>9 DEF Next
<1> QED
  BY <1>1, <1>2, LifeInvariant, Typing, PTL DEF Safety

(* Where responses come from and go to: only connections that run ask, and *)
(* a response is only handed to a connection that served the asker's name. *)
FlowInv ==
    /\ \A r \in asked : status[Asker(r)] # "unborn"
    /\ refusing \subseteq asked /\ taken \subseteq asked
    /\ \A r \in Requests, c \in Conns : HandedTo(r, c) => r \in asked /\ c \in served
    /\ NoSplitDelivery

LEMMA FlowStep ==
    ASSUME TypeOK, LifeInv, ArbiterInv, FlowInv, [Next]_vars
    PROVE  FlowInv'
<1> USE NameOfAssumption, NoConnAssumption DEF TypeOK
<1>1. ASSUME Life PROVE FlowInv'
  <2>1. /\ UNCHANGED <<asked, minted, respVars>>
        /\ served \subseteq served'
    BY <1>1 DEF Life, Launch, Merge, Replace, Discard, Retire, Exit,
         DropUpstream, DropUpstreamIfCurrent, DropPending, BeginClose, CloseServerReqs, CloseConns
  <2>2. \A c \in Conns : \/ status'[c] = status[c]
                         \/ status'[c] \in {"closing", "failing", "down"} /\ status[c] \notin {"unborn", "down"}
                         \/ Launch(c)
    <3> DEFINE Down == \A c \in Conns :
                  \/ status'[c] = status[c]
                  \/ status'[c] \in {"closing", "failing", "down"} /\ status[c] \notin {"unborn", "down"}
    <3>1. ASSUME NEW c \in Conns, Launch(c)
          PROVE  \A d \in Conns : status'[d] = status[d] \/ d = c
      BY <3>1 DEF Launch
    <3>2. ASSUME NEW c \in Conns, Discard(c) \/ Retire(c) \/ Exit(c) PROVE Down
      BY <3>2 DEF Discard, Retire, Exit
    <3>3. ASSUME CloseConns PROVE Down
      BY <3>3 DEF CloseConns
    <3>4. ASSUME \/ \E c \in Conns : \/ Merge(c) \/ Replace(c)
                                     \/ DropUpstream(c) \/ DropUpstreamIfCurrent(c)
                 \/ \E o \in dropsDue : DropPending(o)
                 \/ BeginClose \/ CloseServerReqs
          PROVE  Down
      BY <3>4 DEF Merge, Replace, DropUpstream, DropUpstreamIfCurrent, DropPending,
         BeginClose, CloseServerReqs
    <3> QED
      BY <1>1, <3>1, <3>2, <3>3, <3>4 DEF Life
  <2>3. \A r \in asked : Asker(r) \in Conns /\ status'[Asker(r)] # "unborn" /\ ~Launch(Asker(r))
    <3> SUFFICES ASSUME NEW r \in asked
                 PROVE  Asker(r) \in Conns /\ status'[Asker(r)] # "unborn" /\ ~Launch(Asker(r))
      OBVIOUS
    <3>1. Asker(r) \in Conns /\ status[Asker(r)] # "unborn"
      BY DEF FlowInv, Asker
    <3> QED
      BY <2>2, <3>1 DEF Launch
  <2>4. \A c \in served : c \in Conns /\ ~Launch(c)
    BY DEF LifeInv, Launch
  <2>5. \A c \in served' \ served, d \in served : NameOf[d] = NameOf[c] => status'[d] = "down"
    <3> SUFFICES ASSUME NEW c \in served' \ served, NEW d \in served, NameOf[d] = NameOf[c]
                 PROVE  status'[d] = "down"
      OBVIOUS
    <3>1. \E e \in Conns : Merge(e) \/ Replace(e)
      BY <1>1 DEF Life, Launch, Discard, Retire, Exit,
         DropUpstream, DropUpstreamIfCurrent, DropPending, BeginClose, CloseServerReqs, CloseConns
    <3>2. c \in launching /\ status' = status
      BY <3>1 DEF Merge, Replace
    <3> QED
      BY <3>2 DEF LifeInv
  <2>6. NoSplitDelivery'
    <3> SUFFICES ASSUME NEW r \in Requests, NEW c \in Conns, HandedTo(r, c)'
                 PROVE  /\ NameOf[c] = Upstream(r)
                        /\ \/ c = Asker(r) \/ Asker(r) \notin served'
                           \/ status'[Asker(r)] # "live" \/ status'[c] = "down"
      BY DEF NoSplitDelivery
    <3>1. HandedTo(r, c)
      BY <2>1 DEF HandedTo
    <3>2. /\ r \in asked /\ c \in served
          /\ NameOf[c] = Upstream(r)
          /\ \/ c = Asker(r) \/ Asker(r) \notin served
             \/ status[Asker(r)] # "live" \/ status[c] = "down"
      BY <3>1 DEF FlowInv, NoSplitDelivery
    <3>3. status[Asker(r)] # "live" => status'[Asker(r)] # "live"
      BY <2>2, <2>3, <3>2
    <3>4. status[c] = "down" => status'[c] = "down"
      BY <2>2, <2>4, <3>2
    <3>5. Asker(r) \in served' \ served => status'[c] = "down"
      BY <2>5, <3>2 DEF Upstream, Asker
    <3> QED
      BY <3>2, <3>3, <3>4, <3>5
  <2> QED
    BY <2>1, <2>3, <2>6 DEF FlowInv, HandedTo
<1>2. ASSUME NEW r \in Requests, AskUndeclared(r) \/ Publish(r) \/ PublishFails(r)
      PROVE  FlowInv'
  <2>1. /\ asked' = asked \cup {r}
        /\ refusing' \subseteq refusing \cup {r}
        /\ status[Asker(r)] # "unborn"
        /\ UNCHANGED <<status, served, taken, writing, wire>>
    BY <1>2 DEF AskUndeclared, Publish, PublishFails, Reads, Refuse
  <2> QED
    BY <2>1 DEF FlowInv, NoSplitDelivery, HandedTo
<1>3. ASSUME NEW g \in Gids, Takes(g), taken' \subseteq taken \cup {minted[g]},
             UNCHANGED <<status, served, refusing, writing, wire>>
      PROVE  FlowInv'
  <2>1. minted[g] \in asked
    BY DEF ArbiterInv
  <2> QED
    BY <1>3, <2>1 DEF FlowInv, NoSplitDelivery, HandedTo, Takes
<1>4. ASSUME UNCHANGED <<status, served, asked, refusing, taken, writing, wire>>
      PROVE  FlowInv'
  BY <1>4 DEF FlowInv, NoSplitDelivery, HandedTo
<1>5. ASSUME NEW g \in Gids, Abandon(g) \/ ClientAnswer(g) \/ Expire(g) PROVE FlowInv'
  BY <1>3, <1>4, <1>5 DEF Abandon, ClientAnswer, Expire, Take, Takes
<1>6. ASSUME GiveUp PROVE FlowInv'
  <2>1. CASE Head(queue) \in pending
    BY <1>3, <1>6, <2>1 DEF GiveUp, Take, Takes
  <2>2. CASE Head(queue) \notin pending
    BY <1>4, <1>6, <2>2 DEF GiveUp
  <2> QED
    BY <2>1, <2>2
<1>7. ASSUME NEW g \in Gids, FireTimer(g) \/ StopTimer(g) PROVE FlowInv'
  BY <1>4, <1>7 DEF FireTimer, StopTimer
<1>8. ASSUME Show \/ SetCaps \/ UNCHANGED vars PROVE FlowInv'
  BY <1>4, <1>8 DEF Show, SetCaps
<1>9. ASSUME NEW r \in Requests, Lookup(r) PROVE FlowInv'
  <2> DEFINE c == conns[Upstream(r)]
  <2>1. /\ UNCHANGED <<status, served, asked, wire>>
        /\ refusing' \subseteq refusing /\ taken' \subseteq taken
        /\ r \in asked
        /\ c = NoConn => writing' = writing
        /\ c # NoConn => writing' = writing \cup {<<r, c>>}
    BY <1>9 DEF Lookup, FlowInv
  <2>2. CASE c = NoConn
    BY <2>1, <2>2 DEF FlowInv, NoSplitDelivery, HandedTo
  <2>3. CASE c # NoConn
    <3>1. Upstream(r) \in Names /\ Asker(r) \in Conns /\ Upstream(r) = NameOf[Asker(r)]
      BY DEF Upstream, Asker
    <3>2. c \in served /\ c \in Conns /\ NameOf[c] = Upstream(r)
      BY <2>3, <3>1 DEF LifeInv
    <3>3. c = Asker(r) \/ Asker(r) \notin served \/ status[Asker(r)] # "live"
      BY <2>3, <3>1 DEF LifeInv
    <3> QED
      BY <2>1, <2>3, <3>2, <3>3 DEF FlowInv, NoSplitDelivery, HandedTo
  <2> QED
    BY <2>2, <2>3
<1>10. ASSUME NEW r \in Requests, NEW c \in Conns, Write(r, c) PROVE FlowInv'
  <2>1. \A q \in Requests, d \in Conns : HandedTo(q, d)' => HandedTo(q, d)
    BY <1>10 DEF Write, HandedTo
  <2> QED
    BY <1>10, <2>1 DEF Write, FlowInv, NoSplitDelivery
<1> QED
  BY <1>1, <1>2, <1>5, <1>6, <1>7, <1>8, <1>9, <1>10 DEF Next, Traffic

(* The lookup by name never hands an installed upstream's answer to        *)
(* another live connection, nor any answer to another name.                *)
THEOREM NeverSplit == Safety => []NoSplitDelivery
<1>1. Init => FlowInv
  BY DEF Init, FlowInv, NoSplitDelivery, HandedTo
<1>2. TypeOK /\ LifeInv /\ ArbiterInv /\ FlowInv /\ [Next]_vars => FlowInv'
  BY FlowStep
<1>3. FlowInv => NoSplitDelivery
  BY DEF FlowInv
<1> QED
  BY <1>1, <1>2, <1>3, LifeInvariant, ArbiterInvariant, Typing, PTL DEF Safety

-----------------------------------------------------------------------------
(* The safety half of OwedReachesAsker: a request owed a response stays so *)
(* until somebody takes it; a taken one keeps the asker under its name     *)
(* until the lookup, which then finds it; and only the asker's own end or  *)
(* Close takes it off that path.                                           *)
Pursued(r) == Owed(r) \/ (r \in taken /\ conns[Upstream(r)] = Asker(r))

Met(r) ==
    \/ HandedTo(r, Asker(r))
    \/ status[Asker(r)] # "live"
    \/ phase # "running"

OwedIsPursued == \A r \in Requests : Pursued(r) => Pursued(r)' \/ Met(r)'

(* No interleaving of answers, deadlines, drops and replacements diverts   *)
(* what a live, settled connection asked: RouteUpstreamResponse and the    *)
(* refusals end with a write to that very connection or go on towards one. *)
THEOREM NothingOwedIsDiverted == Safety => [][OwedIsPursued]_vars
<1>1. TypeOK /\ LifeInv /\ [Next]_vars => OwedIsPursued
  <2> SUFFICES ASSUME TypeOK, LifeInv, [Next]_vars, NEW r \in Requests, Pursued(r)
               PROVE  Pursued(r)' \/ Met(r)'
    BY DEF OwedIsPursued
  <2> DEFINE a == Asker(r)
             n == Upstream(r)
             Lost == status'[a] # "live" \/ phase' # "running"
  <2> USE NameOfAssumption, NoConnAssumption DEF TypeOK
  <2>1. a \in Conns /\ n \in Names /\ n = NameOf[a] /\ conns[n] = a
    BY DEF Asker, Upstream, Pursued, Owed
  <2>2. a \in served
    BY <2>1 DEF LifeInv
  <2>3. Lost => Met(r)'
    BY DEF Met
  <2>4. ASSUME conns'[n] = a, taken' = taken, minted' = minted,
               Parked(r) /\ ~DropOwed(n) =>
                  /\ \A g \in pending : minted[g] = r => g \in pending'
                  /\ \A o \in dropsDue' : o \in dropsDue \/ NameOf[o[1]] # n
        PROVE  Pursued(r)'
    BY <2>4 DEF Pursued, Owed, Parked, DropOwed
  <2>5. ASSUME NEW c \in Conns, Launch(c) \/ Discard(c) \/ Retire(c) \/ Exit(c)
        PROVE  Pursued(r)'
    <3>1. UNCHANGED <<conns, taken, minted, pending, dropsDue>>
      BY <2>5 DEF Launch, Discard, Retire, Exit
    <3> QED
      BY <2>1, <2>4, <3>1
  <2>6. ASSUME NEW c \in Conns, Merge(c) PROVE Pursued(r)'
    <3>1. NameOf[c] # n /\ NameOf[c] \in Names
      BY <2>1, <2>6 DEF Merge
    <3>2. conns'[n] = a /\ UNCHANGED <<taken, minted, pending, dropsDue>>
      BY <2>1, <2>6, <3>1 DEF Merge
    <3> QED
      BY <2>4, <3>2
  <2>7. ASSUME NEW c \in Conns, Replace(c) PROVE Pursued(r)' \/ Lost
    <3>1. CASE NameOf[c] = n
      <4>1. status[a] = "down" /\ status' = status
        BY <2>1, <2>2, <2>7, <3>1 DEF Replace, LifeInv
      <4> QED
        BY <2>1, <4>1
    <3>2. CASE NameOf[c] # n
      <4>1. /\ conns'[n] = a /\ UNCHANGED <<taken, minted, pending>>
            /\ dropsDue' = dropsDue \cup {<<c, "installed">>}
        BY <2>1, <2>7, <3>2 DEF Replace
      <4>2. \A o \in dropsDue' : o \in dropsDue \/ NameOf[o[1]] # n
        BY <3>2, <4>1
      <4> QED
        BY <2>4, <4>1, <4>2
    <3> QED
      BY <3>1, <3>2
  <2>8. ASSUME NEW c \in Conns, DropUpstream(c) \/ DropUpstreamIfCurrent(c)
        PROVE  Pursued(r)' \/ Lost
    <3>1. /\ conns' = [conns EXCEPT ![NameOf[c]] = NoConn] /\ status' = status
          /\ status[c] = "down"
          /\ dropsDue' \in {dropsDue \cup {<<c, "removed">>}, dropsDue \cup {<<c, "gaveUp">>}}
          /\ UNCHANGED <<taken, minted, pending>>
      BY <2>8 DEF DropUpstream, DropUpstreamIfCurrent
    <3>2. CASE NameOf[c] = n
      <4>1. c = a
        BY <2>1, <2>8, <3>2 DEF DropUpstream, DropUpstreamIfCurrent, LifeInv
      <4> QED
        BY <3>1, <4>1
    <3>3. CASE NameOf[c] # n
      <4>1. conns'[n] = a
        BY <2>1, <3>1, <3>3
      <4>2. \A o \in dropsDue' : o \in dropsDue \/ NameOf[o[1]] # n
        BY <3>1, <3>3
      <4> QED
        BY <2>4, <3>1, <4>1, <4>2
    <3> QED
      BY <3>2, <3>3
  <2>9. ASSUME NEW o \in dropsDue, DropPending(o) PROVE Pursued(r)'
    <3>1. conns'[n] = a /\ UNCHANGED <<taken, minted>> /\ dropsDue' \subseteq dropsDue
      BY <2>1, <2>9 DEF DropPending
    <3>2. ~DropOwed(n) => \A g \in pending : minted[g] = r => g \in pending'
      BY <2>9 DEF DropPending, DropOwed
    <3> QED
      BY <2>4, <3>1, <3>2
  <2>10. ASSUME BeginClose \/ CloseServerReqs \/ CloseConns PROVE Lost
    BY <2>10 DEF BeginClose, CloseServerReqs, CloseConns
  <2>11. ASSUME NEW g \in Gids, Take(g), UNCHANGED <<conns, minted, dropsDue>>
         PROVE  Pursued(r)'
    <3>1. CASE minted[g] = r
      BY <2>1, <2>11, <3>1 DEF Take, Pursued
    <3>2. CASE minted[g] # r
      <4>1. \A h \in pending : minted[h] = r => h \in pending'
        BY <2>11, <3>2 DEF Take
      <4>2. taken \subseteq taken'
        BY <2>11 DEF Take
      <4> QED
        BY <2>1, <2>11, <4>1, <4>2 DEF Pursued, Owed, Parked, DropOwed
    <3> QED
      BY <3>1, <3>2
  <2>12. ASSUME NEW g \in Gids, Abandon(g) \/ ClientAnswer(g) PROVE Pursued(r)'
    BY <2>11, <2>12 DEF Abandon, ClientAnswer
  <2>13. ASSUME UNCHANGED <<conns, taken, minted, pending, dropsDue>> PROVE Pursued(r)'
    BY <2>1, <2>4, <2>13
  <2>14. ASSUME NEW g \in Gids, Expire(g) PROVE Pursued(r)'
    <3>1. CASE g \in pending
      BY <2>11, <2>14, <3>1 DEF Expire
    <3>2. CASE g \notin pending
      BY <2>13, <2>14, <3>2 DEF Expire
    <3> QED
      BY <3>1, <3>2
  <2>15. ASSUME GiveUp PROVE Pursued(r)'
    <3>1. CASE Head(queue) \in pending
      <4>1. Head(queue) \in Gids
        BY <3>1
      <4>2. Take(Head(queue)) /\ UNCHANGED <<conns, minted, dropsDue>>
        BY <2>15, <3>1 DEF GiveUp
      <4> QED
        BY <2>11, <4>1, <4>2
    <3>2. CASE Head(queue) \notin pending
      BY <2>13, <2>15, <3>2 DEF GiveUp
    <3> QED
      BY <3>1, <3>2
  <2>16. ASSUME \/ \E g \in Gids : FireTimer(g) \/ StopTimer(g)
                \/ \E q \in Requests : AskUndeclared(q) \/ \E c \in Conns : Write(q, c)
                \/ Show \/ SetCaps \/ UNCHANGED vars
         PROVE  Pursued(r)'
    <3>1. UNCHANGED <<conns, taken, minted, pending, dropsDue>>
      BY <2>16 DEF FireTimer, StopTimer, AskUndeclared, Refuse, Write, Show, SetCaps
    <3> QED
      BY <2>13, <3>1
  <2>17. ASSUME NEW q \in Requests, Publish(q) \/ PublishFails(q) PROVE Pursued(r)'
    <3>1. /\ UNCHANGED <<conns, taken, dropsDue>>
          /\ minted' = Append(minted, q) /\ pending \subseteq pending'
      BY <2>17 DEF Publish, PublishFails, Refuse
    <3>2. \A g \in pending : g \in pending' /\ minted'[g] = minted[g]
      BY <3>1, Minting
    <3> QED
      BY <2>1, <3>1, <3>2 DEF Pursued, Owed, Parked, DropOwed
  <2>18. ASSUME NEW q \in Requests, Lookup(q) PROVE Pursued(r)' \/ Met(r)'
    <3>1. UNCHANGED <<conns, minted, pending, dropsDue>> /\ taken' = taken \ {q}
      BY <2>18 DEF Lookup
    <3>2. CASE q = r
      <4>1. <<r, a>> \in writing'
        BY <2>1, <2>18, <3>2 DEF Lookup
      <4> QED
        BY <4>1 DEF Met, HandedTo
    <3>3. CASE q # r
      BY <2>1, <3>1, <3>3 DEF Pursued, Owed, Parked, DropOwed
    <3> QED
      BY <3>2, <3>3
  <2>19. CASE Life
    BY <2>3, <2>5, <2>6, <2>7, <2>8, <2>9, <2>10, <2>19 DEF Life
  <2>20. CASE Traffic
    BY <2>12, <2>14, <2>15, <2>16, <2>17, <2>18, <2>20 DEF Traffic
  <2> QED
    BY <2>16, <2>19, <2>20 DEF Next
<1> QED
  BY <1>1, LifeInvariant, Typing, PTL DEF Safety
=============================================================================
