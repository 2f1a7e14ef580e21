---------------------------- MODULE RelistProofs ----------------------------
(***************************************************************************)
(* Theorems about Relist, for any connections, any number of overlapping   *)
(* timer expiries and any number of changes.                               *)
(***************************************************************************)
EXTENDS Relist, TLAPS

USE DEF vars, worldVars, timerVars, flightVars, runVars, Goto

(* The mark `running' and the goroutines it stands for.  Mutual exclusion  *)
(* is inductive only together with the mark.                               *)
FlightInv ==
    /\ pc \in [Runners -> Labels]
    /\ SingleFlight

LEMMA FlightStep ==
    ASSUME FlightInv, [Next]_vars
    PROVE  FlightInv'
<1> USE DEF FlightInv, SingleFlight, InFlight, Labels
<1>1. ASSUME UNCHANGED <<pc, running>> PROVE FlightInv'
  BY <1>1
<1>2. ASSUME NEW c \in Conns,
             Change(c) \/ Exit(c) \/ Launch(c) \/ ReadNotification(c) \/ \E p \in Askers : Reply(c, p)
      PROVE  FlightInv'
  BY <1>1, <1>2 DEF Change, Exit, Launch, ReadNotification, Reply
<1>3. ASSUME NEW c \in Conns, ReadReply(c) PROVE FlightInv'
  <2> DEFINE p == Head(stdout[c]).to
  <2>1. CASE pc' = pc
    BY <1>1, <1>3, <2>1 DEF ReadReply
  <2>2. CASE p \in Runners /\ pc[p] = "asking" /\ pc' = [pc EXCEPT ![p] = "writing"]
    BY <1>3, <2>2 DEF ReadReply
  <2> QED
    BY <1>3, <2>1, <2>2 DEF ReadReply
<1>4. CASE Install \/ Discard \/ DropUpstream \/ Notify \/ Drain \/ StartReturns \/ BeginClose \/ CloseRelist
           \/ CloseConns \/ UNCHANGED vars
  BY <1>1, <1>4 DEF Install, Discard, DropUpstream, Notify, Drain, StartReturns, BeginClose, CloseRelist, CloseConns
<1>5. ASSUME NEW p \in Runners, Expire(p) \/ Forget(p) PROVE FlightInv'
  BY <1>5 DEF Expire, Forget
<1>6. ASSUME NEW p \in Runners, Enter(p) PROVE FlightInv'
  <2>1. CASE running' = running /\ pc' = [pc EXCEPT ![p] = "idle"]
    BY <1>6, <2>1 DEF Enter
  <2>2. CASE ~running /\ running' = TRUE /\ pc' = [pc EXCEPT ![p] = "relisting"]
    BY <1>6, <2>2 DEF Enter
  <2> QED
    BY <1>6, <2>1, <2>2 DEF Enter
<1>7. ASSUME NEW p \in Runners, AskTools(p) \/ RelistFails(p) \/ WriteResult(p)
      PROVE  FlightInv'
  <2>1. /\ p \in InFlight
        /\ running' = running
        /\ \/ pc' = [pc EXCEPT ![p] = "asking"]
           \/ pc' = [pc EXCEPT ![p] = "finishing"]
    BY <1>7 DEF AskTools, RelistFails, WriteResult
  <2>2. \A q \in Runners : pc'[q] = pc[q] \/ (q = p /\ pc'[q] \in {"asking", "finishing"})
    BY <2>1
  <2>3. InFlight' = InFlight
    BY <2>1, <2>2
  <2>4. pc' \in [Runners -> Labels]
    BY <2>1
  <2> QED
    BY <2>1, <2>3, <2>4
<1>8. ASSUME NEW p \in Runners, Finish(p) PROVE FlightInv'
  <2>1. p \in InFlight
    BY <1>8 DEF Finish
  <2>2. CASE running' = running /\ pc' = [pc EXCEPT ![p] = "relisting"]
    BY <2>1, <2>2
  <2>3. CASE running' = FALSE /\ pc' = [pc EXCEPT ![p] = "idle"]
    BY <2>1, <2>3
  <2> QED
    BY <1>8, <2>2, <2>3 DEF Finish
<1> QED
  BY <1>2, <1>3, <1>4, <1>5, <1>6, <1>7, <1>8 DEF Next, Step

(* However the expiries of reset and orphaned timers overlap, one re-list  *)
(* of the upstream is in flight at a time.                                 *)
THEOREM RelistIsSingleFlight == Safety => []SingleFlight
<1>1. Init => FlightInv
  BY DEF Init, FlightInv, SingleFlight, InFlight, Labels
<1>2. FlightInv /\ [Next]_vars => FlightInv'
  BY FlightStep
<1>3. FlightInv => SingleFlight
  BY DEF FlightInv
<1> QED
  BY <1>1, <1>2, <1>3, PTL DEF Safety

-----------------------------------------------------------------------------
(* A runner about to write holds an answer of some connection, and after   *)
(* Close no connection is installed for it to be the current one.          *)
HoldInv ==
    /\ got = [p \in Runners |-> got[p]]
    /\ \A p \in Runners : pc[p] \in {"asking", "writing"} => got[p].conn # Nobody
    /\ phase = "closed" => conn = Nobody

LEMMA HoldStep ==
    ASSUME FlightInv, HoldInv, [Next]_vars
    PROVE  HoldInv'
<1> USE NobodyAssumption DEF FlightInv, HoldInv
<1>1. ASSUME NEW c \in Conns,
             Change(c) \/ Exit(c) \/ Launch(c) \/ ReadNotification(c) \/ \E p \in Askers : Reply(c, p)
      PROVE  HoldInv'
  BY <1>1 DEF Change, Exit, Launch, ReadNotification, Reply
<1>2. ASSUME NEW c \in Conns, ReadReply(c) PROVE HoldInv'
  <2> DEFINE m == Head(stdout[c])
  <2>1. CASE UNCHANGED <<pc, got>>
    BY <1>2, <2>1 DEF ReadReply
  <2>2. CASE /\ m.to \in Runners
             /\ got' = [got EXCEPT ![m.to] = [conn |-> c, version |-> m.version]]
             /\ pc' = [pc EXCEPT ![m.to] = "writing"]
    BY <1>2, <2>2 DEF ReadReply
  <2> QED
    BY <1>2, <2>1, <2>2 DEF ReadReply
<1>3. CASE Install \/ Discard \/ DropUpstream \/ Notify \/ Drain \/ StartReturns \/ BeginClose \/ CloseRelist
           \/ CloseConns \/ UNCHANGED vars
  BY <1>3 DEF Install, Discard, DropUpstream, Notify, Drain, StartReturns, BeginClose, CloseRelist, CloseConns
<1>4. ASSUME NEW p \in Runners, Expire(p) \/ Forget(p) \/ Enter(p) \/ RelistFails(p)
                                \/ WriteResult(p) \/ Finish(p)
      PROVE  HoldInv'
  BY <1>4 DEF Expire, Forget, Enter, RelistFails, WriteResult, Finish
<1>5. ASSUME NEW p \in Runners, AskTools(p) PROVE HoldInv'
  <2>1. CASE pc' = [pc EXCEPT ![p] = "finishing"] /\ got' = got
    BY <1>5, <2>1 DEF AskTools
  <2>2. CASE /\ conn # Nobody
             /\ got' = [got EXCEPT ![p] = [conn |-> conn, version |-> 0]]
             /\ pc' = [pc EXCEPT ![p] = "asking"]
    BY <1>5, <2>2 DEF AskTools
  <2> QED
    BY <1>5, <2>1, <2>2 DEF AskTools
<1> QED
  BY <1>1, <1>2, <1>3, <1>4, <1>5 DEF Next, Step

(* A re-list that comes back after its connection was replaced, dropped or *)
(* closed writes nothing.                                                  *)
THEOREM StaleRelistsWriteNothing == Safety => WritesAreCurrent
<1> DEFINE Current == catalog' # catalog => catalog'.conn = conn' /\ phase' # "closed"
<1>1. Init => FlightInv /\ HoldInv
  BY DEF Init, FlightInv, HoldInv, SingleFlight, InFlight, Labels, None
<1>2. FlightInv /\ HoldInv /\ [Next]_vars => FlightInv' /\ HoldInv'
  BY FlightStep, HoldStep
<1>3. FlightInv /\ HoldInv /\ [Next]_vars => [Current]_vars
  <2> SUFFICES ASSUME FlightInv, HoldInv, Next PROVE Current
    OBVIOUS
  <2>1. CASE Install \/ DropUpstream
    BY <2>1 DEF Install, DropUpstream, WriteCatalog
  <2>2. ASSUME NEW p \in Runners, WriteResult(p) PROVE Current
    <3>1. CASE conn = got[p].conn
      BY <2>2, <3>1 DEF WriteResult, WriteCatalog, HoldInv
    <3>2. CASE conn # got[p].conn
      BY <2>2, <3>2 DEF WriteResult
    <3> QED
      BY <3>1, <3>2
  <2>3. ASSUME ~(Install \/ DropUpstream), ~ \E p \in Runners : WriteResult(p)
        PROVE  catalog' = catalog
    BY <2>3 DEF Next, Step, Change, Exit, Launch, Reply, ReadNotification, ReadReply, Discard,
       Expire, Forget, Enter, AskTools, RelistFails, Finish, Notify, Drain, StartReturns, BeginClose,
       CloseRelist, CloseConns
  <2> QED
    BY <2>1, <2>2, <2>3
<1> QED
  BY <1>1, <1>2, <1>3, PTL DEF Safety, WritesAreCurrent

-----------------------------------------------------------------------------
(* Every write of the catalog owes a signal, and a signal once queued      *)
(* stays queued until the client is told.                                  *)
THEOREM EveryChangeIsAnnounced == Safety => []NoSilentChange
<1> DEFINE Inv == owing \in Nat /\ NoSilentChange
<1>1. Init => Inv
  BY DEF Init, NoSilentChange
<1>2. Inv /\ [Next]_vars => Inv'
  <2> SUFFICES ASSUME Inv, [Next]_vars PROVE Inv'
    OBVIOUS
  <2> USE DEF NoSilentChange
  <2>1. CASE Install \/ DropUpstream
    BY <2>1 DEF Install, DropUpstream, WriteCatalog
  <2>2. ASSUME NEW p \in Runners, WriteResult(p) PROVE Inv'
    BY <2>2 DEF WriteResult, WriteCatalog
  <2>3. CASE Notify \/ Drain
    BY <2>3 DEF Notify, Drain
  <2>4. ASSUME ~(Install \/ DropUpstream), ~(Notify \/ Drain), ~ \E p \in Runners : WriteResult(p)
        PROVE  UNCHANGED <<owing, signal, unseen>>
    BY <2>4 DEF Next, Step, Change, Exit, Launch, Reply, ReadNotification, ReadReply, Discard,
       Expire, Forget, Enter, AskTools, RelistFails, Finish, StartReturns, BeginClose, CloseRelist, CloseConns
  <2> QED
    BY <2>1, <2>2, <2>3, <2>4
<1> QED
  BY <1>1, <1>2, PTL DEF Safety

-----------------------------------------------------------------------------
(* What is written into the streams and read from them. *)
LEMMA Written ==
    ASSUME NEW s \in Seq(Messages), NEW m \in Messages
    PROVE  /\ Append(s, m) \in Seq(Messages)
           /\ DOMAIN s = 1 .. Len(s) /\ Len(s) \in Nat
           /\ DOMAIN Append(s, m) = 1 .. Len(s) + 1
           /\ \A i \in DOMAIN s : Append(s, m)[i] = s[i]
           /\ Append(s, m)[Len(s) + 1] = m
  OBVIOUS

LEMMA Read ==
    ASSUME NEW s \in Seq(Messages), s # <<>>
    PROVE  /\ Tail(s) \in Seq(Messages) /\ Head(s) = s[1] /\ 1 \in DOMAIN s
           /\ s[1] \in Messages
           /\ \A i \in DOMAIN Tail(s) :
                 i \in Nat /\ i + 1 \in DOMAIN s /\ i + 1 # 1 /\ Tail(s)[i] = s[i + 1]
  OBVIOUS

(* The replies to a runner that has stopped waiting are marked, and no     *)
(* other message is touched.                                               *)
LEMMA Abandoned ==
    ASSUME NEW s \in Seq(Messages), NEW p \in Runners,
           NEW t, t = [i \in DOMAIN s |-> IF s[i].to = p THEN [s[i] EXCEPT !.to = Late] ELSE s[i]]
    PROVE  /\ t \in Seq(Messages) /\ DOMAIN t = DOMAIN s
           /\ \A i \in DOMAIN s :
                 /\ t[i].version = s[i].version /\ t[i].to # p
                 /\ t[i].to = s[i].to \/ t[i].to = Late
<1>1. \A i \in DOMAIN s : s[i] \in Messages
  OBVIOUS
<1>2. ASSUME NEW i \in DOMAIN s
      PROVE  /\ t[i] \in Messages /\ t[i].version = s[i].version /\ t[i].to # p
             /\ t[i].to = s[i].to \/ t[i].to = Late
  <2>1. CASE s[i].to = p
    <3>1. t[i] = [s[i] EXCEPT !.to = Late]
      BY <2>1
    <3>2. t[i] = [to |-> Late, version |-> s[i].version]
      BY <1>1, <3>1 DEF Messages
    <3> QED
      BY <1>1, <2>1, <3>2, NobodyAssumption DEF Messages
  <2>2. CASE s[i].to # p
    BY <1>1, <2>2
  <2> QED
    BY <2>1, <2>2
<1>3. t \in Seq(Messages) /\ DOMAIN t = DOMAIN s
  <2>1. DOMAIN s = 1 .. Len(s) /\ Len(s) \in Nat
    OBVIOUS
  <2>2. t \in [1 .. Len(s) -> Messages]
    BY <1>2, <2>1
  <2> QED
    BY <2>1, <2>2
<1> QED
  BY <1>2, <1>3

(* Every action keeps the types. *)
LEMMA TypeStep ==
    ASSUME TypeOK, HoldInv, [Next]_vars
    PROVE  TypeOK'
<1> USE NobodyAssumption, MaxVersionAssumption
<1>0. stdout \in [Conns -> Seq(Messages)]
  BY DEF TypeOK
<1>p. /\ pc \in [Runners -> Labels] /\ owing \in Nat /\ orphans \in Nat
      /\ got \in [Runners -> [conn : Conns \cup {Nobody}, version : Versions]]
  BY DEF TypeOK
<1>1. ASSUME NEW c \in Conns, Change(c) PROVE TypeOK'
  <2>1. actual[c] + 1 \in Versions
    BY <1>1 DEF Change, TypeOK, Versions
  <2>2. [to |-> Nobody, version |-> actual[c] + 1] \in Messages
    BY <2>1 DEF Messages
  <2>3. stdout' \in [Conns -> Seq(Messages)]
    BY <1>0, <1>1, <2>2, Written DEF Change
  <2> QED
    BY <1>1, <2>1, <2>3 DEF Change, TypeOK
<1>2. ASSUME NEW c \in Conns, NEW p \in Askers, Reply(c, p) PROVE TypeOK'
  <2>1. [to |-> p, version |-> actual[c]] \in Messages
    BY DEF Messages, TypeOK
  <2>2. stdout' \in [Conns -> Seq(Messages)]
    BY <1>0, <1>2, <2>1, Written DEF Reply
  <2> QED
    BY <1>2, <2>2 DEF Reply, TypeOK
<1>3. ASSUME NEW c \in Conns, Exit(c) PROVE TypeOK'
  <2>1. /\ stdout' \in [Conns -> Seq(Messages)] /\ asks' \subseteq Conns \X Askers
        /\ status' \in [Conns -> {"unborn", "live", "stray", "down"}]
    BY <1>0, <1>3 DEF Exit, TypeOK
  <2> QED
    BY <1>3, <2>1 DEF Exit, TypeOK
<1>13. ASSUME NEW c \in Conns, Launch(c) PROVE TypeOK'
  <2>1. /\ asks' \subseteq Conns \X Askers
        /\ status' \in [Conns -> {"unborn", "live", "stray", "down"}]
        /\ launch' \in [conn : Conns \cup {Nobody}, listed : Versions \cup {Nobody}]
    BY <1>13 DEF Launch, TypeOK, Askers
  <2> QED
    BY <1>13, <2>1 DEF Launch, TypeOK
<1>4. ASSUME NEW c \in Conns, ReadNotification(c) PROVE TypeOK'
  <2>1. stdout' \in [Conns -> Seq(Messages)] /\ Head(stdout[c]) \in Messages
    BY <1>0, <1>4, Read DEF ReadNotification
  <2>2. heard' \in [Conns -> Versions]
    BY <1>4, <2>1 DEF ReadNotification, TypeOK, Messages
  <2> QED
    BY <1>4, <2>1, <2>2 DEF ReadNotification, TypeOK
<1>5. ASSUME NEW c \in Conns, ReadReply(c) PROVE TypeOK'
  <2>1. PICK m : m = Head(stdout[c])
    OBVIOUS
  <2>2. stdout' \in [Conns -> Seq(Messages)] /\ m \in Messages
    BY <1>0, <1>5, <2>1, Read DEF ReadReply
  <2>3. /\ m.version \in Versions
        /\ c \in Conns \cup {Nobody}
    BY <2>2 DEF Messages
  <2>4. launch' \in [conn : Conns \cup {Nobody}, listed : Versions \cup {Nobody}]
    <3>1. launch' = launch \/ launch' = [launch EXCEPT !.listed = m.version]
      BY <1>5, <2>1 DEF ReadReply
    <3> QED
      BY <2>3, <3>1 DEF TypeOK
  <2>5. /\ pc' \in [Runners -> Labels]
        /\ got' \in [Runners -> [conn : Conns \cup {Nobody}, version : Versions]]
    <3>1. \/ UNCHANGED <<pc, got>>
          \/ /\ got' = [got EXCEPT ![m.to] = [conn |-> c, version |-> m.version]]
             /\ pc' = [pc EXCEPT ![m.to] = "writing"]
      BY <1>5, <2>1 DEF ReadReply
    <3>2. [conn |-> c, version |-> m.version] \in [conn : Conns \cup {Nobody}, version : Versions]
      BY <2>3
    <3>3. "writing" \in Labels
      BY DEF Labels
    <3> QED
      BY <1>p, <3>1, <3>2, <3>3
  <2> QED
    BY <1>5, <2>2, <2>4, <2>5 DEF ReadReply, TypeOK
<1>6. CASE Install
  <2>1. /\ catalog' \in [conn : Conns \cup {Nobody}, version : Versions]
        /\ launch' \in [conn : Conns \cup {Nobody}, listed : Versions \cup {Nobody}]
        /\ conn' \in Conns \cup {Nobody} /\ owing' \in Nat /\ unseen' \in BOOLEAN
    BY <1>6 DEF Install, WriteCatalog, TypeOK
  <2> QED
    BY <1>6, <2>1 DEF Install, TypeOK
<1>14. CASE DropUpstream
  <2>1. /\ catalog' \in [conn : Conns \cup {Nobody}, version : Versions]
        /\ launch' \in [conn : Conns \cup {Nobody}, listed : Versions \cup {Nobody}]
        /\ conn' \in Conns \cup {Nobody} /\ owing' \in Nat /\ unseen' \in BOOLEAN
    BY <1>14 DEF DropUpstream, WriteCatalog, TypeOK, Versions
  <2>2. status' \in [Conns -> {"unborn", "live", "stray", "down"}]
    BY <1>14 DEF DropUpstream, TypeOK
  <2> QED
    BY <1>14, <2>1, <2>2 DEF DropUpstream, TypeOK
<1>15. CASE Discard
  <2>1. launch' \in [conn : Conns \cup {Nobody}, listed : Versions \cup {Nobody}]
    BY <1>15 DEF Discard
  <2> QED
    BY <1>15, <2>1 DEF Discard, TypeOK
<1>7. CASE Notify \/ Drain
  <2>1. owing' \in Nat
    BY <1>7, <1>p DEF Notify, Drain
  <2>3. signal' \in BOOLEAN /\ unseen' \in BOOLEAN
    BY <1>7 DEF Notify, Drain, TypeOK
  <2>2. UNCHANGED <<conn, catalog, worldVars, launch, timerVars, flightVars, pc, got, runVars, heard, missed>>
    BY <1>7 DEF Notify, Drain
  <2> QED
    BY <2>1, <2>2, <2>3 DEF TypeOK
<1>16. CASE BeginClose \/ CloseRelist
  BY <1>16 DEF BeginClose, CloseRelist, TypeOK
<1>17. CASE CloseConns
  BY <1>17 DEF CloseConns, TypeOK
<1>18. CASE StartReturns
  BY <1>18 DEF StartReturns, TypeOK
<1>8. ASSUME NEW p \in Runners, Expire(p) \/ Forget(p) \/ Enter(p) \/ Finish(p) PROVE TypeOK'
  <2>1. /\ entry' \in {"none", "armed", "expired"}
        /\ running' \in BOOLEAN /\ dirty' \in BOOLEAN
    BY <1>8 DEF Expire, Forget, Enter, Finish, TypeOK
  <2>3. orphans' \in Nat
    BY <1>8, <1>p DEF Expire, Forget, Enter, Finish
  <2>4. pc' \in [Runners -> Labels]
    BY <1>8, <1>p DEF Expire, Forget, Enter, Finish, Labels
  <2>2. UNCHANGED <<conn, catalog, worldVars, launch, got, signal, owing, runVars, heard, missed, unseen>>
    BY <1>8 DEF Expire, Forget, Enter, Finish
  <2> QED
    BY <2>1, <2>2, <2>3, <2>4 DEF TypeOK
<1>9. ASSUME NEW p \in Runners, AskTools(p) PROVE TypeOK'
  <2>1. 0 \in Versions
    BY DEF Versions
  <2>2. /\ pc' \in [Runners -> Labels] /\ asks' \subseteq Conns \X Askers
        /\ got' \in [Runners -> [conn : Conns \cup {Nobody}, version : Versions]]
    <3>1. CASE phase # "running" \/ conn = Nobody
      BY <1>9, <1>p, <3>1 DEF AskTools, TypeOK, Labels
    <3>2. CASE ~(phase # "running" \/ conn = Nobody)
      <4>1. conn \in Conns /\ asks \subseteq Conns \X Askers
        BY <3>2 DEF TypeOK
      <4>2. asks' \subseteq asks \cup {<<conn, p>>}
        BY <1>9, <3>2 DEF AskTools
      <4>3. [conn |-> conn, version |-> 0] \in [conn : Conns \cup {Nobody}, version : Versions]
        BY <2>1, <4>1
      <4>4. /\ got' = [got EXCEPT ![p] = [conn |-> conn, version |-> 0]]
            /\ pc' = [pc EXCEPT ![p] = "asking"] /\ "asking" \in Labels
        BY <1>9, <3>2 DEF AskTools, Labels
      <4> QED
        BY <1>p, <4>1, <4>2, <4>3, <4>4 DEF Askers
    <3> QED
      BY <3>1, <3>2
  <2> QED
    BY <1>9, <2>2 DEF AskTools, TypeOK
<1>10. ASSUME NEW p \in Runners, RelistFails(p) PROVE TypeOK'
  <2>1. PICK c : c = got[p].conn
    OBVIOUS
  <2>2. c \in Conns
    BY <1>10, <2>1 DEF RelistFails, HoldInv, TypeOK
  <2>3. stdout' \in [Conns -> Seq(Messages)]
    <3>1. PICK t : t = [i \in DOMAIN stdout[c] |->
                          IF stdout[c][i].to = p THEN [stdout[c][i] EXCEPT !.to = Late]
                                                 ELSE stdout[c][i]]
      OBVIOUS
    <3>2. stdout' = [stdout EXCEPT ![c] = t]
      BY <1>10, <2>1, <3>1 DEF RelistFails
    <3>3. t \in Seq(Messages)
      BY <1>0, <2>2, <3>1, Abandoned
    <3> QED
      BY <1>0, <2>2, <3>2, <3>3
  <2>4. pc' \in [Runners -> Labels]
    BY <1>10, <1>p DEF RelistFails, Labels
  <2>5. asks' \subseteq Conns \X Askers /\ missed' \in BOOLEAN
    BY <1>10 DEF RelistFails, TypeOK
  <2>6. UNCHANGED <<conn, catalog, status, actual, launch, timerVars, flightVars, got,
                    signal, owing, runVars, heard, unseen>>
    BY <1>10 DEF RelistFails
  <2> QED
    BY <2>3, <2>4, <2>5, <2>6 DEF TypeOK
<1>11. ASSUME NEW p \in Runners, WriteResult(p) PROVE TypeOK'
  <2>1. /\ catalog' \in [conn : Conns \cup {Nobody}, version : Versions]
        /\ owing' \in Nat /\ unseen' \in BOOLEAN /\ missed' \in BOOLEAN
    <3>1. CASE conn = got[p].conn
      <4>1. /\ catalog' = [conn |-> conn, version |-> got[p].version]
            /\ owing' = owing + 1 /\ unseen' = serving /\ missed' = FALSE
        BY <1>11, <3>1 DEF WriteResult, WriteCatalog
      <4>2. conn \in Conns \cup {Nobody} /\ got[p].version \in Versions
        BY <1>p DEF TypeOK
      <4>3. catalog' \in [conn : Conns \cup {Nobody}, version : Versions]
        BY <4>1, <4>2
      <4>4. owing' \in Nat
        BY <1>p, <4>1
      <4>5. unseen' \in BOOLEAN /\ missed' \in BOOLEAN
        BY <4>1 DEF TypeOK
      <4> QED
        BY <4>3, <4>4, <4>5
    <3>2. CASE conn # got[p].conn
      BY <1>11, <3>2 DEF WriteResult, TypeOK
    <3> QED
      BY <3>1, <3>2
  <2>2. pc' \in [Runners -> Labels]
    BY <1>11 DEF WriteResult, TypeOK, Labels
  <2> QED
    BY <1>11, <2>1, <2>2 DEF WriteResult, TypeOK
<1>12. CASE UNCHANGED vars
  BY <1>12 DEF TypeOK
<1> QED
  BY <1>1, <1>2, <1>3, <1>4, <1>5, <1>6, <1>7, <1>8, <1>9, <1>10, <1>11, <1>12,
     <1>13, <1>14, <1>15, <1>16, <1>17, <1>18
     DEF Next, Step

LEMMA RelistStarts ==
    ASSUME Init
    PROVE  TypeOK /\ FlightInv /\ HoldInv
<1>1. 0 \in Versions
  BY MaxVersionAssumption DEF Versions
<1>2. FlightInv /\ HoldInv
  BY DEF Init, FlightInv, HoldInv, SingleFlight, InFlight, Labels, None
<1>3. /\ got \in [Runners -> [conn : Conns \cup {Nobody}, version : Versions]]
      /\ stdout \in [Conns -> Seq(Messages)] /\ pc \in [Runners -> Labels]
  BY <1>1 DEF Init, None, Labels
<1> QED
  BY <1>1, <1>2, <1>3 DEF Init, TypeOK, None

(* Every variable keeps its type. *)
THEOREM RelistTyping == Safety => []TypeOK
<1>1. Init => TypeOK /\ FlightInv /\ HoldInv
  BY RelistStarts
<1>2. TypeOK /\ FlightInv /\ HoldInv /\ [Next]_vars => TypeOK' /\ FlightInv' /\ HoldInv'
  BY TypeStep, FlightStep, HoldStep
<1> QED
  BY <1>1, <1>2, PTL DEF Safety

-----------------------------------------------------------------------------
(* What stands in a connection's stream is no newer than its list, and a   *)
(* reply stands there once, for a runner that waits for it and is not      *)
(* older than what is listed of that connection.                           *)
ReplyOK(c, i) ==
    LET p == stdout[c][i].to IN
    /\ pc[p] = "asking" /\ got[p].conn = c /\ <<c, p>> \notin asks
    /\ catalog.conn = c => stdout[c][i].version >= catalog.version
    /\ \A j \in DOMAIN stdout[c] : stdout[c][j].to = p => j = i

StreamOK(c) ==
    \A i \in DOMAIN stdout[c] :
        /\ stdout[c][i].version <= actual[c]
        /\ stdout[c][i].to \in Runners => ReplyOK(c, i)

(* A request stands for a runner that waits; a runner about to write holds *)
(* a version that is neither newer than the upstream's nor older than the  *)
(* listed one.                                                             *)
RunnerOK(p) ==
    /\ \A c \in Conns : <<c, p>> \in asks => pc[p] = "asking" /\ got[p].conn = c
    /\ pc[p] = "writing" =>
          /\ got[p].version <= actual[got[p].conn]
          /\ catalog.conn = got[p].conn => got[p].version >= catalog.version

(* Nothing is known of a connection before it is launched, nor listed of   *)
(* it, nor asked by a runner, before it is installed.                      *)
Unknown(c) ==
    conn # c /\ catalog.conn # c /\ \A p \in Runners : got[p].conn # c

LaunchOK ==
    /\ \A c \in Conns : status[c] = "unborn" => Unknown(c)
    /\ launch.conn # Nobody => Unknown(launch.conn) /\ status[launch.conn] # "unborn"
    /\ launch.listed # Nobody =>
          launch.conn # Nobody /\ launch.listed <= actual[launch.conn]
    /\ catalog.conn = Nobody => catalog.version = 0
    /\ catalog.conn # Nobody => catalog.version <= actual[catalog.conn]

ListInv ==
    /\ \A c \in Conns : StreamOK(c)
    /\ \A p \in Runners : RunnerOK(p)
    /\ LaunchOK

(* The facts about types that the order of versions rests on. *)
LEMMA Numbers ==
    ASSUME TypeOK, HoldInv
    PROVE  /\ actual \in [Conns -> Nat] /\ stdout \in [Conns -> Seq(Messages)]
           /\ pc \in [Runners -> Labels]
           /\ \A c \in Conns : \A i \in DOMAIN stdout[c] :
                 i \in Nat /\ stdout[c][i] \in Messages /\ stdout[c][i].version \in Nat
           /\ got \in [Runners -> [conn : Conns \cup {Nobody}, version : Versions]]
           /\ \A p \in Runners : got[p].version \in Nat
           /\ \A p \in Runners : pc[p] \in {"asking", "writing"} => got[p].conn \in Conns
           /\ catalog.version \in Nat /\ catalog.conn \in Conns \cup {Nobody}
           /\ conn \in Conns \cup {Nobody} /\ launch.conn \in Conns \cup {Nobody}
           /\ launch.listed \in Nat \cup {Nobody}
<1>1. Versions \subseteq Nat
  BY MaxVersionAssumption DEF Versions
<1>2. actual \in [Conns -> Versions] /\ stdout \in [Conns -> Seq(Messages)] /\ pc \in [Runners -> Labels]
  BY DEF TypeOK
<1>3. got \in [Runners -> [conn : Conns \cup {Nobody}, version : Versions]]
  BY DEF TypeOK
<1>4. /\ catalog \in [conn : Conns \cup {Nobody}, version : Versions]
      /\ launch \in [conn : Conns \cup {Nobody}, listed : Versions \cup {Nobody}]
      /\ conn \in Conns \cup {Nobody}
  BY DEF TypeOK
<1>5. ASSUME NEW c \in Conns, NEW i \in DOMAIN stdout[c]
      PROVE  i \in Nat /\ stdout[c][i] \in Messages /\ stdout[c][i].version \in Nat
  <2>1. stdout[c] \in Seq(Messages)
    BY <1>2
  <2>2. i \in Nat /\ stdout[c][i] \in Messages
    BY <2>1
  <2> QED
    BY <1>1, <2>2 DEF Messages
<1>6. \A p \in Runners : got[p].version \in Nat
  BY <1>1, <1>3
<1>7. \A p \in Runners : pc[p] \in {"asking", "writing"} => got[p].conn \in Conns
  BY <1>3 DEF HoldInv
<1>8. catalog.version \in Nat /\ launch.listed \in Nat \cup {Nobody}
  BY <1>1, <1>4
<1>9. actual \in [Conns -> Nat]
  BY <1>1, <1>2
<1> QED
  BY <1>2, <1>3, <1>4, <1>5, <1>6, <1>7, <1>8, <1>9

(* A stream that is left alone stays in order while its runners wait and   *)
(* the catalog lists nothing new of the connection they have asked.        *)
LEMMA StreamKept ==
    ASSUME TypeOK, HoldInv, NEW c \in Conns, StreamOK(c),
           stdout'[c] = stdout[c], actual'[c] = actual[c],
           \A p \in Runners : pc[p] = "asking" =>
               pc'[p] = "asking" /\ got'[p] = got[p] /\ (<<c, p>> \in asks' => <<c, p>> \in asks),
           \/ catalog' = catalog \/ catalog'.conn # c
           \/ \A p \in Runners : ~(pc[p] = "asking" /\ got[p].conn = c)
    PROVE  StreamOK(c)'
<1>1. ASSUME NEW i \in DOMAIN stdout[c], stdout[c][i].to \in Runners PROVE ReplyOK(c, i)'
  <2>1. ReplyOK(c, i)
    BY <1>1 DEF StreamOK
  <2>2. PICK p \in Runners : p = stdout[c][i].to
    BY <1>1
  <2>3. /\ pc[p] = "asking" /\ got[p].conn = c /\ <<c, p>> \notin asks
        /\ catalog.conn = c => stdout[c][i].version >= catalog.version
        /\ \A j \in DOMAIN stdout[c] : stdout[c][j].to = p => j = i
    BY <2>1, <2>2 DEF ReplyOK
  <2> QED
    BY <2>2, <2>3 DEF ReplyOK
<1> QED
  BY <1>1 DEF StreamOK

(* A runner that is left alone stays sound while versions only grow and    *)
(* the catalog lists nothing new of the connection it is about to write.   *)
LEMMA RunnerKept ==
    ASSUME TypeOK, HoldInv, NEW p \in Runners, RunnerOK(p),
           pc'[p] = pc[p], got'[p] = got[p], actual' \in [Conns -> Nat],
           \A c \in Conns : (<<c, p>> \in asks' => <<c, p>> \in asks) /\ actual'[c] >= actual[c],
           catalog' = catalog \/ (pc[p] = "writing" => catalog'.conn # got[p].conn)
    PROVE  RunnerOK(p)'
<1>1. \A c \in Conns : <<c, p>> \in asks' => pc'[p] = "asking" /\ got'[p].conn = c
  BY DEF RunnerOK
<1>2. CASE pc[p] = "writing"
  <2>1. PICK c \in Conns : c = got[p].conn
    BY <1>2, Numbers
  <2>2. /\ got[p].version <= actual[c]
        /\ catalog.conn = c => got[p].version >= catalog.version
    BY <1>2, <2>1 DEF RunnerOK
  <2>3. got[p].version \in Nat /\ actual[c] \in Nat /\ actual'[c] \in Nat
    BY Numbers
  <2>4. actual'[c] >= actual[c]
    OBVIOUS
  <2>5. got'[p].version <= actual'[got'[p].conn]
    BY <2>1, <2>2, <2>3, <2>4
  <2>6. catalog'.conn = got'[p].conn => got'[p].version >= catalog'.version
    BY <1>2, <2>1, <2>2
  <2> QED
    BY <1>1, <2>5, <2>6 DEF RunnerOK
<1>3. CASE pc[p] # "writing"
  BY <1>1, <1>3 DEF RunnerOK
<1> QED
  BY <1>2, <1>3

(* What is launched and listed stays sound while only positions move. *)
LEMMA LaunchKept ==
    ASSUME TypeOK, HoldInv, LaunchOK, UNCHANGED <<catalog, status, launch>>,
           conn' = conn \/ conn' = Nobody, actual' \in [Conns -> Nat],
           \A c \in Conns : actual'[c] >= actual[c],
           \A p \in Runners : got'[p].conn = got[p].conn \/ got'[p].conn = conn
    PROVE  LaunchOK'
<1>1. ASSUME NEW c \in Conns \cup {Nobody}, c # Nobody, Unknown(c) PROVE Unknown(c)'
  BY <1>1 DEF Unknown
<1>2. \A c \in Conns : actual[c] \in Nat /\ actual'[c] \in Nat
  BY Numbers
<1>3. catalog.version \in Nat /\ catalog.conn \in Conns \cup {Nobody}
      /\ launch.conn \in Conns \cup {Nobody} /\ launch.listed \in Nat \cup {Nobody}
  BY Numbers
<1>4. /\ \A c \in Conns : status[c] = "unborn" => Unknown(c)'
      /\ launch.conn # Nobody => Unknown(launch.conn)' /\ status[launch.conn] # "unborn"
  BY <1>1, <1>3, NobodyAssumption DEF LaunchOK
<1>5. launch.listed # Nobody => launch.conn # Nobody /\ launch.listed <= actual'[launch.conn]
  BY <1>2, <1>3 DEF LaunchOK
<1>6. catalog.conn # Nobody => catalog.version <= actual'[catalog.conn]
  BY <1>2, <1>3 DEF LaunchOK
<1> QED
  BY <1>4, <1>5, <1>6 DEF LaunchOK, Unknown

(* A reply is waited for by the one runner in flight. *)
LEMMA OneWaits ==
    ASSUME SingleFlight, NEW p \in Runners, NEW q \in Runners,
           pc[p] \in {"asking", "writing"}, pc[q] \in {"asking", "writing"}
    PROVE  p = q
  BY DEF SingleFlight, InFlight

(* ... so a stream stays in order that has no reply left. *)
LEMMA StreamSilent ==
    ASSUME NEW c \in Conns,
           \A i \in DOMAIN stdout'[c] :
               stdout'[c][i].version <= actual'[c] /\ stdout'[c][i].to \notin Runners
    PROVE  StreamOK(c)'
  BY DEF StreamOK

(* Steps that leave versions, streams and requests alone. *)
Quiet == UNCHANGED <<catalog, status, actual, stdout, asks, launch>>

LEMMA QuietStep ==
    ASSUME TypeOK, HoldInv, ListInv, Quiet, conn' = conn \/ conn' = Nobody,
           NEW p \in Runners, pc[p] \notin {"asking", "writing"},
           pc'[p] \notin {"asking", "writing"}, got' = got,
           \A q \in Runners : q # p => pc'[q] = pc[q]
    PROVE  ListInv'
<1>1. \A c \in Conns : StreamOK(c)'
  BY StreamKept DEF ListInv, Quiet
<1>2. ASSUME NEW q \in Runners PROVE RunnerOK(q)'
  <2>1. /\ actual' \in [Conns -> Nat]
        /\ \A c \in Conns : (<<c, q>> \in asks' => <<c, q>> \in asks) /\ actual'[c] >= actual[c]
    BY Numbers DEF Quiet
  <2>2. CASE q # p
    BY <2>1, <2>2, RunnerKept DEF ListInv, Quiet
  <2>3. CASE q = p
    BY <2>3 DEF ListInv, RunnerOK, Quiet
  <2> QED
    BY <2>2, <2>3
<1>3. LaunchOK'
  <2>1. actual' \in [Conns -> Nat] /\ \A c \in Conns : actual'[c] >= actual[c]
    BY Numbers DEF Quiet
  <2> QED
    BY <2>1, LaunchKept DEF ListInv, Quiet
<1> QED
  BY <1>1, <1>2, <1>3 DEF ListInv

LEMMA StillStep ==
    ASSUME TypeOK, HoldInv, ListInv, Quiet, conn' = conn \/ conn' = Nobody,
           UNCHANGED <<pc, got>>
    PROVE  ListInv'
<1>1. \A c \in Conns : StreamOK(c)'
  BY StreamKept DEF ListInv, Quiet
<1>2. actual' \in [Conns -> Nat] /\ \A c \in Conns : actual'[c] >= actual[c]
  BY Numbers DEF Quiet
<1>3. \A q \in Runners : RunnerOK(q)'
  BY <1>2, RunnerKept DEF ListInv, Quiet
<1>4. LaunchOK'
  BY <1>2, LaunchKept DEF ListInv, Quiet
<1> QED
  BY <1>1, <1>3, <1>4 DEF ListInv

-----------------------------------------------------------------------------
(* The upstream's own steps. *)
LEMMA ChangeStep ==
    ASSUME TypeOK, TypeOK', HoldInv, ListInv, NEW c \in Conns, Change(c)
    PROVE  ListInv'
<1>1. /\ UNCHANGED <<conn, catalog, status, asks, launch, pc, got>>
      /\ actual' = [actual EXCEPT ![c] = @ + 1]
  BY DEF Change
<1>2. PICK m : m = [to |-> Nobody, version |-> actual[c] + 1]
  OBVIOUS
<1>3. actual \in [Conns -> Nat] /\ stdout \in [Conns -> Seq(Messages)]
  BY Numbers
<1>4. m \in Messages /\ m.to \notin Runners /\ m.version = actual'[c]
  <2>1. actual'[c] \in Versions /\ actual'[c] = actual[c] + 1
    BY <1>1, <1>3 DEF TypeOK
  <2> QED
    BY <1>2, <2>1, NobodyAssumption DEF Messages, Askers
<1>5. actual' \in [Conns -> Nat] /\ \A d \in Conns : actual'[d] >= actual[d]
  BY <1>1, <1>3
<1>6. stdout' = [stdout EXCEPT ![c] = Append(stdout[c], m)]
  BY <1>2 DEF Change
<1>7. ASSUME NEW d \in Conns PROVE StreamOK(d)'
  <2>1. CASE d # c
    BY <1>1, <1>3, <1>6, <2>1, StreamKept DEF ListInv
  <2>2. CASE d = c
    <3>1. /\ stdout'[c] = Append(stdout[c], m) /\ stdout[c] \in Seq(Messages)
          /\ DOMAIN stdout'[c] = 1 .. Len(stdout[c]) + 1
          /\ DOMAIN stdout[c] = 1 .. Len(stdout[c]) /\ Len(stdout[c]) \in Nat
          /\ \A i \in DOMAIN stdout[c] : stdout'[c][i] = stdout[c][i]
          /\ stdout'[c][Len(stdout[c]) + 1] = m
      BY <1>3, <1>4, <1>6, Written
    <3>2. ASSUME NEW i \in DOMAIN stdout[c]
          PROVE  /\ stdout'[c][i].version <= actual'[c]
                 /\ stdout'[c][i].to \in Runners => ReplyOK(c, i)'
      <4>1. stdout[c][i].version <= actual'[c]
        <5>1. stdout[c][i].version <= actual[c] /\ stdout[c][i].version \in Nat
          BY Numbers DEF ListInv, StreamOK
        <5> QED
          BY <1>3, <1>5, <5>1
      <4>2. ASSUME stdout[c][i].to \in Runners PROVE ReplyOK(c, i)'
        <5>1. ReplyOK(c, i)
          BY <4>2 DEF ListInv, StreamOK
        <5>2. \A j \in DOMAIN stdout'[c] : stdout'[c][j].to \in Runners => j \in DOMAIN stdout[c]
          BY <1>4, <3>1
        <5> QED
          BY <1>1, <3>1, <4>2, <5>1, <5>2 DEF ReplyOK
      <4> QED
        BY <3>1, <4>1, <4>2
    <3>3. actual'[c] \in Nat
      BY <1>5
    <3>4. ASSUME NEW i \in DOMAIN stdout'[c], i \notin DOMAIN stdout[c]
          PROVE  stdout'[c][i].version <= actual'[c] /\ stdout'[c][i].to \notin Runners
      BY <1>4, <3>1, <3>3, <3>4
    <3> QED
      BY <2>2, <3>2, <3>4 DEF StreamOK
  <2> QED
    BY <2>1, <2>2
<1>8. \A p \in Runners : RunnerOK(p)'
  BY <1>1, <1>5, RunnerKept DEF ListInv
<1>9. LaunchOK'
  BY <1>1, <1>5, LaunchKept DEF ListInv
<1> QED
  BY <1>7, <1>8, <1>9 DEF ListInv

LEMMA ReplyStep ==
    ASSUME TypeOK, HoldInv, ListInv, NEW c \in Conns, NEW p \in Askers, Reply(c, p)
    PROVE  ListInv'
<1>1. /\ UNCHANGED <<conn, catalog, status, actual, launch, pc, got>>
      /\ <<c, p>> \in asks /\ asks' = asks \ {<<c, p>>}
  BY DEF Reply
<1>2. PICK m : m = [to |-> p, version |-> actual[c]]
  OBVIOUS
<1>3. actual \in [Conns -> Nat] /\ stdout \in [Conns -> Seq(Messages)] /\ catalog.version \in Nat
  BY Numbers
<1>4. m \in Messages /\ m.to = p /\ m.version = actual[c]
  BY <1>2 DEF Messages, TypeOK
<1>5. stdout' = [stdout EXCEPT ![c] = Append(stdout[c], m)]
  BY <1>2 DEF Reply
<1>6. ASSUME NEW d \in Conns PROVE StreamOK(d)'
  <2>1. CASE d # c
    BY <1>1, <1>3, <1>5, <2>1, StreamKept DEF ListInv
  <2>2. CASE d = c
    <3>1. /\ stdout'[c] = Append(stdout[c], m) /\ stdout[c] \in Seq(Messages)
          /\ DOMAIN stdout'[c] = 1 .. Len(stdout[c]) + 1
          /\ DOMAIN stdout[c] = 1 .. Len(stdout[c]) /\ Len(stdout[c]) \in Nat
          /\ \A i \in DOMAIN stdout[c] : stdout'[c][i] = stdout[c][i]
          /\ stdout'[c][Len(stdout[c]) + 1] = m
      BY <1>3, <1>4, <1>5, Written
    <3>2. ASSUME NEW i \in DOMAIN stdout[c], stdout[c][i].to \in Runners
          PROVE  stdout[c][i].to # p /\ ReplyOK(c, i)
      BY <1>1, <3>2 DEF ListInv, StreamOK, ReplyOK
    <3>3. ASSUME NEW i \in DOMAIN stdout[c], stdout[c][i].to \in Runners PROVE ReplyOK(c, i)'
      <4>1. \A j \in DOMAIN stdout'[c] : stdout'[c][j].to = stdout[c][i].to => j \in DOMAIN stdout[c]
        BY <1>4, <3>1, <3>2, <3>3
      <4> QED
        BY <1>1, <3>1, <3>2, <3>3, <4>1 DEF ReplyOK
    <3>4. PICK n : n = Len(stdout[c]) + 1
      OBVIOUS
    <3>5. ASSUME p \in Runners PROVE ReplyOK(c, n)'
      <4>1. pc[p] = "asking" /\ got[p].conn = c /\ <<c, p>> \notin asks'
        BY <1>1, <3>5 DEF ListInv, RunnerOK
      <4>2. catalog.conn = c => m.version >= catalog.version
        BY <1>3, <1>4, NobodyAssumption DEF ListInv, LaunchOK
      <4>3. \A j \in DOMAIN stdout'[c] : stdout'[c][j].to = p => j = n
        BY <3>1, <3>2, <3>4, <3>5
      <4> QED
        BY <1>1, <1>4, <3>1, <3>4, <4>1, <4>2, <4>3 DEF ReplyOK
    <3>6. \A i \in DOMAIN stdout'[c] : i \in DOMAIN stdout[c] \/ i = n
      BY <3>1, <3>4
    <3>7. \A i \in DOMAIN stdout[c] : stdout[c][i].version <= actual[c]
      BY DEF ListInv, StreamOK
    <3>8. stdout'[c][n] = m /\ m.version <= actual[c]
      BY <1>3, <1>4, <3>1, <3>4
    <3> QED
      BY <1>1, <1>4, <2>2, <3>1, <3>3, <3>5, <3>6, <3>7, <3>8 DEF StreamOK
  <2> QED
    BY <2>1, <2>2
<1>7. \A d \in Conns : actual'[d] >= actual[d]
  BY <1>1, <1>3
<1>8. \A q \in Runners : RunnerOK(q)'
  BY <1>1, <1>3, <1>7, RunnerKept DEF ListInv
<1>9. LaunchOK'
  BY <1>1, <1>3, <1>7, LaunchKept DEF ListInv
<1> QED
  BY <1>6, <1>8, <1>9 DEF ListInv

LEMMA ExitStep ==
    ASSUME TypeOK, HoldInv, ListInv, NEW c \in Conns, Exit(c)
    PROVE  ListInv'
<1>1. /\ UNCHANGED <<conn, catalog, actual, launch, pc, got>>
      /\ status' = [status EXCEPT ![c] = "down"] /\ asks' \subseteq asks
      /\ stdout' = [stdout EXCEPT ![c] = <<>>] /\ status[c] # "unborn"
  BY DEF Exit, Runs
<1>2. actual \in [Conns -> Nat] /\ stdout \in [Conns -> Seq(Messages)]
      /\ launch.conn \in Conns \cup {Nobody}
  BY Numbers
<1>3. ASSUME NEW d \in Conns PROVE StreamOK(d)'
  <2>1. CASE d # c
    BY <1>1, <1>2, <2>1, StreamKept DEF ListInv
  <2>2. CASE d = c
    <3>1. DOMAIN stdout'[d] = {}
      BY <1>1, <1>2, <2>2
    <3> QED
      BY <3>1, StreamSilent
  <2> QED
    BY <2>1, <2>2
<1>4. \A d \in Conns : actual'[d] >= actual[d]
  BY <1>1, <1>2
<1>5. \A q \in Runners : RunnerOK(q)'
  BY <1>1, <1>2, <1>4, RunnerKept DEF ListInv
<1>6. LaunchOK'
  <2>1. \A d \in Conns : status'[d] = "unborn" <=> status[d] = "unborn"
    BY <1>1 DEF TypeOK
  <2> QED
    BY <1>1, <1>2, <2>1, NobodyAssumption DEF ListInv, LaunchOK, Unknown
<1> QED
  BY <1>3, <1>5, <1>6 DEF ListInv

-----------------------------------------------------------------------------
(* The reader. *)

(* Taking a message that is for no runner out of a stream. *)
LEMMA ReadPast ==
    ASSUME TypeOK, HoldInv, ListInv, NEW c \in Conns, stdout[c] # <<>>,
           Head(stdout[c]).to \notin Runners,
           stdout' = [stdout EXCEPT ![c] = Tail(stdout[c])],
           UNCHANGED <<catalog, actual, asks, pc, got>>
    PROVE  \A d \in Conns : StreamOK(d)'
<1>1. stdout \in [Conns -> Seq(Messages)]
  BY Numbers
<1>2. ASSUME NEW d \in Conns, d # c PROVE StreamOK(d)'
  BY <1>1, <1>2, StreamKept DEF ListInv
<1>3. StreamOK(c)'
  <2>1. /\ stdout'[c] = Tail(stdout[c])
        /\ \A i \in DOMAIN stdout'[c] :
              i \in Nat /\ i + 1 \in DOMAIN stdout[c] /\ stdout'[c][i] = stdout[c][i + 1]
    BY <1>1, Read
  <2>2. ASSUME NEW i \in DOMAIN stdout'[c]
        PROVE  /\ stdout'[c][i].version <= actual'[c]
               /\ stdout'[c][i].to \in Runners => ReplyOK(c, i)'
    <3>1. PICK k \in DOMAIN stdout[c] : k = i + 1
      BY <2>1
    <3>2. stdout'[c][i] = stdout[c][k] /\ stdout[c][k].version <= actual[c]
      BY <2>1, <3>1 DEF ListInv, StreamOK
    <3>3. ASSUME stdout[c][k].to \in Runners PROVE ReplyOK(c, i)'
      <4>1. ReplyOK(c, k)
        BY <3>3 DEF ListInv, StreamOK
      <4>2. ASSUME NEW j \in DOMAIN stdout'[c], stdout'[c][j].to = stdout[c][k].to PROVE j = i
        <5>1. j + 1 = k
          BY <2>1, <4>1, <4>2 DEF ReplyOK
        <5> QED
          BY <2>1, <3>1, <5>1
      <4> QED
        BY <3>2, <4>1, <4>2 DEF ReplyOK
    <3> QED
      BY <3>2, <3>3
  <2> QED
    BY <2>2 DEF StreamOK
<1> QED
  BY <1>2, <1>3

LEMMA ReadNotificationStep ==
    ASSUME TypeOK, HoldInv, ListInv, NEW c \in Conns, ReadNotification(c)
    PROVE  ListInv'
<1>1. /\ UNCHANGED <<conn, catalog, status, actual, asks, launch, pc, got>>
      /\ stdout' = [stdout EXCEPT ![c] = Tail(stdout[c])]
      /\ stdout[c] # <<>> /\ Head(stdout[c]).to = Nobody
  BY DEF ReadNotification
<1>2. \A d \in Conns : StreamOK(d)'
  BY <1>1, ReadPast, NobodyAssumption DEF Askers
<1>3. actual' \in [Conns -> Nat] /\ \A d \in Conns : actual'[d] >= actual[d]
  BY <1>1, Numbers
<1>4. \A q \in Runners : RunnerOK(q)'
  BY <1>1, <1>3, RunnerKept DEF ListInv
<1>5. LaunchOK'
  BY <1>1, <1>3, LaunchKept DEF ListInv
<1> QED
  BY <1>2, <1>4, <1>5 DEF ListInv

LEMMA ReadReplyStep ==
    ASSUME TypeOK, HoldInv, ListInv, SingleFlight, NEW c \in Conns, ReadReply(c)
    PROVE  ListInv'
<1>1. /\ UNCHANGED <<conn, catalog, status, actual, asks>>
      /\ stdout' = [stdout EXCEPT ![c] = Tail(stdout[c])] /\ stdout[c] # <<>>
  BY DEF ReadReply
<1>2. PICK m : m = Head(stdout[c])
  OBVIOUS
<1>3. /\ stdout \in [Conns -> Seq(Messages)] /\ actual \in [Conns -> Nat]
      /\ catalog.version \in Nat /\ launch.conn \in Conns \cup {Nobody}
      /\ got \in [Runners -> [conn : Conns \cup {Nobody}, version : Versions]]
      /\ pc \in [Runners -> Labels]
  BY Numbers
<1>4. /\ m = stdout[c][1] /\ 1 \in DOMAIN stdout[c] /\ m \in Messages /\ m.version \in Nat
      /\ m.version <= actual[c] /\ stdout'[c] = Tail(stdout[c])
      /\ \A i \in DOMAIN stdout'[c] :
            i \in Nat /\ i + 1 \in DOMAIN stdout[c] /\ i + 1 # 1 /\ stdout'[c][i] = stdout[c][i + 1]
  <2>1. /\ m = stdout[c][1] /\ 1 \in DOMAIN stdout[c] /\ stdout'[c] = Tail(stdout[c])
        /\ \A i \in DOMAIN stdout'[c] :
              i \in Nat /\ i + 1 \in DOMAIN stdout[c] /\ i + 1 # 1 /\ stdout'[c][i] = stdout[c][i + 1]
    BY <1>1, <1>2, <1>3, Read
  <2>2. m \in Messages /\ m.version \in Nat
    BY <2>1, Numbers
  <2>3. m.version <= actual[c]
    BY <2>1 DEF ListInv, StreamOK
  <2> QED
    BY <2>1, <2>2, <2>3
<1>5. \A d \in Conns : actual'[d] >= actual[d]
  BY <1>1, <1>3
<1>6. CASE m.to \notin Runners
  <2>1. UNCHANGED <<pc, got>>
    BY <1>2, <1>6 DEF ReadReply
  <2>2. \A d \in Conns : StreamOK(d)'
    BY <1>1, <1>2, <1>6, <2>1, ReadPast
  <2>3. \A q \in Runners : RunnerOK(q)'
    BY <1>1, <1>3, <1>5, <2>1, RunnerKept DEF ListInv
  <2>4. \/ launch' = launch
        \/ launch.conn = c /\ launch' = [launch EXCEPT !.listed = m.version]
    BY <1>2 DEF ReadReply
  <2>5. launch'.conn = launch.conn
        /\ (launch'.listed = launch.listed \/ (launch.conn = c /\ launch'.listed = m.version))
    BY <2>4 DEF TypeOK
  <2>6. launch'.listed # Nobody =>
            launch'.conn # Nobody /\ launch'.listed <= actual'[launch'.conn]
    BY <1>1, <1>4, <2>5, NobodyAssumption DEF ListInv, LaunchOK
  <2>7. LaunchOK'
    BY <1>1, <2>1, <2>5, <2>6 DEF ListInv, LaunchOK, Unknown
  <2> QED
    BY <2>2, <2>3, <2>7 DEF ListInv
<1>7. CASE m.to \in Runners
  <2>1. PICK p \in Runners : p = m.to
    BY <1>7
  <2>2. /\ pc[p] = "asking" /\ got[p].conn = c /\ <<c, p>> \notin asks
        /\ catalog.conn = c => m.version >= catalog.version
        /\ \A j \in DOMAIN stdout[c] : stdout[c][j].to = p => j = 1
    BY <1>4, <2>1 DEF ListInv, StreamOK, ReplyOK
  <2>3. /\ got' = [got EXCEPT ![p] = [conn |-> c, version |-> m.version]]
        /\ pc' = [pc EXCEPT ![p] = "writing"] /\ launch' = launch
    BY <1>2, <2>1, <2>2, NobodyAssumption DEF ReadReply
  <2>4. /\ got'[p].conn = c /\ got'[p].version = m.version /\ pc'[p] = "writing"
        /\ \A q \in Runners : q # p => got'[q] = got[q] /\ pc'[q] = pc[q]
    BY <1>3, <2>3
  <2>5. ASSUME NEW d \in Conns, NEW i \in DOMAIN stdout'[d]
        PROVE  stdout'[d][i].version <= actual'[d] /\ stdout'[d][i].to \notin Runners
    <3>1. ASSUME NEW e \in Conns, NEW j \in DOMAIN stdout[e], stdout[e][j].to \in Runners
          PROVE  stdout[e][j].to = p /\ e = c
      <4>1. PICK q \in Runners : q = stdout[e][j].to
        BY <3>1
      <4>2. pc[q] = "asking" /\ got[q].conn = e
        BY <3>1, <4>1 DEF ListInv, StreamOK, ReplyOK
      <4>3. q = p
        BY <2>2, <4>2, OneWaits
      <4> QED
        BY <2>2, <4>1, <4>2, <4>3
    <3>2. CASE d # c
      BY <1>1, <1>3, <3>1, <3>2 DEF ListInv, StreamOK
    <3>3. CASE d = c
      BY <1>1, <1>4, <2>2, <3>1, <3>3 DEF ListInv, StreamOK
    <3> QED
      BY <3>2, <3>3
  <2>6. \A d \in Conns : StreamOK(d)'
    BY <2>5, StreamSilent
  <2>7. ASSUME NEW q \in Runners PROVE RunnerOK(q)'
    <3>1. CASE q # p
      BY <1>1, <1>3, <1>5, <2>4, <3>1, RunnerKept DEF ListInv
    <3>2. CASE q = p
      <4>1. \A d \in Conns : <<d, p>> \notin asks
        BY <2>2 DEF ListInv, RunnerOK
      <4> QED
        BY <1>1, <1>4, <2>2, <2>4, <3>2, <4>1 DEF RunnerOK
    <3> QED
      BY <3>1, <3>2
  <2>8. LaunchOK'
    <3>1. \A q \in Runners : got'[q].conn = got[q].conn
      BY <2>2, <2>4
    <3> QED
      BY <1>1, <1>3, <1>5, <2>3, <3>1, LaunchKept DEF ListInv
  <2> QED
    BY <2>6, <2>7, <2>8 DEF ListInv
<1> QED
  BY <1>6, <1>7

-----------------------------------------------------------------------------
(* Launch, install and drop. *)
LEMMA LaunchStep ==
    ASSUME TypeOK, HoldInv, ListInv, NEW c \in Conns, Launch(c)
    PROVE  ListInv'
<1>1. /\ UNCHANGED <<conn, catalog, actual, stdout, pc, got>>
      /\ status[c] = "unborn" /\ status' = [status EXCEPT ![c] = "live"]
      /\ launch' = [conn |-> c, listed |-> Nobody] /\ asks' = asks \cup {<<c, Launcher>>}
  BY DEF Launch
<1>2. actual \in [Conns -> Nat] /\ \A d \in Conns : actual'[d] >= actual[d]
  BY <1>1, Numbers
<1>3. \A d \in Conns, q \in Runners : <<d, q>> \in asks' => <<d, q>> \in asks
  BY <1>1, NobodyAssumption
<1>4. \A d \in Conns : StreamOK(d)'
  BY <1>1, <1>3, StreamKept DEF ListInv
<1>5. \A q \in Runners : RunnerOK(q)'
  BY <1>1, <1>2, <1>3, RunnerKept DEF ListInv
<1>6. LaunchOK'
  <2>1. status'[c] = "live" /\ \A d \in Conns : d # c => status'[d] = status[d]
    BY <1>1 DEF TypeOK
  <2>2. launch'.conn = c /\ launch'.listed = Nobody
    BY <1>1
  <2> QED
    BY <1>1, <2>1, <2>2, NobodyAssumption DEF ListInv, LaunchOK, Unknown
<1> QED
  BY <1>4, <1>5, <1>6 DEF ListInv

LEMMA InstallStep ==
    ASSUME TypeOK, HoldInv, ListInv, Install
    PROVE  ListInv'
<1>1. /\ UNCHANGED <<status, actual, stdout, asks, pc, got>>
      /\ launch.listed # Nobody /\ conn' = launch.conn
      /\ catalog' = [conn |-> launch.conn, version |-> launch.listed]
      /\ launch' = [conn |-> Nobody, listed |-> Nobody]
  BY DEF Install, WriteCatalog
<1>2. /\ launch.conn # Nobody /\ launch.listed <= actual[launch.conn]
      /\ Unknown(launch.conn) /\ status[launch.conn] # "unborn"
  BY <1>1 DEF ListInv, LaunchOK
<1>3. actual \in [Conns -> Nat] /\ launch.conn \in Conns \cup {Nobody}
      /\ \A d \in Conns : actual'[d] >= actual[d]
  BY <1>1, Numbers
<1>4. /\ catalog'.conn = launch.conn /\ catalog'.version = launch.listed
      /\ launch'.conn = Nobody /\ launch'.listed = Nobody
  BY <1>1
<1>5. \A q \in Runners : got[q].conn # catalog'.conn
  BY <1>2, <1>4 DEF Unknown
<1>6. \A d \in Conns : StreamOK(d)'
  BY <1>1, <1>5, StreamKept DEF ListInv
<1>7. \A q \in Runners : RunnerOK(q)'
  BY <1>1, <1>3, <1>5, RunnerKept DEF ListInv
<1>8. LaunchOK'
  BY <1>1, <1>2, <1>3, <1>4, NobodyAssumption DEF ListInv, LaunchOK, Unknown
<1> QED
  BY <1>6, <1>7, <1>8 DEF ListInv

LEMMA DropStep ==
    ASSUME TypeOK, HoldInv, ListInv, Discard \/ DropUpstream
    PROVE  ListInv'
<1>1. /\ UNCHANGED <<actual, stdout, asks, pc, got>>
      /\ launch' = [conn |-> Nobody, listed |-> Nobody]
      /\ conn' = conn \/ conn' = Nobody
      /\ catalog' = catalog \/ catalog' = [conn |-> Nobody, version |-> 0]
      /\ \A d \in Conns : status'[d] = "unborn" <=> status[d] = "unborn"
  BY DEF Discard, DropUpstream, WriteCatalog, TypeOK
<1>2. actual \in [Conns -> Nat] /\ \A d \in Conns : actual'[d] >= actual[d]
  BY <1>1, Numbers
<1>3. catalog' = catalog \/ (catalog'.conn = Nobody /\ catalog'.version = 0)
  BY <1>1
<1>4. \A d \in Conns : StreamOK(d)'
  BY <1>1, <1>3, StreamKept, NobodyAssumption DEF ListInv
<1>5. \A q \in Runners : RunnerOK(q)'
  BY <1>1, <1>2, <1>3, RunnerKept, Numbers, NobodyAssumption, ZenonT(60) DEF ListInv
<1>6. launch'.conn = Nobody /\ launch'.listed = Nobody
  BY <1>1
<1>7. LaunchOK'
  BY <1>1, <1>3, <1>6, NobodyAssumption DEF ListInv, LaunchOK, Unknown
<1> QED
  BY <1>4, <1>5, <1>7 DEF ListInv

-----------------------------------------------------------------------------
(* The runner in flight. *)
LEMMA AskStep ==
    ASSUME TypeOK, HoldInv, ListInv, NEW p \in Runners, AskTools(p)
    PROVE  ListInv'
<1>1. /\ UNCHANGED <<conn, catalog, status, actual, stdout, launch>>
      /\ pc[p] = "relisting"
  BY DEF AskTools
<1>2. /\ pc \in [Runners -> Labels] /\ actual \in [Conns -> Nat]
      /\ got \in [Runners -> [conn : Conns \cup {Nobody}, version : Versions]]
      /\ conn \in Conns \cup {Nobody}
  BY Numbers
<1>3. CASE phase # "running" \/ conn = Nobody
  <2>1. UNCHANGED <<got, asks>> /\ pc' = [pc EXCEPT ![p] = "finishing"]
    BY <1>3 DEF AskTools
  <2> QED
    BY <1>1, <1>2, <2>1, QuietStep DEF Quiet
<1>4. CASE ~(phase # "running" \/ conn = Nobody)
  <2>1. /\ got' = [got EXCEPT ![p] = [conn |-> conn, version |-> 0]]
        /\ pc' = [pc EXCEPT ![p] = "asking"]
        /\ asks' \subseteq asks \cup {<<conn, p>>}
    BY <1>4 DEF AskTools
  <2>2. /\ got'[p].conn = conn /\ pc'[p] = "asking"
        /\ \A q \in Runners : q # p => got'[q] = got[q] /\ pc'[q] = pc[q]
    BY <1>2, <2>1
  <2>3. \A d \in Conns : StreamOK(d)'
    <3>1. \A q \in Runners : pc[q] = "asking" => q # p
      BY <1>1
    <3> QED
      BY <1>1, <2>1, <2>2, <3>1, StreamKept DEF ListInv
  <2>4. \A d \in Conns : actual'[d] >= actual[d]
    BY <1>1, <1>2
  <2>5. ASSUME NEW q \in Runners PROVE RunnerOK(q)'
    <3>1. CASE q # p
      BY <1>1, <1>2, <2>1, <2>2, <2>4, <3>1, RunnerKept DEF ListInv
    <3>2. CASE q = p
      <4>1. \A d \in Conns : <<d, p>> \notin asks
        BY <1>1 DEF ListInv, RunnerOK
      <4> QED
        BY <2>1, <2>2, <3>2, <4>1 DEF RunnerOK
    <3> QED
      BY <3>1, <3>2
  <2>6. LaunchOK'
    BY <1>1, <1>2, <2>2, <2>4, LaunchKept DEF ListInv
  <2> QED
    BY <2>3, <2>5, <2>6 DEF ListInv
<1> QED
  BY <1>3, <1>4

LEMMA FailStep ==
    ASSUME TypeOK, HoldInv, ListInv, SingleFlight, NEW p \in Runners, RelistFails(p)
    PROVE  ListInv'
<1>1. PICK c : c = got[p].conn
  OBVIOUS
<1>2. /\ UNCHANGED <<conn, catalog, status, actual, launch, got>>
      /\ pc[p] = "asking" /\ pc' = [pc EXCEPT ![p] = "finishing"]
      /\ asks' = asks \ {<<c, p>>}
  BY <1>1 DEF RelistFails
<1>3. /\ c \in Conns /\ stdout \in [Conns -> Seq(Messages)] /\ actual \in [Conns -> Nat]
      /\ pc \in [Runners -> Labels]
  BY <1>1, <1>2, Numbers
<1>4. PICK t : t = [i \in DOMAIN stdout[c] |->
                      IF stdout[c][i].to = p THEN [stdout[c][i] EXCEPT !.to = Late]
                                             ELSE stdout[c][i]]
  OBVIOUS
<1>5. stdout' = [stdout EXCEPT ![c] = t]
  BY <1>1, <1>4 DEF RelistFails
<1>6. /\ t \in Seq(Messages) /\ DOMAIN t = DOMAIN stdout[c]
      /\ \A i \in DOMAIN stdout[c] :
            /\ t[i].version = stdout[c][i].version /\ t[i].to # p
            /\ t[i].to = stdout[c][i].to \/ t[i].to = Late
  <2>1. stdout[c] \in Seq(Messages)
    BY <1>3
  <2> QED
    BY <1>4, <2>1, Abandoned
<1>7. ASSUME NEW d \in Conns, NEW i \in DOMAIN stdout[d], stdout[d][i].to \in Runners
      PROVE  stdout[d][i].to = p /\ d = c
  <2>1. PICK q \in Runners : q = stdout[d][i].to
    BY <1>7
  <2>2. pc[q] = "asking" /\ got[q].conn = d
    BY <1>7, <2>1 DEF ListInv, StreamOK, ReplyOK
  <2>3. q = p
    BY <1>2, <2>2, OneWaits
  <2> QED
    BY <1>1, <2>1, <2>2, <2>3
<1>8. ASSUME NEW d \in Conns PROVE StreamOK(d)'
  <2>1. CASE d # c
    <3>1. stdout'[d] = stdout[d]
      BY <1>3, <1>5, <2>1
    <3> QED
      BY <1>2, <1>7, <2>1, <3>1, StreamSilent DEF ListInv, StreamOK
  <2>2. CASE d = c
    <3>1. stdout'[d] = t
      BY <1>3, <1>5, <2>2
    <3>2. ASSUME NEW i \in DOMAIN stdout[c]
          PROVE  t[i].version <= actual[c] /\ t[i].to \notin Runners
      BY <1>3, <1>6, <1>7, NobodyAssumption DEF ListInv, StreamOK
    <3> QED
      BY <1>2, <1>6, <2>2, <3>1, <3>2, StreamSilent
  <2> QED
    BY <2>1, <2>2
<1>9. \A d \in Conns : actual'[d] >= actual[d]
  BY <1>2, <1>3
<1>10. ASSUME NEW q \in Runners PROVE RunnerOK(q)'
  <2>1. CASE q # p
    BY <1>2, <1>3, <1>9, <2>1, RunnerKept DEF ListInv
  <2>2. CASE q = p
    <3>1. \A d \in Conns : <<d, p>> \notin asks'
      BY <1>1, <1>2 DEF ListInv, RunnerOK
    <3>2. pc'[p] # "writing"
      BY <1>2, <1>3
    <3> QED
      BY <2>2, <3>1, <3>2 DEF RunnerOK
  <2> QED
    BY <2>1, <2>2
<1>11. LaunchOK'
  BY <1>2, <1>3, <1>9, LaunchKept DEF ListInv
<1> QED
  BY <1>8, <1>10, <1>11 DEF ListInv

(* A runner ends its write, having written or not. *)
LEMMA StillRunner ==
    ASSUME TypeOK, HoldInv, ListInv, SingleFlight, NEW p \in Runners, pc[p] = "writing",
           UNCHANGED <<conn, status, actual, stdout, asks, launch, got>>,
           pc'[p] = "finishing", \A q \in Runners : q # p => pc'[q] = pc[q],
           \/ catalog' = catalog
           \/ conn = got[p].conn /\ catalog' = [conn |-> conn, version |-> got[p].version]
    PROVE  ListInv'
<1>1. /\ actual \in [Conns -> Nat] /\ got[p].conn \in Conns
      /\ \A d \in Conns : actual'[d] >= actual[d]
  BY Numbers
<1>2. \/ catalog' = catalog
      \/ conn = got[p].conn /\ catalog'.conn = conn /\ catalog'.version = got[p].version
  OBVIOUS
<1>3. \A q \in Runners : q # p => pc[q] \notin {"asking", "writing"}
  BY OneWaits
<1>4. \A d \in Conns : StreamOK(d)'
  <2>1. \A q \in Runners : pc[q] # "asking"
    BY <1>3
  <2> QED
    BY <2>1, StreamKept DEF ListInv
<1>5. ASSUME NEW q \in Runners PROVE RunnerOK(q)'
  <2>1. CASE q # p
    BY <1>1, <1>3, <2>1, RunnerKept DEF ListInv
  <2>2. CASE q = p
    BY <2>2 DEF ListInv, RunnerOK
  <2> QED
    BY <2>1, <2>2
<1>6. LaunchOK'
  <2>1. CASE catalog' = catalog
    BY <1>1, <2>1, LaunchKept DEF ListInv
  <2>2. CASE conn = got[p].conn /\ catalog'.conn = conn /\ catalog'.version = got[p].version
    <3>1. got[p].version <= actual[conn]
      BY <2>2 DEF ListInv, RunnerOK
    <3>2. conn # Nobody
      BY <1>1, <2>2, NobodyAssumption
    <3> QED
      BY <2>2, <3>1, <3>2 DEF ListInv, LaunchOK, Unknown
  <2> QED
    BY <1>2, <2>1, <2>2
<1> QED
  BY <1>4, <1>5, <1>6 DEF ListInv

LEMMA WriteStep ==
    ASSUME TypeOK, HoldInv, ListInv, SingleFlight, NEW p \in Runners, WriteResult(p)
    PROVE  ListInv'
<1>1. /\ UNCHANGED <<conn, status, actual, stdout, asks, launch, got>>
      /\ pc[p] = "writing" /\ pc' = [pc EXCEPT ![p] = "finishing"]
  BY DEF WriteResult
<1>2. /\ pc \in [Runners -> Labels] /\ actual \in [Conns -> Nat] /\ got[p].conn \in Conns
      /\ launch.conn \in Conns \cup {Nobody}
  BY <1>1, Numbers
<1>3. pc'[p] = "finishing" /\ \A q \in Runners : q # p => pc'[q] = pc[q]
  BY <1>1, <1>2
<1>4. CASE conn # got[p].conn
  <2>1. catalog' = catalog
    BY <1>4 DEF WriteResult
  <2> QED
    BY <1>1, <1>3, <2>1, StillRunner
<1>5. CASE conn = got[p].conn
  <2>1. catalog' = [conn |-> conn, version |-> got[p].version]
    BY <1>5 DEF WriteResult, WriteCatalog
  <2> QED
    BY <1>1, <1>3, <1>5, <2>1, StillRunner
<1> QED
  BY <1>4, <1>5

LEMMA ListStep ==
    ASSUME TypeOK, TypeOK', HoldInv, SingleFlight, ListInv, [Next]_vars
    PROVE  ListInv'
<1>1. ASSUME NEW c \in Conns, Change(c) \/ Exit(c) \/ Launch(c) PROVE ListInv'
  BY <1>1, ChangeStep, ExitStep, LaunchStep
<1>2. ASSUME NEW c \in Conns, NEW p \in Askers, Reply(c, p) PROVE ListInv'
  BY <1>2, ReplyStep
<1>3. ASSUME NEW c \in Conns, ReadNotification(c) \/ ReadReply(c) PROVE ListInv'
  BY <1>3, ReadNotificationStep, ReadReplyStep
<1>4. CASE Install \/ Discard \/ DropUpstream
  BY <1>4, InstallStep, DropStep
<1>5. ASSUME NEW p \in Runners, Expire(p) \/ Forget(p) \/ Enter(p) \/ Finish(p) PROVE ListInv'
  <2>1. Quiet /\ UNCHANGED <<conn, got>>
    BY <1>5 DEF Expire, Forget, Enter, Finish, Quiet
  <2>2. pc[p] \in {"idle", "expired", "entering", "finishing"}
    BY <1>5 DEF Expire, Forget, Enter, Finish
  <2>3. PICK l \in {"expired", "entering", "idle", "relisting"} : pc' = [pc EXCEPT ![p] = l]
    BY <1>5 DEF Expire, Forget, Enter, Finish
  <2>4. pc'[p] = l /\ \A q \in Runners : q # p => pc'[q] = pc[q]
    BY <2>3, Numbers
  <2> QED
    BY <2>1, <2>2, <2>4, QuietStep
<1>6. ASSUME NEW p \in Runners, AskTools(p) \/ RelistFails(p) \/ WriteResult(p) PROVE ListInv'
  BY <1>6, AskStep, FailStep, WriteStep
<1>7. CASE Notify \/ Drain \/ StartReturns \/ BeginClose \/ CloseRelist \/ CloseConns \/ UNCHANGED vars
  <2>1. Quiet /\ (conn' = conn \/ conn' = Nobody) /\ UNCHANGED <<pc, got>>
    BY <1>7 DEF Notify, Drain, StartReturns, BeginClose, CloseRelist, CloseConns, Quiet
  <2> QED
    BY <2>1, StillStep
<1> QED
  BY <1>1, <1>2, <1>3, <1>4, <1>5, <1>6, <1>7 DEF Next, Step

(* What the theorems below rest on, together. *)
THEOREM RelistInvariant == Safety => [](TypeOK /\ FlightInv /\ HoldInv /\ ListInv)
<1>1. Init => ListInv
  <2> SUFFICES ASSUME Init PROVE ListInv
    OBVIOUS
  <2>1. \A c \in Conns : StreamOK(c)
    BY DEF Init, StreamOK
  <2>2. \A p \in Runners : RunnerOK(p)
    BY DEF Init, RunnerOK
  <2>3. LaunchOK
    BY NobodyAssumption DEF Init, None, LaunchOK, Unknown
  <2> QED
    BY <2>1, <2>2, <2>3 DEF ListInv
<1>2. ListInv /\ FlightInv /\ HoldInv /\ TypeOK /\ TypeOK' /\ [Next]_vars => ListInv'
  BY ListStep DEF FlightInv
<1>3. Init => TypeOK /\ FlightInv /\ HoldInv
  BY RelistStarts
<1>4. TypeOK /\ FlightInv /\ HoldInv /\ [Next]_vars => TypeOK' /\ FlightInv' /\ HoldInv'
  BY TypeStep, FlightStep, HoldStep
<1> QED
  BY <1>1, <1>2, <1>3, <1>4, PTL DEF Safety

(* Whatever is announced, re-listed, replaced and given up meanwhile, the  *)
(* listed version of a connection never goes back.                         *)
THEOREM ListedNeverOlder == Safety => NeverOlder
<1> DEFINE Forward == catalog'.conn = catalog.conn => catalog'.version >= catalog.version
<1>1. TypeOK /\ FlightInv /\ HoldInv /\ ListInv /\ [Next]_vars => [Forward]_vars
  <2> SUFFICES ASSUME TypeOK, FlightInv, HoldInv, ListInv, Next, catalog'.conn = catalog.conn
               PROVE  catalog'.version >= catalog.version
    OBVIOUS
  <2>1. catalog.version \in Nat /\ \A p \in Runners : got[p].version \in Nat
    BY Numbers
  <2>2. CASE Install
    BY <2>2 DEF Install, WriteCatalog, ListInv, LaunchOK, Unknown
  <2>3. CASE DropUpstream
    BY <2>3 DEF DropUpstream, WriteCatalog, ListInv, LaunchOK
  <2>4. ASSUME NEW p \in Runners, WriteResult(p) PROVE catalog'.version >= catalog.version
    <3>1. pc[p] = "writing"
      BY <2>4 DEF WriteResult
    <3>2. CASE conn = got[p].conn
      <4>1. catalog'.conn = conn /\ catalog'.version = got[p].version
        BY <2>4, <3>2 DEF WriteResult, WriteCatalog
      <4> QED
        BY <3>1, <3>2, <4>1 DEF ListInv, RunnerOK
    <3>3. CASE conn # got[p].conn
      BY <2>1, <2>4, <3>3 DEF WriteResult
    <3> QED
      BY <3>2, <3>3
  <2>5. ASSUME ~Install, ~DropUpstream, ~ \E p \in Runners : WriteResult(p)
        PROVE  catalog' = catalog
    BY <2>5 DEF Next, Step, Change, Exit, Launch, Reply, ReadNotification, ReadReply, Discard,
       Expire, Forget, Enter, AskTools, RelistFails, Finish, Notify, Drain, StartReturns, BeginClose,
       CloseRelist, CloseConns
  <2> QED
    BY <2>1, <2>2, <2>3, <2>4, <2>5
<1> QED
  BY <1>1, RelistInvariant, PTL DEF Safety, NeverOlder
-----------------------------------------------------------------------------
(* What HeardGetsListed rests on, short of fairness: while an upstream has *)
(* announced more than the catalog lists, somebody is on the way to list   *)
(* it, however the announcements, the expiries and a re-list under way     *)
(* overlap.                                                                *)

(* Another re-list will begin: an expiry is to come or has not yet found   *)
(* the running mark, or left the dirty one for the runner in flight.       *)
Again ==
    \/ entry = "armed" \/ orphans > 0
    \/ \E p \in Runners : pc[p] \in {"expired", "entering"}
    \/ running /\ dirty

(* A re-list under way of the installed connection ... *)
Pursues(p) ==
    \/ pc[p] = "relisting"
    \/ pc[p] \in {"asking", "writing"} /\ got[p].conn = conn

(* ... will list all that the connection has announced. *)
Recent(p) ==
    /\ pc[p] = "asking" => \A i \in DOMAIN stdout[conn] :
           stdout[conn][i].to = p => stdout[conn][i].version >= heard[conn]
    /\ pc[p] = "writing" => got[p].version >= heard[conn]

HeardIsPursued ==
    phase = "running" /\ conn # Nobody /\ ~missed =>
        \/ catalog.conn = conn /\ catalog.version >= heard[conn]
        \/ Again
        \/ \E p \in Runners : Pursues(p) /\ Recent(p)

(* Nothing is heard of a connection before it is installed. *)
HeardOK ==
    /\ \A c \in Conns : heard[c] <= actual[c]
    /\ \A c \in Conns : status[c] = "unborn" => heard[c] = 0
    /\ launch.conn # Nobody => heard[launch.conn] = 0
    /\ phase = "running" => catalog.conn = conn

(* A runner may have been answered before the last announcement: then      *)
(* another re-list follows, and this holds after a failed one too.         *)
PursuitInv ==
    phase = "running" /\ conn # Nobody =>
        /\ \A p \in Runners : got[p].conn = conn => Recent(p) \/ Again
        /\ missed \/ catalog.version >= heard[conn] \/ Again \/ \E p \in Runners : Pursues(p)

LEMMA Hearing ==
    ASSUME TypeOK
    PROVE  /\ heard \in [Conns -> Nat] /\ actual \in [Conns -> Nat]
           /\ status \in [Conns -> {"unborn", "live", "stray", "down"}]
           /\ conn \in Conns \cup {Nobody} /\ launch.conn \in Conns \cup {Nobody}
           /\ catalog.conn \in Conns \cup {Nobody} /\ catalog.version \in Nat
           /\ launch.listed \in Nat \cup {Nobody}
           /\ pc \in [Runners -> Labels]
           /\ got \in [Runners -> [conn : Conns \cup {Nobody}, version : Versions]]
           /\ \A p \in Runners : got[p].version \in Nat
<1>1. Versions \subseteq Nat
  BY MaxVersionAssumption DEF Versions
<1>2. heard \in [Conns -> Versions] /\ actual \in [Conns -> Versions]
  BY DEF TypeOK
<1>3. heard \in [Conns -> Nat] /\ actual \in [Conns -> Nat]
  BY <1>1, <1>2
<1>4. /\ catalog \in [conn : Conns \cup {Nobody}, version : Versions]
      /\ launch \in [conn : Conns \cup {Nobody}, listed : Versions \cup {Nobody}]
      /\ got \in [Runners -> [conn : Conns \cup {Nobody}, version : Versions]]
  BY DEF TypeOK
<1> QED
  BY <1>1, <1>3, <1>4 DEF TypeOK

LEMMA HeardStep ==
    ASSUME TypeOK, ListInv, HeardOK, [Next]_vars
    PROVE  HeardOK'
<1> USE NobodyAssumption DEF HeardOK
<1>0. /\ heard \in [Conns -> Nat] /\ actual \in [Conns -> Nat]
      /\ status \in [Conns -> {"unborn", "live", "stray", "down"}]
      /\ conn \in Conns \cup {Nobody} /\ launch.conn \in Conns \cup {Nobody}
  BY Hearing
<1>1. ASSUME NEW c \in Conns, Change(c) PROVE HeardOK'
  <2>1. \A d \in Conns : actual'[d] = actual[d] \/ actual'[d] = actual[d] + 1
    BY <1>0, <1>1 DEF Change
  <2> QED
    BY <1>0, <1>1, <2>1 DEF Change
<1>2. ASSUME NEW c \in Conns, Exit(c) PROVE HeardOK'
  BY <1>0, <1>2 DEF Exit
<1>3. ASSUME NEW c \in Conns, Launch(c) PROVE HeardOK'
  BY <1>0, <1>3 DEF Launch
<1>4. ASSUME NEW c \in Conns, NEW p \in Askers, Reply(c, p) PROVE HeardOK'
  BY <1>4 DEF Reply
<1>5. ASSUME NEW c \in Conns, ReadNotification(c) PROVE HeardOK'
  <2> DEFINE v == Head(stdout[c]).version
  <2>1. /\ UNCHANGED <<conn, catalog, status, actual, launch, phase>>
        /\ heard' = IF conn = c THEN [heard EXCEPT ![c] = v] ELSE heard
    BY <1>5 DEF ReadNotification
  <2>2. v <= actual[c]
    <3>1. stdout[c] \in Seq(Messages) /\ stdout[c] # <<>>
      BY <1>5 DEF ReadNotification, TypeOK
    <3>2. 1 \in DOMAIN stdout[c] /\ Head(stdout[c]) = stdout[c][1]
      BY <3>1
    <3> QED
      BY <3>2 DEF ListInv, StreamOK
  <2>3. \A d \in Conns : heard'[d] = heard[d] \/ (d = c /\ conn = c /\ heard'[d] = v)
    BY <1>0, <2>1
  <2>4. (status[conn] # "unborn" /\ launch.conn # conn) \/ conn # c
    BY DEF ListInv, LaunchOK, Unknown
  <2> HIDE DEF v
  <2> QED
    BY <1>0, <2>1, <2>2, <2>3, <2>4
<1>6. ASSUME NEW c \in Conns, ReadReply(c) PROVE HeardOK'
  <2>1. UNCHANGED <<conn, catalog, status, actual, heard, phase>>
    BY <1>6 DEF ReadReply
  <2>2. launch'.conn = launch.conn
    <3>1. PICK v : launch' = launch \/ launch' = [launch EXCEPT !.listed = v]
      BY <1>6 DEF ReadReply
    <3>2. launch \in [conn : Conns \cup {Nobody}, listed : Versions \cup {Nobody}]
      BY DEF TypeOK
    <3> QED
      BY <3>1, <3>2
  <2> QED
    BY <2>1, <2>2
<1>7. CASE Install \/ Discard
  BY <1>7 DEF Install, Discard, WriteCatalog
<1>8. CASE DropUpstream
  <2>1. \A c \in Conns : status'[c] = "unborn" => status[c] = "unborn"
    BY <1>0, <1>8 DEF DropUpstream
  <2> QED
    BY <1>8, <2>1 DEF DropUpstream, WriteCatalog
<1>9. ASSUME NEW p \in Runners, Step(p) \/ RelistFails(p) PROVE HeardOK'
  <2>1. UNCHANGED <<conn, status, actual, launch, heard, phase>>
    BY <1>9 DEF Step, Expire, Forget, Enter, AskTools, WriteResult, Finish, RelistFails
  <2>2. catalog' = catalog \/ catalog'.conn = conn
    BY <1>9 DEF Step, Expire, Forget, Enter, AskTools, WriteResult, WriteCatalog, Finish, RelistFails
  <2> QED
    BY <2>1, <2>2
<1>10. CASE Notify \/ Drain \/ StartReturns \/ BeginClose \/ CloseRelist \/ CloseConns \/ UNCHANGED vars
  BY <1>10 DEF Notify, Drain, StartReturns, BeginClose, CloseRelist, CloseConns
<1> QED
  BY <1>1, <1>2, <1>3, <1>4, <1>5, <1>6, <1>7, <1>8, <1>9, <1>10 DEF Next

(* A stream grows by one message, or loses the first one. *)
LEMMA Longer ==
    ASSUME NEW S, NEW s \in Seq(S), NEW m \in S
    PROVE  \A i \in DOMAIN Append(s, m) :
               (i \in DOMAIN s /\ Append(s, m)[i] = s[i]) \/ Append(s, m)[i] = m
  OBVIOUS

LEMMA Shorter ==
    ASSUME NEW S, NEW s \in Seq(S), s # <<>>
    PROVE  /\ 1 \in DOMAIN s /\ Head(s) = s[1]
           /\ \A i \in DOMAIN Tail(s) : i + 1 \in DOMAIN s /\ Tail(s)[i] = s[i + 1]
  OBVIOUS

(* Nothing is lost while only the rest moves, nor when the stream moves on *)
(* with what is recent.                                                    *)
LEMMA PursuitKept ==
    ASSUME TypeOK, PursuitInv,
           UNCHANGED <<conn, catalog, heard, pc, got, entry, orphans, running, dirty, missed>>,
           phase' = phase \/ phase' # "running",
           \A p \in Runners : conn # Nobody /\ phase = "running" /\ Recent(p) => Recent(p)'
    PROVE  PursuitInv'
  BY DEF PursuitInv, Again, Pursues

LEMMA PursuitStays ==
    ASSUME TypeOK, PursuitInv,
           UNCHANGED <<conn, catalog, heard, pc, got, entry, orphans, running, dirty, missed, stdout>>,
           phase' = phase \/ phase' # "running"
    PROVE  PursuitInv'
  BY PursuitKept DEF Recent

(* The streams. *)
LEMMA PursuitOfStreams ==
    ASSUME TypeOK, HeardOK, PursuitInv, NEW c \in Conns,
           Change(c) \/ Exit(c) \/ (\E p \in Askers : Reply(c, p)) \/ ReadNotification(c)
    PROVE  PursuitInv'
<1>0. /\ stdout \in [Conns -> Seq(Messages)] /\ actual \in [Conns -> Versions]
      /\ heard \in [Conns -> Nat] /\ actual \in [Conns -> Nat]
      /\ conn \in Conns \cup {Nobody}
  BY Hearing DEF TypeOK
<1>1. CASE ReadNotification(c)
  <2>1. entry' = "armed"
    BY <1>1 DEF ReadNotification
  <2> QED
    BY <2>1 DEF PursuitInv, Again
<1>2. ASSUME NEW m \in Messages, stdout' = [stdout EXCEPT ![c] = Append(@, m)],
             m.to \in Runners => m.version = actual[c],
             UNCHANGED <<conn, catalog, heard, pc, got, entry, orphans, running, dirty, missed, phase>>
      PROVE  PursuitInv'
  <2>1. ASSUME NEW p \in Runners, conn # Nobody, Recent(p) PROVE Recent(p)'
    <3>1. ASSUME NEW i \in DOMAIN stdout'[conn], pc[p] = "asking", stdout'[conn][i].to = p
          PROVE  stdout'[conn][i].version >= heard[conn]
      <4>1. CASE conn # c
        <5>1. stdout'[conn] = stdout[conn]
          BY <1>0, <1>2, <4>1
        <5> QED
          BY <2>1, <3>1, <5>1 DEF Recent
      <4>2. CASE conn = c
        <5>1. stdout'[c] = Append(stdout[c], m) /\ stdout[c] \in Seq(Messages)
          BY <1>0, <1>2
        <5>2. (i \in DOMAIN stdout[c] /\ stdout'[c][i] = stdout[c][i]) \/ stdout'[c][i] = m
          BY <3>1, <4>2, <5>1, Longer
        <5>3. CASE stdout'[c][i] = m
          BY <1>0, <1>2, <3>1, <4>2, <5>3 DEF HeardOK
        <5> QED
          BY <2>1, <3>1, <4>2, <5>2, <5>3 DEF Recent
      <4> QED
        BY <4>1, <4>2
    <3> QED
      BY <1>2, <2>1, <3>1 DEF Recent
  <2> QED
    BY <1>2, <2>1, PursuitKept
<1>3. CASE Change(c)
  <2> DEFINE m == [to |-> Nobody, version |-> actual[c] + 1]
  <2>1. m \in Messages /\ m.to \notin Runners
    <3>1. actual[c] + 1 \in Versions
      BY <1>0, <1>3, MaxVersionAssumption DEF Change, Versions
    <3> QED
      BY <3>1, NobodyAssumption DEF Messages, Askers
  <2> HIDE DEF m
  <2>2. stdout' = [stdout EXCEPT ![c] = Append(@, m)]
    BY <1>3 DEF Change, m
  <2>3. UNCHANGED <<conn, catalog, heard, pc, got, entry, orphans, running, dirty, missed, phase>>
    BY <1>3 DEF Change
  <2> QED
    BY <1>2, <2>1, <2>2, <2>3
<1>4. ASSUME NEW p \in Askers, Reply(c, p) PROVE PursuitInv'
  <2> DEFINE m == [to |-> p, version |-> actual[c]]
  <2>1. m \in Messages /\ m.version = actual[c]
    BY <1>0 DEF Messages
  <2> HIDE DEF m
  <2>2. stdout' = [stdout EXCEPT ![c] = Append(@, m)]
    BY <1>4 DEF Reply, m
  <2>3. UNCHANGED <<conn, catalog, heard, pc, got, entry, orphans, running, dirty, missed, phase>>
    BY <1>4 DEF Reply
  <2> QED
    BY <1>2, <2>1, <2>2, <2>3
<1>5. CASE Exit(c)
  <2>1. UNCHANGED <<conn, catalog, heard, pc, got, entry, orphans, running, dirty, missed, phase>>
    BY <1>5 DEF Exit
  <2>2. \A d \in Conns : stdout'[d] = stdout[d] \/ stdout'[d] = <<>>
    BY <1>0, <1>5 DEF Exit
  <2>3. DOMAIN <<>> = {}
    OBVIOUS
  <2>4. ASSUME NEW p \in Runners, conn # Nobody, Recent(p) PROVE Recent(p)'
    <3>1. stdout'[conn] = stdout[conn] \/ stdout'[conn] = <<>>
      BY <1>0, <2>2, <2>4
    <3> QED
      BY <2>1, <2>3, <2>4, <3>1 DEF Recent
  <2> QED
    BY <2>1, <2>4, PursuitKept
<1> QED
  BY <1>1, <1>3, <1>4, <1>5

(* What the runner reads is what was on its way to it. *)
LEMMA PursuitRead ==
    ASSUME TypeOK, PursuitInv, NEW c \in Conns, ReadReply(c)
    PROVE  PursuitInv'
<1> DEFINE m == Head(stdout[c])
<1>0. /\ stdout \in [Conns -> Seq(Messages)] /\ conn \in Conns \cup {Nobody}
      /\ pc \in [Runners -> Labels]
      /\ got \in [Runners -> [conn : Conns \cup {Nobody}, version : Versions]]
  BY Hearing DEF TypeOK
<1>1. /\ stdout[c] # <<>> /\ stdout' = [stdout EXCEPT ![c] = Tail(@)]
      /\ UNCHANGED <<conn, catalog, heard, entry, orphans, running, dirty, missed, phase>>
      /\ \/ UNCHANGED <<pc, got>>
         \/ /\ m.to \in Runners /\ pc[m.to] = "asking" /\ got[m.to].conn = c
            /\ got' = [got EXCEPT ![m.to] = [conn |-> c, version |-> m.version]]
            /\ pc' = [pc EXCEPT ![m.to] = "writing"]
  BY DEF ReadReply
<1>2. /\ 1 \in DOMAIN stdout[c] /\ m = stdout[c][1]
      /\ \A i \in DOMAIN Tail(stdout[c]) :
            i + 1 \in DOMAIN stdout[c] /\ Tail(stdout[c])[i] = stdout[c][i + 1]
  <2>1. stdout[c] \in Seq(Messages)
    BY <1>0
  <2> QED
    BY <1>1, <2>1, Shorter
<1> HIDE DEF m
<1>3. stdout'[c] = Tail(stdout[c]) /\ \A d \in Conns : d # c => stdout'[d] = stdout[d]
  BY <1>0, <1>1
<1>4. ASSUME NEW p \in Runners, conn # Nobody, Recent(p), pc'[p] = pc[p], got'[p] = got[p]
      PROVE  Recent(p)'
  <2>1. CASE conn # c
    <3>1. stdout'[conn] = stdout[conn]
      BY <1>0, <1>3, <1>4, <2>1
    <3> QED
      BY <1>1, <1>4, <3>1 DEF Recent
  <2>2. CASE conn = c
    <3>1. ASSUME NEW i \in DOMAIN stdout'[c], pc[p] = "asking", stdout'[c][i].to = p
          PROVE  stdout'[c][i].version >= heard[c]
      <4>1. i + 1 \in DOMAIN stdout[c] /\ stdout'[c][i] = stdout[c][i + 1]
        BY <1>2, <1>3
      <4> QED
        BY <1>4, <2>2, <3>1, <4>1 DEF Recent
    <3> QED
      BY <1>1, <1>4, <2>2, <3>1 DEF Recent
  <2> QED
    BY <2>1, <2>2
<1>5. CASE UNCHANGED <<pc, got>>
  BY <1>1, <1>4, <1>5, PursuitKept
<1>6. CASE /\ m.to \in Runners /\ pc[m.to] = "asking" /\ got[m.to].conn = c
           /\ got' = [got EXCEPT ![m.to] = [conn |-> c, version |-> m.version]]
           /\ pc' = [pc EXCEPT ![m.to] = "writing"]
  <2> DEFINE q == m.to
  <2>1. /\ q \in Runners /\ pc[q] = "asking" /\ got[q].conn = c
        /\ pc'[q] = "writing" /\ got'[q].conn = c /\ got'[q].version = m.version
        /\ \A p \in Runners : p # q => pc'[p] = pc[p] /\ got'[p] = got[p]
    BY <1>0, <1>6
  <2>2. Again' = Again
    BY <1>0, <1>1, <1>6 DEF Again
  <2>3. \A p \in Runners : got'[p].conn = got[p].conn
    BY <2>1
  <2>4. \A p \in Runners : Pursues(p) => Pursues(p)'
    BY <1>1, <2>1 DEF Pursues
  <2>5. ASSUME NEW p \in Runners, conn # Nobody, got[p].conn = conn, Recent(p) PROVE Recent(p)'
    <3>1. CASE p # q
      BY <1>4, <2>1, <2>5, <3>1
    <3>2. CASE p = q
      BY <1>1, <1>2, <2>1, <2>5, <3>2 DEF Recent
    <3> QED
      BY <3>1, <3>2
  <2> QED
    BY <1>1, <2>2, <2>3, <2>4, <2>5 DEF PursuitInv
<1> QED
  BY <1>1, <1>5, <1>6

(* The debounce timer: an expiry becomes a runner, and a runner that finds *)
(* another one in flight leaves it the mark.                               *)
LEMMA PursuitOfTimers ==
    ASSUME TypeOK, FlightInv, PursuitInv, NEW p \in Runners, Expire(p) \/ Forget(p) \/ Enter(p)
    PROVE  PursuitInv'
<1>0. pc \in [Runners -> Labels] /\ orphans \in Nat
  BY DEF TypeOK
<1>1. UNCHANGED <<conn, catalog, heard, missed, stdout, got, phase>>
  BY DEF Expire, Forget, Enter
<1>2. CASE Expire(p) \/ Forget(p)
  <2>1. pc'[p] \in {"expired", "entering"}
    BY <1>0, <1>2 DEF Expire, Forget
  <2> QED
    BY <1>1, <2>1 DEF PursuitInv, Again
<1>3. CASE Enter(p)
  <2> SUFFICES ASSUME phase = "running", conn # Nobody
               PROVE  /\ \A q \in Runners : got'[q].conn = conn => Recent(q)' \/ Again'
                      /\ missed \/ catalog.version >= heard[conn] \/ Again'
                         \/ \E q \in Runners : Pursues(q)'
    BY <1>1 DEF PursuitInv
  <2>1. CASE running
    <3>1. running' /\ dirty'
      BY <1>3, <2>1 DEF Enter
    <3> QED
      BY <3>1 DEF Again
  <2>2. CASE ~running
    <3>1. pc' = [pc EXCEPT ![p] = "relisting"]
      BY <1>3, <2>2 DEF Enter
    <3>2. \A q \in Runners : pc'[q] \notin {"asking", "writing"}
      BY <1>0, <2>2, <3>1 DEF FlightInv, SingleFlight, InFlight
    <3>3. Pursues(p)'
      BY <1>0, <3>1 DEF Pursues
    <3> QED
      BY <3>2, <3>3 DEF Recent
  <2> QED
    BY <2>1, <2>2
<1> QED
  BY <1>2, <1>3

(* The runner in flight asks, is told, writes, and begins anew if marked. *)
LEMMA PursuitOfFlight ==
    ASSUME TypeOK, TypeOK', FlightInv, FlightInv', ListInv, PursuitInv, HeardOK, NEW p \in Runners,
           AskTools(p) \/ RelistFails(p) \/ WriteResult(p) \/ Finish(p)
    PROVE  PursuitInv'
<1>0. /\ pc \in [Runners -> Labels] /\ conn \in Conns \cup {Nobody}
      /\ got \in [Runners -> [conn : Conns \cup {Nobody}, version : Versions]]
      /\ stdout \in [Conns -> Seq(Messages)] /\ p \in InFlight
  BY DEF TypeOK, InFlight, AskTools, RelistFails, WriteResult, Finish
<1>1. /\ UNCHANGED <<conn, heard, phase, entry, orphans>>
      /\ \A q \in Runners : q # p => pc'[q] = pc[q]
  BY <1>0 DEF AskTools, RelistFails, WriteResult, Finish
<1>2. \A q \in Runners : q # p => q \notin InFlight /\ pc[q] \notin {"asking", "writing", "relisting"}
  BY <1>0 DEF FlightInv, SingleFlight, InFlight
<1>3. \A q \in Runners : q # p => Recent(q)' /\ (Pursues(q) <=> Pursues(q)')
  BY <1>1, <1>2 DEF Recent, Pursues
<1> SUFFICES ASSUME phase = "running", conn # Nobody
             PROVE  /\ got'[p].conn = conn => Recent(p)' \/ Again'
                    /\ missed' \/ catalog'.version >= heard[conn] \/ Again' \/ Pursues(p)'
  BY <1>1, <1>3 DEF PursuitInv
<1>4. /\ got[p].conn = conn => Recent(p) \/ Again
      /\ missed \/ catalog.version >= heard[conn] \/ Again \/ Pursues(p)
  BY <1>2 DEF PursuitInv, Pursues
<1>5. CASE AskTools(p)
  <2>1. /\ got' = [got EXCEPT ![p] = [conn |-> conn, version |-> 0]]
        /\ pc[p] = "relisting" /\ pc' = [pc EXCEPT ![p] = "asking"] /\ stdout' = stdout
    BY <1>5 DEF AskTools
  <2>2. pc'[p] = "asking" /\ got'[p].conn = conn
    BY <1>0, <2>1
  <2>3. \A i \in DOMAIN stdout[conn] : stdout[conn][i].to # p
    <3>1. StreamOK(conn)
      BY <1>0 DEF ListInv
    <3>2. ASSUME NEW i \in DOMAIN stdout[conn], stdout[conn][i].to = p PROVE FALSE
      <4>1. ReplyOK(conn, i)
        BY <3>1, <3>2 DEF StreamOK
      <4> QED
        BY <2>1, <3>2, <4>1 DEF ReplyOK
    <3> QED
      BY <3>2
  <2> QED
    BY <1>1, <2>1, <2>2, <2>3 DEF Recent, Pursues
<1>6. CASE RelistFails(p)
  <2>1. missed' /\ pc'[p] = "finishing"
    BY <1>0, <1>6 DEF RelistFails
  <2> QED
    BY <2>1 DEF Recent
<1>7. CASE WriteResult(p)
  <2>1. /\ pc[p] = "writing" /\ pc'[p] = "finishing" /\ UNCHANGED <<got, running, dirty>>
        /\ conn # got[p].conn => UNCHANGED <<catalog, missed>>
        /\ conn = got[p].conn => catalog'.version = got[p].version
    BY <1>0, <1>7 DEF WriteResult, WriteCatalog
  <2>2. Again => Again'
    <3>1. ASSUME NEW q \in Runners, pc[q] \in {"expired", "entering"}
          PROVE  pc'[q] \in {"expired", "entering"}
      BY <1>1, <2>1, <3>1
    <3> QED
      BY <1>1, <2>1, <3>1 DEF Again
  <2>3. Recent(p)'
    BY <2>1 DEF Recent
  <2>4. missed' \/ catalog'.version >= heard[conn] \/ Again'
    <3>1. CASE conn = got[p].conn
      BY <1>4, <2>1, <2>2, <3>1 DEF Recent
    <3>2. CASE conn # got[p].conn
      BY <1>4, <2>1, <2>2, <3>2 DEF Pursues
    <3> QED
      BY <3>1, <3>2
  <2> QED
    BY <2>3, <2>4
<1>8. CASE Finish(p)
  <2>1. pc[p] = "finishing" /\ UNCHANGED <<catalog, missed>>
    BY <1>8 DEF Finish
  <2>2. CASE dirty
    <3>1. pc'[p] = "relisting"
      BY <1>0, <1>8, <2>2 DEF Finish
    <3> QED
      BY <3>1 DEF Recent, Pursues
  <2>3. CASE ~dirty
    <3>1. pc'[p] = "idle"
      BY <1>0, <1>8, <2>3 DEF Finish
    <3>2. Again => Again'
      <4>1. ASSUME NEW q \in Runners, pc[q] \in {"expired", "entering"}
            PROVE  pc'[q] \in {"expired", "entering"}
        BY <1>1, <2>1, <4>1
      <4> QED
        BY <1>1, <2>3, <4>1 DEF Again
    <3> QED
      BY <1>4, <2>1, <3>1, <3>2 DEF Recent, Pursues
  <2> QED
    BY <2>2, <2>3
<1> QED
  BY <1>5, <1>6, <1>7, <1>8

LEMMA PursuitStep ==
    ASSUME TypeOK, TypeOK', FlightInv, FlightInv', ListInv, HeardOK, PursuitInv, [Next]_vars
    PROVE  PursuitInv'
<1>1. ASSUME NEW c \in Conns,
             Change(c) \/ Exit(c) \/ (\E p \in Askers : Reply(c, p)) \/ ReadNotification(c)
                \/ ReadReply(c)
      PROVE  PursuitInv'
  BY <1>1, PursuitOfStreams, PursuitRead
<1>2. ASSUME NEW p \in Runners, Step(p) \/ RelistFails(p) PROVE PursuitInv'
  BY <1>2, PursuitOfTimers, PursuitOfFlight DEF Step
<1>3. CASE Install
  <2>1. /\ conn' = launch.conn /\ catalog'.version = launch.listed /\ launch.listed # Nobody
        /\ UNCHANGED <<heard, got>>
    BY <1>3 DEF Install, WriteCatalog
  <2>2. launch.conn # Nobody /\ Unknown(launch.conn) /\ heard[launch.conn] = 0
    BY <2>1 DEF ListInv, LaunchOK, HeardOK
  <2>3. launch.listed >= 0
    BY <2>1, Hearing
  <2> QED
    BY <2>1, <2>2, <2>3 DEF PursuitInv, Unknown
<1>4. CASE DropUpstream \/ CloseConns \/ CloseRelist
  BY <1>4 DEF DropUpstream, CloseConns, CloseRelist, PursuitInv
<1>5. CASE Discard \/ Notify \/ Drain \/ StartReturns \/ BeginClose \/ UNCHANGED vars
  BY <1>5, PursuitStays DEF Discard, Notify, Drain, StartReturns, BeginClose
<1>6. ASSUME NEW c \in Conns, Launch(c) PROVE PursuitInv'
  BY <1>6, PursuitStays DEF Launch
<1> QED
  BY <1>1, <1>2, <1>3, <1>4, <1>5, <1>6 DEF Next

(* What an installed connection has announced, the catalog lists, or some- *)
(* body is on the way to list it: an armed timer, an expiry under way, the *)
(* dirty mark, or a runner that will be told enough.                       *)
THEOREM WhatIsHeardIsPursued == Safety => []HeardIsPursued
<1>1. Init => HeardOK /\ PursuitInv
  BY DEF Init, None, HeardOK, PursuitInv
<1>2. HeardOK /\ PursuitInv => HeardIsPursued
  <2> SUFFICES ASSUME HeardOK, PursuitInv, phase = "running", conn # Nobody, ~missed,
                      ~(catalog.version >= heard[conn]), ~Again
               PROVE  \E p \in Runners : Pursues(p) /\ Recent(p)
    BY DEF HeardIsPursued, HeardOK
  <2>1. PICK p \in Runners : Pursues(p)
    BY DEF PursuitInv
  <2>2. Recent(p)
    BY <2>1 DEF PursuitInv, Pursues, Recent
  <2> QED
    BY <2>1, <2>2
<1>3. TypeOK /\ TypeOK' /\ FlightInv /\ FlightInv' /\ ListInv /\ HeardOK /\ PursuitInv
         /\ [Next]_vars => HeardOK' /\ PursuitInv'
  BY HeardStep, PursuitStep
<1>4. Safety => [](TypeOK /\ FlightInv /\ ListInv)
  BY RelistInvariant, PTL
<1> QED
  BY <1>1, <1>2, <1>3, <1>4, PTL DEF Safety
=============================================================================
