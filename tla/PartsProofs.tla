---------------------------- MODULE PartsProofs -----------------------------
(***************************************************************************)
(* Theorems about the components that Parts puts side by side, for any     *)
(* values of their constants.  A component keeps its invariant while       *)
(* another has the turn, since its variables do not change.                *)
(***************************************************************************)
EXTENDS Parts, LifecycleProofs, FiniteSetTheorems, SequenceTheorems, WellFoundedInduction, TLAPS

-----------------------------------------------------------------------------
(* What Parts runs of each component is that component, whole: no step of  *)
(* one is a step of another.                                               *)
THEOREM PartsRun ==
    PartsSpec => /\ Safety /\ Http!Safety /\ Config!Safety
                 /\ Cat!Safety /\ Log!Safety /\ Stdio!Safety
<1> USE DEF PartsNext, HttpStep, LifeStep, ConfigStep, CatStep, LogStep, StdioStep, partsVars
<1>1. PartsInit => Init /\ Http!Init /\ Config!Init /\ Cat!Init /\ Log!Init /\ Stdio!Init
  BY DEF PartsInit
<1>2. [PartsNext]_partsVars => [Next]_vars
  OBVIOUS
<1>3. [PartsNext]_partsVars => [Http!Next]_(Http!vars)
  BY DEF Http!vars, Http!clientVars, Http!serverVars, Http!streamVars, httpVars
<1>4. [PartsNext]_partsVars => [Config!Next]_(Config!vars)
  BY DEF Config!vars, Config!fileVars, configVars
<1>5. [PartsNext]_partsVars => [Cat!Next]_(Cat!vars)
  BY DEF Cat!vars, Cat!catalogVars, catVars
<1>6. [PartsNext]_partsVars => [Log!Next]_(Log!vars)
  BY DEF Log!vars, Log!reporting, logVars
<1>7. [PartsNext]_partsVars => [Stdio!Next]_(Stdio!vars)
  BY DEF Stdio!vars, Stdio!client, Stdio!gates, Stdio!registry, Stdio!seen, stdioVars
<1> QED
  BY <1>1, <1>2, <1>3, <1>4, <1>5, <1>6, <1>7, PTL
     DEF PartsSpec, Safety, Http!Safety, Config!Safety, Cat!Safety, Log!Safety, Stdio!Safety

(* A nonempty finite set of naturals has a greatest element. *)
LEMMA Greatest ==
    ASSUME NEW S \in SUBSET Nat, IsFiniteSet(S), S # {}
    PROVE  \E x \in S : \A y \in S : y <= x
<1> DEFINE Topped(T) == \E x \in T : \A y \in T : y <= x
           Bad == {n \in Nat : \E T \in SUBSET Nat :
                      IsFiniteSet(T) /\ Cardinality(T) = n /\ T # {} /\ ~Topped(T)}
<1>1. ASSUME Bad # {} PROVE FALSE
  <2>1. PICK n \in Bad : \A m \in Bad : n <= m
    BY <1>1, Least
  <2>2. PICK T \in SUBSET Nat :
           IsFiniteSet(T) /\ Cardinality(T) = n /\ T # {} /\ ~Topped(T)
    BY <2>1
  <2>3. PICK x \in T : TRUE
    BY <2>2
  <2>4. /\ IsFiniteSet(T \ {x}) /\ Cardinality(T \ {x}) = n - 1
        /\ Cardinality(T \ {x}) \in Nat
    BY <2>2, <2>3, FS_RemoveElement, FS_CardinalityType
  <2>5. n - 1 \notin Bad
    BY <2>1
  <2>6. T \ {x} = {} \/ Topped(T \ {x})
    BY <2>2, <2>4, <2>5
  <2>7. ASSUME T \ {x} = {} PROVE Topped(T)
    BY <2>2, <2>3, <2>7
  <2>8. ASSUME Topped(T \ {x}) PROVE Topped(T)
    <3>1. PICK z \in T \ {x} : \A y \in T \ {x} : y <= z
      BY <2>8
    <3>2. x <= z \/ z <= x
      BY <2>2, <2>3, <3>1
    <3>3. \A y \in T : y \in Nat /\ (y = x \/ y \in T \ {x})
      BY <2>2
    <3> QED
      BY <2>2, <2>3, <3>1, <3>2, <3>3
  <2> QED
    BY <2>2, <2>6, <2>7, <2>8
<1>2. Cardinality(S) \in Nat
  BY FS_CardinalityType
<1> QED
  BY <1>1, <1>2

LEMMA Queueing ==
    ASSUME NEW S, NEW s \in Seq(S), NEW x \in S
    PROVE  /\ Append(s, x) \in Seq(S)
           /\ Len(Append(s, x)) = Len(s) + 1
           /\ Len(s) \in Nat
           /\ Append(s, x)[Len(s) + 1] = x
           /\ \A i \in 1 .. Len(s) : Append(s, x)[i] = s[i] /\ s[i] \in S
  OBVIOUS

-----------------------------------------------------------------------------
(* HttpUpstream. *)

(* Whoever may still have its call run has not had it run. *)
ToRun(c) ==
    \/ h_call[c].pc \in {"posted", "asking"}
    \/ h_call[c].pc \in {"initialize", "notify"} /\ h_call[c].kind = "tool"
    \/ h_call[c].pc = "answered" /\ h_call[c].status = "expired"

CallsOK ==
    /\ \A c \in Callers : h_runs[c] <= 1
    /\ \A c \in Callers : ToRun(c) => h_runs[c] = 0

(* What has been handed over comes before what is being read, and that is  *)
(* what the Last-Event-ID names.                                           *)
EventsOK ==
    /\ \A i \in 1 .. Len(h_handed) - 1 : h_handed[i] < h_handed[i + 1]
    /\ h_partial # 0 => h_partial = h_lastID
    /\ \A i \in 1 .. Len(h_handed) :
          h_handed[i] <= h_lastID /\ (h_partial # 0 => h_handed[i] < h_partial)

(* Once the context is cancelled no stream starts. *)
StreamOK ==
    /\ OffersStream => h_stream # "refused"
    /\ h_closing = "waitNone" => h_stream = "none"
    /\ h_closing = "returned" => h_stream \in {"none", "refused", "stopped"}

HttpInv == Http!TypeOK /\ CallsOK /\ EventsOK /\ StreamOK

(* Setting a field of a call. *)
Places == {"idle", "posted", "asking", "answered", "initialize", "notify"}
Statuses == {"none", "asked", "ok", "expired", "refused", "failed"}

LEMMA HttpIdle ==
    /\ Http!Idle \in Http!CallType
    /\ Http!Idle.pc = "idle" /\ Http!Idle.kind = "tool" /\ Http!Idle.sid = 0
    /\ Http!Idle.status = "none"
  BY HttpAssumption DEF Http!Idle, Http!CallType

LEMMA HttpSetPc ==
    ASSUME NEW r \in Http!CallType, NEW x \in Places
    PROVE  /\ [r EXCEPT !.pc = x] \in Http!CallType
           /\ [r EXCEPT !.pc = x].pc = x
           /\ [r EXCEPT !.pc = x].kind = r.kind
           /\ [r EXCEPT !.pc = x].sid = r.sid
           /\ [r EXCEPT !.pc = x].status = r.status
  BY DEF Http!CallType, Places

LEMMA HttpSetKind ==
    ASSUME NEW r \in Http!CallType, NEW x \in {"tool", "list"}
    PROVE  /\ [r EXCEPT !.kind = x] \in Http!CallType
           /\ [r EXCEPT !.kind = x].pc = r.pc
           /\ [r EXCEPT !.kind = x].kind = x
           /\ [r EXCEPT !.kind = x].sid = r.sid
           /\ [r EXCEPT !.kind = x].status = r.status
  BY DEF Http!CallType

LEMMA HttpSetSid ==
    ASSUME NEW r \in Http!CallType, NEW x \in 0 .. MaxSessions
    PROVE  /\ [r EXCEPT !.sid = x] \in Http!CallType
           /\ [r EXCEPT !.sid = x].pc = r.pc
           /\ [r EXCEPT !.sid = x].kind = r.kind
           /\ [r EXCEPT !.sid = x].sid = x
           /\ [r EXCEPT !.sid = x].status = r.status
  BY DEF Http!CallType

LEMMA HttpSetStatus ==
    ASSUME NEW r \in Http!CallType, NEW x \in Statuses
    PROVE  /\ [r EXCEPT !.status = x] \in Http!CallType
           /\ [r EXCEPT !.status = x].pc = r.pc
           /\ [r EXCEPT !.status = x].kind = r.kind
           /\ [r EXCEPT !.status = x].sid = r.sid
           /\ [r EXCEPT !.status = x].status = x
  BY DEF Http!CallType, Statuses

LEMMA HttpSetAgain ==
    ASSUME NEW r \in Http!CallType
    PROVE  /\ [r EXCEPT !.again = TRUE] \in Http!CallType
           /\ [r EXCEPT !.again = TRUE].pc = r.pc
           /\ [r EXCEPT !.again = TRUE].kind = r.kind
           /\ [r EXCEPT !.again = TRUE].sid = r.sid
           /\ [r EXCEPT !.again = TRUE].status = r.status
  BY DEF Http!CallType

(* Move and Answer set one caller's call; whoever may then have its call   *)
(* run had not had it run.                                                 *)
MayRun(r) ==
    \/ r.pc \in {"posted", "asking"}
    \/ r.pc \in {"initialize", "notify"} /\ r.kind = "tool"
    \/ r.pc = "answered" /\ r.status = "expired"

LEMMA HttpMoved ==
    ASSUME HttpInv, NEW c \in Callers, NEW f \in Http!CallType, NEW pc \in Places,
           Http!Move(c, pc, f)
    PROVE  \E r \in Http!CallType :
              /\ h_call' = [h_call EXCEPT ![c] = r]
              /\ r.pc = pc /\ r.kind = f.kind /\ r.sid = f.sid /\ r.status = f.status
<1> DEFINE r == [f EXCEPT !.pc = pc]
<1>1. h_call' = [h_call EXCEPT ![c] = r]
  BY DEF Http!Move
<1>2. r \in Http!CallType /\ r.pc = pc /\ r.kind = f.kind /\ r.sid = f.sid /\ r.status = f.status
  BY HttpSetPc
<1> QED
  BY <1>1, <1>2

LEMMA HttpAnswered ==
    ASSUME HttpInv, NEW c \in Callers, NEW status \in Statuses, Http!Answer(c, status)
    PROVE  \E r \in Http!CallType :
              /\ h_call' = [h_call EXCEPT ![c] = r]
              /\ r.pc = "answered" /\ r.kind = h_call[c].kind /\ r.status = status
<1> DEFINE f == [h_call[c] EXCEPT !.pc = "answered"]
           r == [f EXCEPT !.status = status]
<1>1. h_call \in [Callers -> Http!CallType] /\ h_call[c] \in Http!CallType
  BY DEF HttpInv, Http!TypeOK
<1>2. h_call' = [h_call EXCEPT ![c] = r]
  BY <1>1 DEF Http!Answer
<1>3. f \in Http!CallType /\ f.pc = "answered" /\ f.kind = h_call[c].kind
  BY <1>1, HttpSetPc DEF Places
<1> HIDE DEF f
<1>4. r \in Http!CallType /\ r.pc = "answered" /\ r.kind = f.kind /\ r.status = status
  BY <1>3, HttpSetStatus
<1> QED
  BY <1>2, <1>3, <1>4

LEMMA HttpCarrying ==
    ASSUME HttpInv, NEW c \in Callers, NEW sid \in 0 .. MaxSessions
    PROVE  /\ Http!Carrying(c, sid) \in Http!CallType
           /\ Http!Carrying(c, sid).kind = h_call[c].kind
           /\ Http!Carrying(c, sid).status = "none"
<1> DEFINE f == [h_call[c] EXCEPT !.sid = sid]
           r == [f EXCEPT !.status = "none"]
<1>1. h_call[c] \in Http!CallType
  BY DEF HttpInv, Http!TypeOK
<1>2. Http!Carrying(c, sid) = r
  BY <1>1 DEF Http!Carrying
<1>3. f \in Http!CallType /\ f.kind = h_call[c].kind
  BY <1>1, HttpSetSid
<1> HIDE DEF f
<1>4. r \in Http!CallType /\ r.kind = f.kind /\ r.status = "none"
  BY <1>3, HttpSetStatus DEF Statuses
<1> QED
  BY <1>2, <1>3, <1>4

LEMMA HttpCallSet ==
    ASSUME HttpInv, NEW c \in Callers, NEW r \in Http!CallType,
           h_call' = [h_call EXCEPT ![c] = r],
           h_runs' \in [Callers -> 0 .. 1],
           \A d \in Callers : d # c => h_runs'[d] = h_runs[d],
           MayRun(r) => h_runs'[c] = 0
    PROVE  h_call' \in [Callers -> Http!CallType] /\ CallsOK'
<1>1. h_call \in [Callers -> Http!CallType]
  BY DEF HttpInv, Http!TypeOK
<1>2. /\ h_call' \in [Callers -> Http!CallType] /\ h_call'[c] = r
      /\ \A d \in Callers : d # c => h_call'[d] = h_call[d]
  BY <1>1
<1>3. \A d \in Callers : h_runs'[d] <= 1
  OBVIOUS
<1>4. ASSUME NEW d \in Callers, ToRun(d)' PROVE h_runs'[d] = 0
  <2>1. CASE d = c
    BY <1>2, <1>4, <2>1 DEF ToRun, MayRun
  <2>2. CASE d # c
    BY <1>2, <1>4, <2>2 DEF ToRun, HttpInv, CallsOK
  <2> QED
    BY <2>1, <2>2
<1> QED
  BY <1>2, <1>3, <1>4 DEF CallsOK

LEMMA HttpRuns ==
    ASSUME HttpInv
    PROVE  /\ h_runs \in [Callers -> 0 .. 1]
           /\ \A c \in Callers : h_call[c] \in Http!CallType /\ (MayRun(h_call[c]) => h_runs[c] = 0)
<1>1. h_runs \in [Callers -> 0 .. 2] /\ h_call \in [Callers -> Http!CallType]
  BY DEF HttpInv, Http!TypeOK
<1>2. \A c \in Callers : h_runs[c] <= 1 /\ (ToRun(c) => h_runs[c] = 0)
  BY DEF HttpInv, CallsOK
<1>3. \A c \in Callers : h_runs[c] \in 0 .. 1
  BY <1>1, <1>2
<1> QED
  BY <1>1, <1>2, <1>3 DEF ToRun, MayRun

(* The stream, the events and Close are not touched by most steps of a     *)
(* caller.                                                                 *)
LEMMA HttpCallerStep ==
    ASSUME HttpInv, h_call' \in [Callers -> Http!CallType], CallsOK',
           h_runs' \in [Callers -> 0 .. 1],
           h_session' \in 0 .. MaxSessions, h_ready' \in BOOLEAN,
           h_minted' \in 0 .. MaxSessions, h_live' \subseteq 1 .. h_minted',
           h_failures' \in 0 .. MaxFailures,
           UNCHANGED <<h_events, h_carried, h_lastID, h_partial, h_handed, h_closing>>,
           h_stream' = h_stream \/ (h_stream' = "connect" /\ h_closing = "open")
    PROVE  HttpInv'
<1>1. Http!TypeOK'
  BY DEF HttpInv, Http!TypeOK
<1>2. EventsOK'
  BY DEF HttpInv, EventsOK
<1>3. StreamOK'
  BY DEF HttpInv, StreamOK
<1> QED
  BY <1>1, <1>2, <1>3 DEF HttpInv

LEMMA HttpLaunch ==
    ASSUME HttpInv, NEW c \in Callers, Http!Launch(c)
    PROVE  HttpInv'
<1> DEFINE f == [Http!Idle EXCEPT !.kind = "list"]
<1>1. f \in Http!CallType /\ f.kind = "list"
  BY HttpIdle, HttpSetKind
<1> HIDE DEF f
<1>2. /\ Http!Move(c, "initialize", f)
      /\ UNCHANGED <<h_session, h_ready, h_runs, h_live, h_minted, h_failures, h_events, h_stream,
                     h_carried, h_lastID, h_partial, h_handed, h_closing>>
  BY DEF Http!Launch, Http!serverVars, Http!streamVars, f
<1>3. PICK r \in Http!CallType :
         h_call' = [h_call EXCEPT ![c] = r] /\ r.pc = "initialize" /\ r.kind = "list"
  BY <1>1, <1>2, HttpMoved DEF Places
<1>4. h_call' \in [Callers -> Http!CallType] /\ CallsOK'
  BY <1>2, <1>3, HttpCallSet, HttpRuns DEF MayRun
<1> QED
  BY <1>2, <1>4, HttpRuns, HttpCallerStep DEF HttpInv, Http!TypeOK

LEMMA HttpCall ==
    ASSUME HttpInv, NEW c \in Callers, NEW kind \in CallKinds, Http!Call(c, kind)
    PROVE  HttpInv'
<1> DEFINE g == [Http!Idle EXCEPT !.kind = kind]
           f == [g EXCEPT !.sid = h_session]
<1>1. g \in Http!CallType
  BY HttpIdle, HttpSetKind, HttpAssumption
<1> HIDE DEF g
<1>2. f \in Http!CallType
  BY <1>1, HttpSetSid DEF HttpInv, Http!TypeOK
<1> HIDE DEF f
<1>3. f = [Http!Idle EXCEPT !.kind = kind, !.sid = h_session]
  BY HttpIdle DEF f, g, Http!CallType
<1>4. /\ Http!Move(c, "posted", f)
      /\ h_runs' = [h_runs EXCEPT ![c] = 0]
      /\ UNCHANGED <<h_session, h_ready, h_live, h_minted, h_failures, h_events, h_stream,
                     h_carried, h_lastID, h_partial, h_handed, h_closing>>
  BY <1>3 DEF Http!Call, Http!serverVars, Http!streamVars
<1>5. PICK r \in Http!CallType : h_call' = [h_call EXCEPT ![c] = r] /\ r.pc = "posted"
  BY <1>2, <1>4, HttpMoved DEF Places
<1>6. /\ h_runs' \in [Callers -> 0 .. 1] /\ h_runs'[c] = 0
      /\ \A d \in Callers : d # c => h_runs'[d] = h_runs[d]
  BY <1>4, HttpRuns
<1>7. h_call' \in [Callers -> Http!CallType] /\ CallsOK'
  BY <1>5, <1>6, HttpCallSet
<1> QED
  BY <1>4, <1>6, <1>7, HttpCallerStep DEF HttpInv, Http!TypeOK

LEMMA HttpServe ==
    ASSUME HttpInv, NEW c \in Callers, Http!Serve(c)
    PROVE  HttpInv'
<1>1. /\ h_call[c].pc = "posted"
      /\ UNCHANGED <<h_session, h_ready, h_live, h_minted, h_events, h_stream,
                     h_carried, h_lastID, h_partial, h_handed, h_closing>>
  BY DEF Http!Serve, Http!streamVars
<1>2. h_runs[c] = 0 /\ h_runs \in [Callers -> 0 .. 1]
  BY <1>1, HttpRuns DEF MayRun
<1>3. PICK status \in Statuses :
         /\ Http!Answer(c, status)
         /\ \/ h_runs' = h_runs
            \/ h_runs' = [h_runs EXCEPT ![c] = @ + 1] /\ status # "expired"
  BY DEF Http!Serve, Statuses
<1>4. h_failures' \in 0 .. MaxFailures
  <2>1. h_failures \in 0 .. MaxFailures
    BY DEF HttpInv, Http!TypeOK
  <2>2. h_failures' = h_failures \/ (h_failures < MaxFailures /\ h_failures' = h_failures + 1)
    BY DEF Http!Serve
  <2> QED
    BY <2>1, <2>2, HttpAssumption
<1>5. PICK r \in Http!CallType :
         h_call' = [h_call EXCEPT ![c] = r] /\ r.pc = "answered" /\ r.status = status
  BY <1>3, HttpAnswered
<1>6. /\ h_runs' \in [Callers -> 0 .. 1]
      /\ \A d \in Callers : d # c => h_runs'[d] = h_runs[d]
      /\ status = "expired" => h_runs'[c] = 0
  BY <1>2, <1>3
<1>7. h_call' \in [Callers -> Http!CallType] /\ CallsOK'
  BY <1>5, <1>6, HttpCallSet DEF MayRun
<1> QED
  BY <1>1, <1>4, <1>6, <1>7, HttpCallerStep DEF HttpInv, Http!TypeOK

LEMMA HttpAskRespond ==
    ASSUME HttpInv, NEW c \in Callers, Http!Ask(c) \/ Http!Respond(c)
    PROVE  HttpInv'
<1>1. /\ h_call[c].pc \in {"posted", "asking"}
      /\ UNCHANGED <<h_session, h_ready, h_runs, h_live, h_minted, h_failures, h_events, h_stream,
                     h_carried, h_lastID, h_partial, h_handed, h_closing>>
  BY DEF Http!Ask, Http!Respond, Http!serverVars, Http!streamVars
<1>2. h_runs[c] = 0 /\ h_runs \in [Callers -> 0 .. 1] /\ h_call[c] \in Http!CallType
  BY <1>1, HttpRuns DEF MayRun
<1>3. \E r \in Http!CallType : h_call' = [h_call EXCEPT ![c] = r]
  <2> DEFINE f == [h_call[c] EXCEPT !.status = "asked"]
  <2>1. f \in Http!CallType
    BY <1>2, HttpSetStatus DEF Statuses
  <2> HIDE DEF f
  <2>2. CASE Http!Move(c, "asking", f)
    BY <2>1, <2>2, HttpMoved DEF Places
  <2>3. CASE Http!Move(c, "posted", h_call[c])
    BY <1>2, <2>3, HttpMoved DEF Places
  <2>4. CASE Http!Answer(c, "failed")
    BY <2>4, HttpAnswered DEF Statuses
  <2> QED
    BY <2>2, <2>3, <2>4 DEF Http!Ask, Http!Respond, f
<1>4. h_call' \in [Callers -> Http!CallType] /\ CallsOK'
  BY <1>1, <1>2, <1>3, HttpCallSet
<1> QED
  BY <1>1, <1>2, <1>4, HttpCallerStep DEF HttpInv, Http!TypeOK

LEMMA HttpReceive ==
    ASSUME HttpInv, NEW c \in Callers, Http!Receive(c)
    PROVE  HttpInv'
<1>1. /\ h_call[c].pc = "answered"
      /\ h_session' = IF h_call[c].status = "expired" THEN 0 ELSE h_session
      /\ \/ h_call[c].status = "expired" /\ Http!Move(c, "initialize", Http!Carrying(c, 0))
         \/ Http!Move(c, "idle", Http!Idle)
      /\ UNCHANGED <<h_ready, h_runs, h_live, h_minted, h_failures, h_events, h_stream,
                     h_carried, h_lastID, h_partial, h_handed, h_closing>>
  BY DEF Http!Receive, Http!Expired, Http!serverVars, Http!streamVars
<1>2. h_session' \in 0 .. MaxSessions
  BY <1>1, HttpAssumption DEF HttpInv, Http!TypeOK
<1>3. PICK r \in Http!CallType :
         /\ h_call' = [h_call EXCEPT ![c] = r]
         /\ MayRun(r) => h_call[c].status = "expired"
  <2>1. CASE h_call[c].status = "expired" /\ Http!Move(c, "initialize", Http!Carrying(c, 0))
    BY <2>1, HttpCarrying, HttpMoved, HttpAssumption DEF Places
  <2>2. CASE Http!Move(c, "idle", Http!Idle)
    BY <2>2, HttpIdle, HttpMoved DEF Places, MayRun
  <2> QED
    BY <1>1, <2>1, <2>2
<1>4. MayRun(r) => h_runs[c] = 0
  BY <1>1, <1>3, HttpRuns DEF MayRun
<1>5. h_call' \in [Callers -> Http!CallType] /\ CallsOK'
  BY <1>1, <1>3, <1>4, HttpRuns, HttpCallSet
<1> QED
  BY <1>1, <1>2, <1>5, HttpRuns, HttpCallerStep DEF HttpInv, Http!TypeOK

LEMMA HttpMin ==
    ASSUME NEW T \in SUBSET Nat, T # {}
    PROVE  Http!Min(T) \in T /\ \A y \in T : Http!Min(T) <= y
  BY Least DEF Http!Min

LEMMA HttpInitialize ==
    ASSUME HttpInv, NEW c \in Callers, Http!Initialize(c)
    PROVE  HttpInv'
<1> DEFINE s == Http!Min({h_minted + 1, MaxSessions})
<1>1. /\ h_minted \in 0 .. MaxSessions /\ h_live \subseteq 1 .. h_minted
      /\ h_failures \in 0 .. MaxFailures /\ h_session \in 0 .. MaxSessions /\ h_ready \in BOOLEAN
  BY DEF HttpInv, Http!TypeOK
<1>2. s \in 1 .. MaxSessions /\ h_minted <= s
  <2>1. {h_minted + 1, MaxSessions} \in SUBSET Nat
    BY <1>1, HttpAssumption
  <2>2. s \in {h_minted + 1, MaxSessions} /\ s <= MaxSessions
    BY <2>1, HttpMin
  <2> QED
    BY <1>1, <2>2, HttpAssumption
<1> HIDE DEF s
<1>3. /\ h_call[c].pc = "initialize"
      /\ \/ /\ h_minted' = s /\ h_session' = s /\ h_live' = h_live \cup {s} /\ h_failures' = h_failures
            /\ Http!Move(c, "notify", Http!Carrying(c, s))
         \/ /\ h_failures < MaxFailures /\ h_failures' = h_failures + 1
            /\ UNCHANGED <<h_session, h_live, h_minted>>
            /\ Http!Move(c, "idle", Http!Idle)
      /\ UNCHANGED <<h_ready, h_runs, h_events, h_stream,
                     h_carried, h_lastID, h_partial, h_handed, h_closing>>
  BY DEF Http!Initialize, Http!streamVars, s
<1>4. /\ h_session' \in 0 .. MaxSessions /\ h_minted' \in 0 .. MaxSessions
      /\ h_live' \subseteq 1 .. h_minted' /\ h_failures' \in 0 .. MaxFailures
  BY <1>1, <1>2, <1>3, HttpAssumption
<1>5. PICK r \in Http!CallType :
         /\ h_call' = [h_call EXCEPT ![c] = r]
         /\ MayRun(r) => h_call[c].kind = "tool"
  <2>1. CASE Http!Move(c, "notify", Http!Carrying(c, s))
    <3>1. s \in 0 .. MaxSessions
      BY <1>2
    <3> QED
      BY <2>1, <3>1, HttpCarrying, HttpMoved DEF Places, MayRun
  <2>2. CASE Http!Move(c, "idle", Http!Idle)
    BY <2>2, HttpIdle, HttpMoved DEF Places, MayRun
  <2> QED
    BY <1>3, <2>1, <2>2
<1>6. MayRun(r) => h_runs[c] = 0
  BY <1>3, <1>5, HttpRuns DEF MayRun
<1>7. h_call' \in [Callers -> Http!CallType] /\ CallsOK'
  BY <1>3, <1>5, <1>6, HttpRuns, HttpCallSet
<1> QED
  BY <1>1, <1>3, <1>4, <1>7, HttpRuns, HttpCallerStep

LEMMA HttpInitialized ==
    ASSUME HttpInv, NEW c \in Callers, Http!Initialized(c)
    PROVE  HttpInv'
<1> DEFINE f == Http!Carrying(c, h_session)
           g == [f EXCEPT !.again = TRUE]
<1>1. /\ h_minted \in 0 .. MaxSessions /\ h_live \subseteq 1 .. h_minted
      /\ h_failures \in 0 .. MaxFailures /\ h_session \in 0 .. MaxSessions /\ h_ready \in BOOLEAN
  BY DEF HttpInv, Http!TypeOK
<1>2. f \in Http!CallType /\ f.kind = h_call[c].kind
  BY <1>1, HttpCarrying
<1> HIDE DEF f
<1>3. g \in Http!CallType /\ g.kind = f.kind
  BY <1>2, HttpSetAgain
<1> HIDE DEF g
<1>4. /\ h_call[c].pc = "notify"
      /\ \/ h_call[c].kind = "tool" /\ Http!Move(c, "posted", g)
         \/ Http!Move(c, "idle", Http!Idle)
      /\ h_ready' \in {h_ready, TRUE}
      /\ h_stream' = h_stream \/ (h_stream' = "connect" /\ h_closing = "open")
      /\ h_failures' = h_failures \/ (h_failures < MaxFailures /\ h_failures' = h_failures + 1)
      /\ UNCHANGED <<h_session, h_runs, h_live, h_minted, h_events,
                     h_carried, h_lastID, h_partial, h_handed, h_closing>>
  BY DEF Http!Initialized, Http!StartStream, f, g
<1>5. /\ h_failures' \in 0 .. MaxFailures
      /\ h_ready' \in BOOLEAN
  <2>1. h_failures' \in 0 .. MaxFailures
    BY <1>1, <1>4, HttpAssumption
  <2>2. h_ready' \in BOOLEAN
    BY <1>1, <1>4
  <2> QED
    BY <2>1, <2>2
<1>6. PICK r \in Http!CallType :
         /\ h_call' = [h_call EXCEPT ![c] = r]
         /\ MayRun(r) => h_call[c].kind = "tool"
  <2>1. CASE h_call[c].kind = "tool" /\ Http!Move(c, "posted", g)
    BY <1>3, <2>1, HttpMoved DEF Places
  <2>2. CASE Http!Move(c, "idle", Http!Idle)
    BY <2>2, HttpIdle, HttpMoved DEF Places, MayRun
  <2> QED
    BY <1>4, <2>1, <2>2
<1>7. MayRun(r) => h_runs[c] = 0
  BY <1>4, <1>6, HttpRuns DEF MayRun
<1>8. h_call' \in [Callers -> Http!CallType] /\ CallsOK'
  BY <1>4, <1>6, <1>7, HttpRuns, HttpCallSet
<1> QED
  BY <1>1, <1>4, <1>5, <1>8, HttpRuns, HttpCallerStep

(* The steps of the stream that hand nothing over. *)
LEMMA HttpStreamMoves ==
    ASSUME HttpInv,
           Http!StreamGet \/ Http!StreamAnswer \/ Http!Reconnect \/ Http!StreamEnds \/ Http!StreamStops
    PROVE  HttpInv'
<1>1. /\ h_session \in 0 .. MaxSessions /\ h_carried \in 0 .. MaxSessions
      /\ h_failures \in 0 .. MaxFailures /\ h_partial \in 0 .. MaxEvents
  BY DEF HttpInv, Http!TypeOK
<1>2. /\ UNCHANGED <<h_session, h_ready, h_call, h_runs, h_live, h_minted, h_lastID, h_handed,
                     h_events, h_closing>>
      /\ h_carried' \in {h_carried, h_session} /\ h_partial' \in {h_partial, 0}
      /\ h_failures' = h_failures \/ (h_failures < MaxFailures /\ h_failures' = h_failures + 1)
      /\ h_stream' \in {"connect", "asked", "open", "backoff", "refused", "stopped"}
      /\ h_stream' = "refused" => ~OffersStream
      /\ \/ h_closing = "open"
         \/ h_closing # "open" /\ h_stream \notin {"none", "refused", "stopped"} /\ h_stream' = "stopped"
  BY DEF Http!StreamGet, Http!StreamAnswer, Http!Reconnect, Http!StreamEnds, Http!StreamStops,
         Http!clientVars, Http!serverVars
<1>3. /\ h_carried' \in 0 .. MaxSessions /\ h_failures' \in 0 .. MaxFailures
      /\ h_partial' \in 0 .. MaxEvents
  BY <1>1, <1>2, HttpAssumption
<1>4. Http!TypeOK'
  BY <1>2, <1>3 DEF HttpInv, Http!TypeOK
<1>5. CallsOK'
  BY <1>2 DEF HttpInv, CallsOK, ToRun
<1>6. EventsOK'
  BY <1>2 DEF HttpInv, EventsOK
<1>7. StreamOK'
  BY <1>2 DEF HttpInv, StreamOK
<1> QED
  BY <1>4, <1>5, <1>6, <1>7 DEF HttpInv

LEMMA HttpReadID ==
    ASSUME HttpInv, Http!ReadID
    PROVE  HttpInv'
<1> DEFINE k == Http!Min(Http!Unsent)
<1>1. /\ h_lastID \in 0 .. MaxEvents /\ h_partial = 0
      /\ h_handed \in Seq(1 .. MaxEvents) /\ Len(h_events) \in Nat /\ Len(h_events) <= MaxEvents
  BY DEF HttpInv, Http!TypeOK, Http!ReadID
<1>2. k \in 1 .. MaxEvents /\ h_lastID < k
  <2>1. Http!Unsent \in SUBSET Nat /\ Http!Unsent # {}
    BY <1>1 DEF Http!Unsent, Http!ReadID
  <2>2. k \in Http!Unsent
    BY <2>1, HttpMin
  <2> QED
    BY <1>1, <2>2, HttpAssumption DEF Http!Unsent
<1>3. /\ h_lastID' = k /\ h_partial' = k
      /\ UNCHANGED <<h_session, h_ready, h_call, h_runs, h_live, h_minted, h_failures,
                     h_stream, h_carried, h_handed, h_events, h_closing>>
  BY DEF Http!ReadID, Http!clientVars, Http!serverVars
<1> HIDE DEF k
<1>4. k \in 0 .. MaxEvents
  BY <1>2
<1>5. Http!TypeOK'
  BY <1>3, <1>4 DEF HttpInv, Http!TypeOK
<1>6. EventsOK'
  <2>1. \A i \in 1 .. Len(h_handed) : h_handed[i] \in 1 .. MaxEvents
    BY <1>1, ElementOfSeq
  <2>2. \A i \in 1 .. Len(h_handed) : h_handed[i] <= h_lastID
    BY DEF HttpInv, EventsOK
  <2>3. \A i \in 1 .. Len(h_handed) : h_handed[i] < k
    BY <1>1, <1>2, <2>1, <2>2
  <2>4. \A i \in 1 .. Len(h_handed) : h_handed[i] <= k
    BY <1>2, <2>1, <2>3
  <2> QED
    BY <1>3, <2>3, <2>4 DEF HttpInv, EventsOK
<1>7. CallsOK'
  BY <1>3 DEF HttpInv, CallsOK, ToRun
<1>8. StreamOK'
  BY <1>3 DEF HttpInv, StreamOK
<1> QED
  BY <1>5, <1>6, <1>7, <1>8 DEF HttpInv

LEMMA HttpReadData ==
    ASSUME HttpInv, Http!ReadData
    PROVE  HttpInv'
<1>1. /\ h_partial \in 1 .. MaxEvents /\ h_handed \in Seq(1 .. MaxEvents)
      /\ h_partial = h_lastID /\ h_lastID \in 0 .. MaxEvents
  <2>1. h_partial \in 0 .. MaxEvents /\ h_handed \in Seq(1 .. MaxEvents) /\ h_lastID \in 0 .. MaxEvents
    BY DEF HttpInv, Http!TypeOK
  <2>2. h_partial # 0 /\ h_partial = h_lastID
    BY DEF HttpInv, EventsOK, Http!ReadData
  <2> QED
    BY <2>1, <2>2, HttpAssumption
<1>2. /\ h_handed' = Append(h_handed, h_partial) /\ h_partial' = 0
      /\ UNCHANGED <<h_session, h_ready, h_call, h_runs, h_live, h_minted, h_failures,
                     h_stream, h_carried, h_lastID, h_events, h_closing>>
  BY DEF Http!ReadData, Http!clientVars, Http!serverVars
<1>3. /\ h_handed' \in Seq(1 .. MaxEvents) /\ Len(h_handed') = Len(h_handed) + 1
      /\ Len(h_handed) \in Nat /\ h_handed'[Len(h_handed) + 1] = h_partial
      /\ \A i \in 1 .. Len(h_handed) : h_handed'[i] = h_handed[i] /\ h_handed[i] \in 1 .. MaxEvents
  <2> DEFINE Ids == 1 .. MaxEvents
  <2>1. h_partial \in Ids /\ h_handed \in Seq(Ids)
    BY <1>1
  <2> HIDE DEF Ids
  <2>2. /\ Append(h_handed, h_partial) \in Seq(Ids)
        /\ Len(Append(h_handed, h_partial)) = Len(h_handed) + 1
        /\ Len(h_handed) \in Nat
        /\ Append(h_handed, h_partial)[Len(h_handed) + 1] = h_partial
        /\ \A i \in 1 .. Len(h_handed) :
              Append(h_handed, h_partial)[i] = h_handed[i] /\ h_handed[i] \in Ids
    BY <2>1, Queueing
  <2> QED
    BY <1>2, <2>2 DEF Ids
<1>4. Http!TypeOK'
  BY <1>2, <1>3, HttpAssumption DEF HttpInv, Http!TypeOK
<1>5. EventsOK'
  <2>1. /\ \A i \in 1 .. Len(h_handed) - 1 : h_handed[i] < h_handed[i + 1]
        /\ \A i \in 1 .. Len(h_handed) : h_handed[i] <= h_lastID /\ h_handed[i] < h_partial
    BY <1>1 DEF HttpInv, EventsOK
  <2>2. \A i \in 1 .. Len(h_handed') - 1 : h_handed'[i] < h_handed'[i + 1]
    <3> SUFFICES ASSUME NEW i \in 1 .. Len(h_handed') - 1
                 PROVE  h_handed'[i] < h_handed'[i + 1]
      OBVIOUS
    <3>1. CASE i = Len(h_handed)
      BY <1>3, <2>1, <3>1
    <3>2. CASE i # Len(h_handed)
      BY <1>3, <2>1, <3>2
    <3> QED
      BY <3>1, <3>2
  <2>3. \A i \in 1 .. Len(h_handed') : h_handed'[i] <= h_lastID'
    <3> SUFFICES ASSUME NEW i \in 1 .. Len(h_handed') PROVE h_handed'[i] <= h_lastID
      BY <1>2
    <3>1. CASE i = Len(h_handed) + 1
      BY <1>1, <1>3, <3>1
    <3>2. CASE i # Len(h_handed) + 1
      BY <1>3, <2>1, <3>2
    <3> QED
      BY <3>1, <3>2
  <2> QED
    BY <1>2, <2>2, <2>3 DEF EventsOK
<1>6. CallsOK'
  BY <1>2 DEF HttpInv, CallsOK, ToRun
<1>7. StreamOK'
  BY <1>2 DEF HttpInv, StreamOK
<1> QED
  BY <1>4, <1>5, <1>6, <1>7 DEF HttpInv

LEMMA HttpEnvironment ==
    ASSUME HttpInv,
           \/ \E s \in Http!Sessions : Http!Expire(s) \/ Http!Push(s)
           \/ Http!Cancel \/ Http!ReadDone \/ Http!Closed
    PROVE  HttpInv'
<1>1. UNCHANGED <<h_session, h_ready, h_call, h_runs, h_minted, h_failures,
                  h_stream, h_carried, h_lastID, h_partial, h_handed>>
  BY DEF Http!Expire, Http!Push, Http!Cancel, Http!ReadDone, Http!Closed, Http!clientVars,
         Http!serverVars, Http!streamVars
<1>2. h_live' \subseteq h_live
  BY DEF Http!Expire, Http!Push, Http!Cancel, Http!ReadDone, Http!Closed, Http!serverVars
<1>3. h_events' \in Seq(1 .. MaxSessions) /\ Len(h_events') <= MaxEvents
  <2>1. h_events \in Seq(1 .. MaxSessions) /\ Len(h_events) <= MaxEvents /\ Len(h_events) \in Nat
    BY DEF HttpInv, Http!TypeOK, Http!Sessions
  <2>2. ASSUME NEW s \in Http!Sessions, Http!Push(s)
        PROVE  h_events' \in Seq(1 .. MaxSessions) /\ Len(h_events') <= MaxEvents
    BY <2>1, <2>2, AppendProperties, HttpAssumption DEF Http!Push, Http!Sessions
  <2>3. h_events' = h_events \/ \E s \in Http!Sessions : Http!Push(s)
    BY DEF Http!Expire, Http!Cancel, Http!ReadDone, Http!Closed
  <2> QED
    BY <2>1, <2>2, <2>3
<1>4. /\ h_closing' \in {"open", "cancelled", "waitNone", "waitStream", "returned"}
      /\ h_closing' = "waitNone" => h_stream = "none" \/ h_closing = "waitNone"
      /\ h_closing' = "returned" =>
            h_closing \in {"waitNone", "returned"} \/ h_stream \in {"refused", "stopped"}
  BY DEF Http!Expire, Http!Push, Http!Cancel, Http!ReadDone, Http!Closed, HttpInv, Http!TypeOK
<1>5. Http!TypeOK'
  BY <1>1, <1>2, <1>3, <1>4 DEF HttpInv, Http!TypeOK, Http!Sessions
<1>6. CallsOK' /\ EventsOK'
  BY <1>1 DEF HttpInv, CallsOK, ToRun, EventsOK
<1>7. StreamOK'
  BY <1>1, <1>4 DEF HttpInv, StreamOK
<1> QED
  BY <1>5, <1>6, <1>7 DEF HttpInv

LEMMA HttpPreserved ==
    ASSUME HttpInv, Http!Next \/ UNCHANGED httpVars
    PROVE  HttpInv'
<1>1. CASE Http!Next
  BY <1>1, HttpLaunch, HttpCall, HttpServe, HttpAskRespond, HttpReceive, HttpInitialize,
     HttpInitialized, HttpStreamMoves, HttpReadID, HttpReadData, HttpEnvironment
     DEF Http!Next, Http!Progress, Http!Stream
<1>2. CASE UNCHANGED httpVars
  BY <1>2 DEF httpVars, HttpInv, Http!TypeOK, CallsOK, ToRun, EventsOK, StreamOK
<1> QED
  BY <1>1, <1>2

(* A step of the component, or of others. *)
LEMMA HttpGoes ==
    ASSUME [Http!Next]_(Http!vars)
    PROVE  Http!Next \/ UNCHANGED httpVars
  BY DEF Http!vars, Http!clientVars, Http!serverVars, Http!streamVars, httpVars

LEMMA HttpStart == Http!Init => HttpInv
<1> SUFFICES ASSUME Http!Init PROVE HttpInv
  OBVIOUS
<1>1. Http!TypeOK
  <2>1. /\ h_call \in [Callers -> Http!CallType] /\ h_runs \in [Callers -> 0 .. 2]
        /\ h_events \in Seq(Http!Sessions) /\ h_handed \in Seq(1 .. MaxEvents)
    BY HttpIdle DEF Http!Init
  <2>2. h_live \subseteq 1 .. h_minted /\ Len(h_events) <= MaxEvents
    BY EmptySeq, HttpAssumption DEF Http!Init
  <2>3. /\ {h_session, h_minted, h_carried} \subseteq 0 .. MaxSessions
        /\ h_failures \in 0 .. MaxFailures /\ {h_lastID, h_partial} \subseteq 0 .. MaxEvents
    BY HttpAssumption DEF Http!Init
  <2> QED
    BY <2>1, <2>2, <2>3 DEF Http!Init, Http!TypeOK
<1>2. CallsOK
  BY HttpIdle DEF Http!Init, CallsOK, ToRun
<1>3. EventsOK /\ StreamOK
  BY EmptySeq DEF Http!Init, EventsOK, StreamOK
<1> QED
  BY <1>1, <1>2, <1>3 DEF HttpInv

(* Over the connection to an HTTP upstream no call runs twice, nothing is  *)
(* handed in twice or out of order, and Close leaves no stream, whatever   *)
(* sessions expire and whatever fails (http.go).                           *)
THEOREM ConnectionAlone == Http!Safety => []ConnectionIsFaithful
<1>1. HttpInv => ConnectionIsFaithful
  BY DEF HttpInv, CallsOK, EventsOK, StreamOK, ConnectionIsFaithful, Http!ExecutedOnce,
         Http!HandedInOrder, Http!PushIsNotGivenUp, Http!StreamEndsWithClose
<1>2. HttpInv /\ [Http!Next]_(Http!vars) => HttpInv'
  BY HttpGoes, HttpPreserved
<1> QED
  BY <1>1, <1>2, HttpStart, PTL DEF Http!Safety

(* ... and so it is beside the other components. *)
THEOREM HttpIsFaithful == PartsSpec => []ConnectionIsFaithful
  BY ConnectionAlone, PartsRun

-----------------------------------------------------------------------------
(* StdioServe. *)

Needs(i) == Stdio!NeedsRegistry(s_sent[i])

(* The first frame that needs the registry started it, and the upstreams   *)
(* were told what that frame says.                                         *)
Opened(k) ==
    /\ Needs(k) /\ s_declared = s_sent[k].able
    /\ \A j \in 1 .. k - 1 : ~Needs(j)

(* What is being written: a failure to start, a reply nobody else writes,  *)
(* or a push to a client that has been greeted.                            *)
Failure == s_out = <<"failure">> /\ s_read >= 1 /\ s_read \notin s_running /\ s_replies[s_read] = 0
Reply(i) == s_out = <<"reply", i>> /\ i \in 1 .. s_read /\ i \notin s_running /\ s_replies[i] = 0
Push == s_initialized /\ s_out[1] \in {"change", "note", "ask"}

FramesTyped ==
    /\ s_sent \in Seq(ClientFrames) /\ Len(s_sent) <= MaxFrames
    /\ s_read \in 0 .. Len(s_sent)
    /\ s_running \subseteq 1 .. s_read
    /\ s_replies \in [Stdio!Frames -> Nat]

RepliesOK ==
    /\ \A i \in Stdio!Frames : s_replies[i] <= 1
    /\ \A i \in Stdio!Frames : i > s_read \/ i \in s_running => s_replies[i] = 0
    /\ s_loop = "write" => Failure \/ (\E i \in Stdio!Frames : Reply(i)) \/ Push

GateOK ==
    /\ s_initialized => s_greeted
    /\ ~s_early

StartOK ==
    /\ s_started => \E k \in 1 .. s_read : Opened(k)
    /\ ~s_started /\ s_loop # "ended" /\ ~(s_loop = "write" /\ Failure) =>
          \A j \in 1 .. s_read : ~Needs(j)
    /\ s_loop = "start" =>
          /\ ~s_started /\ s_read < Len(s_sent) /\ Needs(s_read + 1)
          /\ s_clientCaps = s_sent[s_read + 1].able

StdioInv == FramesTyped /\ RepliesOK /\ GateOK /\ StartOK

(* Steps of the client, the registry and the loop that take no frame and   *)
(* write nothing that has been begun.                                      *)
LEMMA StdioSend ==
    ASSUME StdioInv, NEW f \in ClientFrames, Stdio!Send(f)
    PROVE  StdioInv'
<1>1. /\ s_sent' = Append(s_sent, f) /\ Len(s_sent) < MaxFrames
      /\ UNCHANGED <<s_loop, s_out, s_initialized, s_started, s_running, s_read,
                     s_clientCaps, s_declared, s_replies, s_greeted, s_early>>
  BY DEF Stdio!Send, Stdio!gates, Stdio!registry, Stdio!seen
<1>2. /\ s_sent' \in Seq(ClientFrames) /\ Len(s_sent') = Len(s_sent) + 1 /\ Len(s_sent) \in Nat
      /\ \A i \in 1 .. Len(s_sent) : s_sent'[i] = s_sent[i]
  BY <1>1, Queueing DEF StdioInv, FramesTyped
<1>3. s_read \in 0 .. Len(s_sent)
  BY DEF StdioInv, FramesTyped
<1>4. \A i \in 1 .. Len(s_sent) : Needs(i)' = Needs(i)
  BY <1>2 DEF Needs
<1>5. FramesTyped'
  BY <1>1, <1>2, <1>3, StdioAssumption DEF StdioInv, FramesTyped
<1>6. RepliesOK' /\ GateOK'
  BY <1>1 DEF StdioInv, RepliesOK, GateOK, Failure, Reply, Push
<1>7. \A k \in 1 .. s_read : Opened(k) => Opened(k)'
  <2> SUFFICES ASSUME NEW k \in 1 .. s_read, Opened(k) PROVE Opened(k)'
    OBVIOUS
  <2>1. k \in 1 .. Len(s_sent) /\ \A j \in 1 .. k - 1 : j \in 1 .. Len(s_sent)
    BY <1>2, <1>3
  <2> QED
    BY <1>1, <1>2, <1>4, <2>1 DEF Opened
<1>8. (s_loop = "write" /\ Failure)' <=> s_loop = "write" /\ Failure
  BY <1>1 DEF Failure
<1>9. StartOK'
  <2>1. s_started' => \E k \in 1 .. s_read' : Opened(k)'
    BY <1>1, <1>7 DEF StdioInv, StartOK
  <2>2. ~s_started' /\ s_loop' # "ended" /\ ~(s_loop = "write" /\ Failure)' =>
          \A j \in 1 .. s_read' : ~Needs(j)'
    <3>1. \A j \in 1 .. s_read : Needs(j)' = Needs(j)
      BY <1>2, <1>3, <1>4
    <3> QED
      BY <1>1, <1>8, <3>1 DEF StdioInv, StartOK
  <2>3. s_loop' = "start" =>
          /\ ~s_started' /\ s_read' < Len(s_sent') /\ Needs(s_read + 1)'
          /\ s_clientCaps' = s_sent'[s_read' + 1].able
    <3> SUFFICES ASSUME s_loop = "start"
                 PROVE  /\ ~s_started /\ s_read < Len(s_sent') /\ Needs(s_read + 1)'
                        /\ s_clientCaps = s_sent'[s_read + 1].able
      BY <1>1
    <3>1. /\ ~s_started /\ s_read < Len(s_sent) /\ Needs(s_read + 1)
          /\ s_clientCaps = s_sent[s_read + 1].able
      BY DEF StdioInv, StartOK
    <3>2. s_read + 1 \in 1 .. Len(s_sent)
      BY <1>2, <1>3, <3>1
    <3>3. s_sent'[s_read + 1] = s_sent[s_read + 1]
      BY <1>2, <3>2
    <3>4. Needs(s_read + 1)'
      BY <1>1, <3>1, <3>3 DEF Needs
    <3> QED
      BY <1>2, <1>3, <3>1, <3>3, <3>4
  <2> QED
    BY <2>1, <2>2, <2>3 DEF StartOK
<1> QED
  BY <1>5, <1>6, <1>9 DEF StdioInv

(* Whatever leaves the frames, their replies and the loop's own part of    *)
(* the state alone.                                                        *)
LEMMA StdioQuiet ==
    ASSUME StdioInv,
           UNCHANGED <<s_sent, s_loop, s_out, s_initialized, s_started, s_running, s_read,
                       s_clientCaps, s_declared, s_replies, s_greeted, s_early>>
    PROVE  StdioInv'
  BY DEF StdioInv, FramesTyped, RepliesOK, GateOK, StartOK, Failure, Reply, Push, Opened, Needs

(* The loop comes to an end, or starts to write a push.                    *)
LEMMA StdioTurns ==
    ASSUME StdioInv,
           UNCHANGED <<s_sent, s_initialized, s_started, s_running, s_read,
                       s_clientCaps, s_declared, s_replies, s_greeted, s_early>>,
           \/ s_loop' = "ended"
           \/ s_loop = "select" /\ s_loop' = "write" /\ Push'
    PROVE  StdioInv'
<1>1. FramesTyped' /\ GateOK'
  BY DEF StdioInv, FramesTyped, GateOK
<1>2. RepliesOK'
  BY DEF StdioInv, RepliesOK
<1>3. \A k \in 1 .. s_read : Opened(k)' = Opened(k) /\ Needs(k)' = Needs(k)
  BY DEF Opened, Needs
<1>4. StartOK'
  BY <1>3 DEF StdioInv, StartOK
<1> QED
  BY <1>1, <1>2, <1>4 DEF StdioInv

LEMMA StdioPushes ==
    ASSUME StdioInv,
           Stdio!CatalogChanged \/ Stdio!Notification \/ Stdio!ServerReq
    PROVE  StdioInv'
<1>1. /\ s_loop = "select"
      /\ UNCHANGED <<s_sent, s_initialized, s_started, s_running, s_read,
                     s_clientCaps, s_declared, s_replies, s_greeted, s_early>>
  BY DEF Stdio!CatalogChanged, Stdio!Notification, Stdio!ServerReq, Stdio!Idle, Stdio!client,
         Stdio!gates, Stdio!seen
<1>2. \/ UNCHANGED <<s_loop, s_out>>
      \/ s_loop' = "write" /\ Push'
  BY <1>1 DEF Stdio!CatalogChanged, Stdio!Notification, Stdio!ServerReq, Stdio!Write, Push
<1> QED
  BY <1>1, <1>2, StdioQuiet, StdioTurns

LEMMA StdioEnds ==
    ASSUME StdioInv, Stdio!CtxDone \/ Stdio!Disconnected \/ Stdio!Bail
    PROVE  StdioInv'
  BY StdioTurns DEF Stdio!CtxDone, Stdio!Disconnected, Stdio!Bail, Stdio!End, Stdio!client,
                    Stdio!gates, Stdio!registry, Stdio!seen

LEMMA StdioBeginStart ==
    ASSUME StdioInv, Stdio!BeginStart
    PROVE  StdioInv'
<1>1. /\ s_loop = "select" /\ s_read < Len(s_sent) /\ ~s_started /\ Needs(s_read + 1)
      /\ s_loop' = "start" /\ s_clientCaps' = s_sent[s_read + 1].able
      /\ UNCHANGED <<s_sent, s_out, s_initialized, s_started, s_running, s_read,
                     s_declared, s_replies, s_greeted, s_early>>
  BY DEF Stdio!BeginStart, Stdio!Idle, Stdio!client, Stdio!gates, Stdio!seen, Needs
<1>2. FramesTyped' /\ GateOK'
  BY <1>1 DEF StdioInv, FramesTyped, GateOK
<1>3. RepliesOK'
  BY <1>1 DEF StdioInv, RepliesOK
<1>4. StartOK'
  BY <1>1 DEF StdioInv, StartOK, Needs
<1> QED
  BY <1>2, <1>3, <1>4 DEF StdioInv

(* Taking a frame, but for what it means to the start. *)
LEMMA StdioHandled ==
    ASSUME StdioInv, s_loop \in {"select", "start"}, s_read < Len(s_sent),
           NEW i, i = s_read + 1, Stdio!Handle(i)
    PROVE  /\ FramesTyped' /\ RepliesOK' /\ GateOK'
           /\ s_read' = i /\ s_sent' = s_sent
           /\ s_loop' \in {"select", "write"} /\ ~Failure'
           /\ i \in Stdio!Frames
<1>1. /\ s_sent \in Seq(ClientFrames) /\ Len(s_sent) \in Nat /\ Len(s_sent) <= MaxFrames
      /\ s_read \in 0 .. Len(s_sent) /\ s_running \subseteq 1 .. s_read
  BY DEF StdioInv, FramesTyped
<1>2. /\ i \in 1 .. Len(s_sent) /\ i \in 0 .. Len(s_sent) /\ i \in Stdio!Frames
      /\ i > s_read /\ i \notin s_running /\ i \in 1 .. i /\ 1 .. s_read \subseteq 1 .. i
  BY <1>1, StdioAssumption DEF Stdio!Frames
<1>3. s_replies[i] = 0
  BY <1>2 DEF StdioInv, RepliesOK
<1>4. /\ s_read' = i
      /\ \/ s_running' = s_running \cup {i} /\ s_loop' = "select" /\ s_out' = <<"none">>
         \/ s_running' = s_running /\ s_loop' = "select" /\ s_out' = <<"none">>
         \/ s_running' = s_running /\ s_loop' = "write" /\ s_out' = <<"reply", i>>
      /\ UNCHANGED <<s_sent, s_initialized, s_replies, s_greeted, s_early>>
  BY DEF Stdio!Handle, Stdio!Write, Stdio!Select, Stdio!Nothing, Stdio!client, Stdio!seen
<1>5. FramesTyped'
  <2>1. s_running' \subseteq s_running \cup {i}
    BY <1>4
  <2>2. s_running' \subseteq 1 .. i
    BY <1>1, <1>2, <2>1
  <2> QED
    BY <1>2, <1>4, <2>2 DEF StdioInv, FramesTyped
<1>6. GateOK'
  BY <1>4 DEF StdioInv, GateOK
<1>7. RepliesOK'
  <2>1. \A j \in Stdio!Frames : s_replies'[j] <= 1
    BY <1>4 DEF StdioInv, RepliesOK
  <2>2. ASSUME NEW j \in Stdio!Frames, j > s_read' \/ j \in s_running' PROVE s_replies'[j] = 0
    <3>1. j > s_read \/ j \in s_running \/ j = i
      BY <1>1, <1>4, <2>2, StdioAssumption DEF Stdio!Frames
    <3> QED
      BY <1>3, <1>4, <3>1 DEF StdioInv, RepliesOK
  <2>3. s_loop' = "write" => Reply(i)'
    BY <1>2, <1>3, <1>4 DEF Reply
  <2> QED
    BY <1>2, <2>1, <2>2, <2>3 DEF RepliesOK
<1>8. ~Failure'
  BY <1>4 DEF Failure
<1> QED
  BY <1>2, <1>4, <1>5, <1>6, <1>7, <1>8

LEMMA StdioFrame ==
    ASSUME StdioInv, Stdio!Frame
    PROVE  StdioInv'
<1>1. /\ s_loop = "select" /\ s_read < Len(s_sent) /\ Stdio!Handle(s_read + 1)
      /\ s_started \/ ~Needs(s_read + 1)
      /\ UNCHANGED <<s_started, s_declared>>
  BY DEF Stdio!Frame, Stdio!Idle, Needs
<1>2. /\ FramesTyped' /\ RepliesOK' /\ GateOK'
      /\ s_read' = s_read + 1 /\ s_sent' = s_sent
      /\ s_loop' \in {"select", "write"} /\ ~Failure'
  BY <1>1, StdioHandled
<1>3. s_read \in Nat
  BY DEF StdioInv, FramesTyped
<1>4. StartOK'
  <2>1. s_started' => \E k \in 1 .. s_read' : Opened(k)'
    <3> SUFFICES ASSUME s_started PROVE \E k \in 1 .. s_read' : Opened(k)'
      BY <1>1
    <3>1. PICK k \in 1 .. s_read : Opened(k)
      BY DEF StdioInv, StartOK
    <3>2. k \in 1 .. s_read' /\ Opened(k)'
      BY <1>1, <1>2, <1>3, <3>1 DEF Opened, Needs
    <3> QED
      BY <3>2
  <2>2. ~s_started' => \A j \in 1 .. s_read' : ~Needs(j)'
    <3> SUFFICES ASSUME ~s_started, NEW j \in 1 .. s_read + 1 PROVE ~Needs(j)
      BY <1>1, <1>2 DEF Needs
    <3>1. \A k \in 1 .. s_read : ~Needs(k)
      BY <1>1 DEF StdioInv, StartOK
    <3>2. j \in 1 .. s_read \/ j = s_read + 1
      BY <1>3
    <3> QED
      BY <1>1, <3>1, <3>2
  <2> QED
    BY <1>2, <2>1, <2>2 DEF StartOK
<1> QED
  BY <1>2, <1>4 DEF StdioInv

LEMMA StdioStarted ==
    ASSUME StdioInv, Stdio!Started
    PROVE  StdioInv'
<1>1. PICK i : i = s_read + 1
  OBVIOUS
<1>2. /\ s_loop = "start" /\ Stdio!Handle(i)
      /\ s_started' = TRUE /\ s_declared' = s_clientCaps
  BY <1>1 DEF Stdio!Started
<1>3. /\ s_read < Len(s_sent) /\ Needs(i) /\ s_clientCaps = s_sent[i].able
      /\ \A j \in 1 .. s_read : ~Needs(j)
  BY <1>1, <1>2 DEF StdioInv, StartOK
<1>4. /\ FramesTyped' /\ RepliesOK' /\ GateOK'
      /\ s_read' = i /\ s_sent' = s_sent
      /\ s_loop' \in {"select", "write"}
  BY <1>1, <1>2, <1>3, StdioHandled
<1>5. i \in 1 .. i /\ 1 .. i - 1 = 1 .. s_read
  BY <1>1 DEF StdioInv, FramesTyped
<1>6. Opened(i)'
  BY <1>2, <1>3, <1>4, <1>5 DEF Opened, Needs
<1>7. StartOK'
  <2>1. \E k \in 1 .. s_read' : Opened(k)'
    BY <1>4, <1>5, <1>6
  <2> QED
    BY <1>2, <1>4, <2>1 DEF StartOK
<1> QED
  BY <1>4, <1>7 DEF StdioInv

LEMMA StdioStartFails ==
    ASSUME StdioInv, Stdio!StartFails
    PROVE  StdioInv'
<1>1. /\ s_loop = "start" /\ s_loop' = "write" /\ s_out' = <<"failure">> /\ s_read' = s_read + 1
      /\ UNCHANGED <<s_sent, s_initialized, s_started, s_running,
                     s_clientCaps, s_declared, s_replies, s_greeted, s_early>>
  BY DEF Stdio!StartFails, Stdio!Write, Stdio!client, Stdio!registry, Stdio!seen
<1>2. ~s_started /\ s_read < Len(s_sent)
  BY <1>1 DEF StdioInv, StartOK
<1>3. /\ Len(s_sent) \in Nat /\ Len(s_sent) <= MaxFrames
      /\ s_read \in 0 .. Len(s_sent) /\ s_running \subseteq 1 .. s_read
  BY DEF StdioInv, FramesTyped
<1>4. /\ s_read + 1 \in 0 .. Len(s_sent) /\ s_read + 1 \in Stdio!Frames
      /\ s_running \subseteq 1 .. s_read + 1 /\ s_read + 1 \notin s_running
  BY <1>2, <1>3, StdioAssumption DEF Stdio!Frames
<1>5. FramesTyped'
  BY <1>1, <1>4 DEF StdioInv, FramesTyped
<1>6. GateOK'
  BY <1>1 DEF StdioInv, GateOK
<1>7. Failure'
  BY <1>1, <1>3, <1>4 DEF Failure, StdioInv, RepliesOK
<1>8. RepliesOK'
  <2>1. \A j \in Stdio!Frames : j > s_read + 1 => j > s_read
    BY <1>3, StdioAssumption DEF Stdio!Frames
  <2> QED
    BY <1>1, <1>7, <2>1 DEF StdioInv, RepliesOK
<1>9. StartOK'
  BY <1>1, <1>2, <1>7 DEF StartOK
<1> QED
  BY <1>5, <1>6, <1>8, <1>9 DEF StdioInv

(* A write that returns leaves what started the registry alone. *)
LEMMA StdioStartKept ==
    ASSUME StartOK, UNCHANGED <<s_sent, s_started, s_declared, s_read, s_clientCaps>>,
           s_loop # "ended", ~(s_loop = "write" /\ Failure) \/ s_loop' = "ended",
           s_loop' # "start"
    PROVE  StartOK'
<1>1. \A k \in 1 .. s_read : Opened(k)' = Opened(k) /\ Needs(k)' = Needs(k)
  BY DEF Opened, Needs
<1> QED
  BY <1>1 DEF StartOK

(* One more reply to a frame that had none and is not running. *)
LEMMA StdioReplied ==
    ASSUME FramesTyped, NEW i \in Stdio!Frames, s_replies[i] = 0,
           s_replies' = [s_replies EXCEPT ![i] = @ + 1],
           UNCHANGED <<s_sent, s_read>>, s_running' \subseteq s_running
    PROVE  FramesTyped' /\ s_replies'[i] = 1 /\ \A j \in Stdio!Frames \ {i} : s_replies'[j] = s_replies[j]
<1>1. s_replies' \in [Stdio!Frames -> Nat] /\ s_replies'[i] = 1
      /\ \A j \in Stdio!Frames \ {i} : s_replies'[j] = s_replies[j]
  BY DEF FramesTyped
<1>2. s_running' \subseteq 1 .. s_read'
  BY DEF FramesTyped
<1> QED
  BY <1>1, <1>2 DEF FramesTyped

LEMMA StdioWritten ==
    ASSUME StdioInv, Stdio!Written
    PROVE  StdioInv'
<1>1. /\ s_loop = "write" /\ Stdio!Received(s_out)
      /\ UNCHANGED <<s_sent, s_started, s_running, s_read, s_clientCaps, s_declared>>
  BY DEF Stdio!Written, Stdio!client
<1>2. Failure \/ (\E i \in Stdio!Frames : Reply(i)) \/ Push
  BY <1>1 DEF StdioInv, RepliesOK
<1>3. /\ \A j \in Stdio!Frames :
            s_replies[j] <= 1 /\ (j > s_read \/ j \in s_running => s_replies[j] = 0)
      /\ s_read \in Nat /\ FramesTyped
  BY DEF StdioInv, FramesTyped, RepliesOK
<1>4. (s_initialized => s_greeted) /\ ~s_early
  BY DEF StdioInv, GateOK
<1>5. CASE Failure
  <2>1. s_read \in Stdio!Frames /\ s_replies[s_read] = 0 /\ s_read \notin s_running
    BY <1>5, StdioAssumption DEF Failure, Stdio!Frames, StdioInv, FramesTyped
  <2>2. s_out[1] = "failure"
    BY <1>5 DEF Failure
  <2>3. /\ s_replies' = [s_replies EXCEPT ![s_read] = @ + 1]
        /\ s_loop' = "ended"
    BY <2>2 DEF Stdio!Written, Stdio!Received, Stdio!End
  <2>4. GateOK'
    BY <1>4, <2>2, Zenon DEF Stdio!Written, Stdio!Received, GateOK
  <2>5. FramesTyped' /\ s_replies'[s_read] = 1
        /\ \A j \in Stdio!Frames \ {s_read} : s_replies'[j] = s_replies[j]
    BY <1>1, <1>3, <2>1, <2>3, StdioReplied
  <2>6. RepliesOK'
    BY <1>1, <1>3, <2>1, <2>3, <2>5 DEF RepliesOK
  <2>7. StartOK'
    BY <1>1, <2>3, StdioStartKept DEF StdioInv
  <2> QED
    BY <2>4, <2>5, <2>6, <2>7 DEF StdioInv
<1>6. ASSUME NEW i \in Stdio!Frames, Reply(i) PROVE StdioInv'
  <2>1. s_out = <<"reply", i>> /\ i \in 1 .. s_read /\ i \notin s_running /\ s_replies[i] = 0
    BY <1>6 DEF Reply
  <2>2. s_out[1] = "reply" /\ s_out[2] = i
    BY <2>1
  <2>3. s_replies' = [s_replies EXCEPT ![i] = @ + 1]
    BY <2>2 DEF Stdio!Written, Stdio!Received
  <2>4. GateOK'
    BY <1>4, <2>2 DEF Stdio!Written, Stdio!Received, GateOK
  <2>5. s_loop' = "select" \/ (s_loop' = "write" /\ s_initialized' /\ s_out' = <<"change">>)
    BY <2>2 DEF Stdio!Written, Stdio!Write, Stdio!Select
  <2>6. FramesTyped' /\ s_replies'[i] = 1
        /\ \A j \in Stdio!Frames \ {i} : s_replies'[j] = s_replies[j]
    BY <1>1, <1>3, <2>1, <2>3, StdioReplied
  <2>7. RepliesOK'
    <3>1. s_loop' = "write" => Push'
      BY <2>5 DEF Push
    <3> QED
      BY <1>1, <1>3, <2>1, <2>6, <3>1 DEF RepliesOK
  <2>8. StartOK'
    <3>1. ~Failure
      BY <2>1 DEF Failure
    <3> QED
      BY <1>1, <2>5, <3>1, StdioStartKept DEF StdioInv
  <2> QED
    BY <2>4, <2>6, <2>7, <2>8 DEF StdioInv
<1>7. CASE Push
  <2>1. s_out[1] \in {"change", "note", "ask"} /\ s_initialized /\ s_out # <<"failure">>
    BY <1>7 DEF Push
  <2>2. s_replies' = s_replies /\ s_loop' = "select"
    BY <2>1 DEF Stdio!Written, Stdio!Received, Stdio!Select
  <2>3. GateOK'
    BY <1>4, <2>1 DEF Stdio!Written, Stdio!Received, GateOK
  <2>4. FramesTyped'
    BY <1>1, <1>3, <2>2 DEF FramesTyped
  <2>5. RepliesOK'
    BY <1>1, <2>2 DEF StdioInv, RepliesOK
  <2>6. StartOK'
    BY <1>1, <2>1, <2>2, StdioStartKept DEF StdioInv, Failure
  <2> QED
    BY <2>3, <2>4, <2>5, <2>6 DEF StdioInv
<1> QED
  BY <1>2, <1>5, <1>6, <1>7

LEMMA StdioCallReplies ==
    ASSUME StdioInv, NEW i \in Stdio!Frames, Stdio!CallReplies(i)
    PROVE  StdioInv'
<1>1. /\ i \in s_running /\ s_loop # "ended" /\ s_running' = s_running \ {i}
      /\ Stdio!Received(<<"reply", i>>)
      /\ UNCHANGED <<s_sent, s_loop, s_out, s_initialized, s_started, s_read,
                     s_clientCaps, s_declared>>
  BY DEF Stdio!CallReplies, Stdio!client, Stdio!registry
<1>2. /\ \A j \in Stdio!Frames :
            s_replies[j] <= 1 /\ (j > s_read \/ j \in s_running => s_replies[j] = 0)
      /\ s_running \subseteq 1 .. s_read /\ s_read \in Nat /\ FramesTyped
  BY DEF StdioInv, FramesTyped, RepliesOK
<1>3. s_replies' = [s_replies EXCEPT ![i] = @ + 1]
  BY <1>1 DEF Stdio!Received
<1>4. GateOK'
  <2>1. (s_initialized => s_greeted) /\ ~s_early
    BY DEF StdioInv, GateOK
  <2> QED
    BY <1>1, <2>1 DEF Stdio!Received, GateOK
<1>5. FramesTyped' /\ s_replies'[i] = 1
      /\ \A j \in Stdio!Frames \ {i} : s_replies'[j] = s_replies[j]
  BY <1>1, <1>2, <1>3, StdioReplied
<1>6. Failure => Failure'
  BY <1>1, <1>2, <1>5, StdioAssumption DEF Failure, FramesTyped, Stdio!Frames
<1>7. \A j \in Stdio!Frames : Reply(j) => Reply(j)'
  BY <1>1, <1>2, <1>5 DEF Reply
<1>8. Push => Push'
  BY <1>1 DEF Push
<1>9. RepliesOK'
  <2>1. \A j \in Stdio!Frames : s_replies'[j] <= 1
    BY <1>2, <1>5
  <2>2. \A j \in Stdio!Frames : j > s_read' \/ j \in s_running' => s_replies'[j] = 0
    <3>1. i <= s_read /\ i \notin s_running'
      BY <1>1, <1>2
    <3> QED
      BY <1>1, <1>2, <1>5, <3>1
  <2> QED
    BY <1>1, <1>6, <1>7, <1>8, <2>1, <2>2 DEF StdioInv, RepliesOK
<1>10. StartOK'
  <2>1. \A k \in 1 .. s_read : Opened(k)' = Opened(k) /\ Needs(k)' = Needs(k)
    BY <1>1 DEF Opened, Needs
  <2> QED
    BY <1>1, <1>6, <2>1 DEF StdioInv, StartOK, Needs
<1> QED
  BY <1>4, <1>5, <1>9, <1>10 DEF StdioInv

LEMMA StdioPreserved ==
    ASSUME StdioInv, Stdio!Next \/ UNCHANGED stdioVars
    PROVE  StdioInv'
<1>1. CASE Stdio!HangUp \/ Stdio!Stall \/ Stdio!Terminate \/ Stdio!ChangeCatalog \/ Stdio!Forward
           \/ Stdio!Ask \/ UNCHANGED stdioVars
  BY <1>1, StdioQuiet DEF Stdio!HangUp, Stdio!Stall, Stdio!Terminate, Stdio!ChangeCatalog,
     Stdio!Forward, Stdio!Ask, Stdio!client, Stdio!gates, Stdio!registry, Stdio!seen, stdioVars
<1> QED
  BY <1>1, StdioSend, StdioPushes, StdioEnds, StdioBeginStart, StdioFrame, StdioStarted,
     StdioStartFails, StdioWritten, StdioCallReplies DEF Stdio!Next, Stdio!Loop

LEMMA StdioGoes ==
    ASSUME [Stdio!Next]_(Stdio!vars)
    PROVE  Stdio!Next \/ UNCHANGED stdioVars
  BY DEF Stdio!vars, Stdio!client, Stdio!gates, Stdio!registry, Stdio!seen, stdioVars

LEMMA StdioStart == Stdio!Init => StdioInv
  BY EmptySeq, StdioAssumption
     DEF Stdio!Init, StdioInv, FramesTyped, RepliesOK, GateOK, StartOK, Stdio!Frames

(* A frame before the handshake's is silent: it needs no registry. *)
LEMMA HandshakeOpens ==
    ASSUME StdioInv, s_started, NEW i \in Stdio!Handshake
    PROVE  s_declared = s_sent[i].able
<1>1. /\ i \in 1 .. Len(s_sent) /\ Needs(i)
      /\ \A j \in 1 .. i - 1 : Stdio!Silent(s_sent[j])
  BY DEF Stdio!Handshake, Needs, Stdio!NeedsRegistry, Stdio!IsRequest
<1>2. \A j \in 1 .. i - 1 : ~Needs(j)
  BY <1>1 DEF Stdio!Silent, Needs, Stdio!NeedsRegistry, Stdio!IsRequest, Stdio!Known
<1>3. PICK k \in 1 .. s_read : Opened(k)
  BY DEF StdioInv, StartOK
<1>4. i \in Int /\ k \in Int /\ i >= 1 /\ k >= 1
  BY <1>1, <1>3 DEF StdioInv, FramesTyped
<1>5. ~(k < i) /\ ~(i < k)
  BY <1>1, <1>2, <1>3, <1>4 DEF Opened
<1> QED
  BY <1>3, <1>4, <1>5 DEF Opened

(* Nothing is pushed to a stdio client before its handshake, no request is *)
(* replied to twice, and the upstreams are told what the handshake says,   *)
(* whatever came before it (Serve).                                        *)
THEOREM ServingAlone == Stdio!Safety => []HandshakeFirst
<1>1. StdioInv => HandshakeFirst
  BY HandshakeOpens DEF StdioInv, GateOK, RepliesOK, HandshakeFirst, Stdio!HandshakeFirst
<1>2. StdioInv /\ [Stdio!Next]_(Stdio!vars) => StdioInv'
  BY StdioGoes, StdioPreserved
<1> QED
  BY <1>1, <1>2, StdioStart, PTL DEF Stdio!Safety

(* ... and so it is beside the other components. *)
THEOREM ServeHandshakeFirst == PartsSpec => []HandshakeFirst
  BY ServingAlone, PartsRun

-----------------------------------------------------------------------------
(* Catalog. *)

Faces == Cat!FaceNames \ {0}

CatTyped ==
    /\ k_conns \subseteq Names /\ k_aux \subseteq k_conns
    /\ k_raw \in [Names -> SUBSET Tools]
    /\ k_tools \subseteq [name : Faces, up : k_conns, orig : Tools]
    /\ k_resources \subseteq [uri : Uris, up : k_aux]
    /\ k_defects \in [Names -> SUBSET (Cat!FaceNames \cup Uris)]
    /\ k_version \in Cat!Versions /\ k_todo \subseteq Names
    /\ k_listing \in [open : BOOLEAN, cursor : Faces \cup {0}, seen : SUBSET Faces,
                      again : BOOLEAN, stayed : SUBSET Faces]

(* Whose configuration has changed is re-projected before it counts. *)
ToolsOK ==
    /\ \A d, e \in k_tools : d.name = e.name => d = e
    /\ \A d \in k_tools :
          d.orig \in k_raw[d.up] /\ (d.up \in k_todo \/ d.name = Cat!FaceOf(d.up, d.orig))
    /\ \A n \in k_conns \ k_todo : \A d \in Cat!Projected(n, k_raw[n]) :
          d \in k_tools \/ d.name \in k_defects[n]

ResourcesOK ==
    /\ \A d, e \in k_resources : d.uri = e.uri => d = e
    /\ \A n \in k_aux : \A u \in Listed[n] :
          [uri |-> u, up |-> n] \in k_resources \/ u \in k_defects[n]

TemplatesOK ==
    /\ k_templates \in Seq(k_aux)
    /\ \A i, j \in 1 .. Len(k_templates) : k_templates[i] = k_templates[j] => i = j

(* Up to the cursor, whoever pages has seen what stayed, and no further. *)
PagesOK ==
    /\ k_cacheValid => k_cached = k_tools
    /\ ~k_listing.again
    /\ k_listing.open =>
          /\ k_listing.stayed \subseteq Cat!NamesIn(k_tools)
          /\ \A k \in k_listing.seen : k <= k_listing.cursor
          /\ \A k \in k_listing.stayed : k <= k_listing.cursor => k \in k_listing.seen
    /\ ~k_listing.open => k_listing.stayed \subseteq k_listing.seen

CatInv == CatTyped /\ ToolsOK /\ ResourcesOK /\ TemplatesOK /\ PagesOK

LEMMA FacesAreNaturals == Cat!FaceNames \subseteq Nat /\ IsFiniteSet(Faces)
<1>1. Cat!FaceNames \subseteq Nat
  BY CatalogAssumption DEF Cat!FaceNames, Cat!Versions
<1> QED
  BY <1>1, CatalogAssumption, FS_Subset DEF Faces

(* A sequence without its i-th element. *)
LEMMA WithoutIth ==
    ASSUME NEW S, NEW s \in Seq(S), NEW i \in 1 .. Len(s)
    PROVE  /\ Cat!RemoveAt(s, i) \in Seq(S)
           /\ Len(Cat!RemoveAt(s, i)) = Len(s) - 1
           /\ \A j \in 1 .. Len(s) - 1 :
                 Cat!RemoveAt(s, i)[j] = IF j < i THEN s[j] ELSE s[j + 1]
<1>1. PICK n \in Nat : n = Len(s)
  BY LenProperties
<1>2. PICK front : front = SubSeq(s, 1, i - 1)
  OBVIOUS
<1>3. PICK back : back = SubSeq(s, i + 1, n)
  OBVIOUS
<1>4. front \in Seq(S) /\ Len(front) = i - 1 /\ \A j \in 1 .. i - 1 : front[j] = s[j]
  BY <1>1, <1>2, SubSeqProperties
<1>5. back \in Seq(S) /\ Len(back) = n - i /\ \A j \in 1 .. n - i : back[j] = s[i + j]
  BY <1>1, <1>3, SubSeqProperties
<1>6. /\ front \o back \in Seq(S) /\ Len(front) + Len(back) = n - 1
      /\ Len(front \o back) = n - 1
      /\ \A j \in 1 .. n - 1 :
            (front \o back)[j] = IF j <= i - 1 THEN front[j] ELSE back[j - (i - 1)]
  <2>1. /\ front \o back \in Seq(S) /\ Len(front \o back) = Len(front) + Len(back)
        /\ \A j \in 1 .. Len(front) + Len(back) : (front \o back)[j] =
               IF j <= Len(front) THEN front[j] ELSE back[j - Len(front)]
    BY <1>4, <1>5, ConcatProperties
  <2>2. Len(front) + Len(back) = n - 1
    BY <1>1, <1>4, <1>5
  <2> QED
    BY <1>4, <2>1, <2>2
<1>7. ASSUME NEW j \in 1 .. n - 1
      PROVE  (front \o back)[j] = IF j < i THEN s[j] ELSE s[j + 1]
  <2>1. CASE j < i
    BY <1>1, <1>4, <1>6, <2>1
  <2>2. CASE ~(j < i)
    <3>1. j - (i - 1) \in 1 .. n - i /\ i + (j - (i - 1)) = j + 1
      BY <1>1, <2>2
    <3> QED
      BY <1>1, <1>5, <1>6, <2>2, <3>1
  <2> QED
    BY <2>1, <2>2
<1> QED
  BY <1>1, <1>2, <1>3, <1>6, <1>7 DEF Cat!RemoveAt

(* A sequence that has x once at most, without it. *)
LEMMA WithoutFirst ==
    ASSUME NEW S, NEW s \in Seq(S), NEW x,
           \A i, j \in 1 .. Len(s) : s[i] = s[j] => i = j
    PROVE  /\ Cat!RemoveFirst(s, x) \in Seq(S \ {x})
           /\ \A i, j \in 1 .. Len(Cat!RemoveFirst(s, x)) :
                 Cat!RemoveFirst(s, x)[i] = Cat!RemoveFirst(s, x)[j] => i = j
<1>1. Len(s) \in Nat /\ \A j \in 1 .. Len(s) : s[j] \in S
  BY LenProperties
<1>2. CASE ~\E i \in 1 .. Len(s) : s[i] = x
  <2>1. Cat!RemoveFirst(s, x) = s
    BY <1>2 DEF Cat!RemoveFirst
  <2>2. \A j \in 1 .. Len(s) : s[j] \in S \ {x}
    BY <1>1, <1>2
  <2>3. s \in Seq(S \ {x})
    BY <2>2
  <2> QED
    BY <2>1, <2>3
<1>3. CASE \E i \in 1 .. Len(s) : s[i] = x
  <2>1. PICK k \in 1 .. Len(s) : s[k] = x
    BY <1>3
  <2>2. {i \in 1 .. Len(s) : s[i] = x} = {k}
    BY <2>1
  <2>3. Cat!SelectInSeq(s, LAMBDA v : v = x) = k
    <3>1. Cat!Min({k}) = k
      BY DEF Cat!Min
    <3> QED
      BY <2>2, <3>1 DEF Cat!SelectInSeq
  <2>4. Cat!RemoveFirst(s, x) = Cat!RemoveAt(s, k)
    BY <1>3, <2>3 DEF Cat!RemoveFirst
  <2>5. PICK r : r = Cat!RemoveAt(s, k)
    OBVIOUS
  <2>6. /\ r \in Seq(S) /\ Len(r) = Len(s) - 1
        /\ \A j \in 1 .. Len(s) - 1 : r[j] = IF j < k THEN s[j] ELSE s[j + 1]
    BY <2>5, WithoutIth
  <2>7. \A j \in 1 .. Len(r) : r[j] \in S \ {x}
    BY <1>1, <2>1, <2>6
  <2>8. r \in Seq(S \ {x})
    BY <2>6, <2>7
  <2>9. \A i, j \in 1 .. Len(r) : r[i] = r[j] => i = j
    BY <1>1, <2>6
  <2> QED
    BY <2>4, <2>5, <2>8, <2>9
<1> QED
  BY <1>2, <1>3

(* What a filter makes of an upstream's tools. *)
LEMMA ProjectedTools ==
    ASSUME CatTyped, NEW n \in Names, NEW T \in SUBSET Tools
    PROVE  /\ Cat!Projected(n, T) \subseteq [name : Faces, up : {n}, orig : T]
           /\ \A d \in Cat!Projected(n, T) : d.name = Cat!FaceOf(n, d.orig)
<1>1. \A t \in T : Cat!FaceOf(n, t) \in Cat!FaceNames
  BY DEF CatTyped, Cat!FaceOf, Cat!FaceNames
<1> QED
  BY <1>1 DEF Cat!Projected, Faces

(* Without n, everything is as it was for the others, and nothing is n's. *)
LEMMA CatWithout ==
    ASSUME CatInv, NEW n \in Names
    PROVE  /\ Cat!Without(n).tools = {d \in k_tools : d.up # n}
           /\ Cat!Without(n).resources = {d \in k_resources : d.up # n}
           /\ Cat!Without(n).templates \in Seq(k_aux \ {n})
           /\ \A i, j \in 1 .. Len(Cat!Without(n).templates) :
                 Cat!Without(n).templates[i] = Cat!Without(n).templates[j] => i = j
<1>1. /\ Cat!RemoveFirst(k_templates, n) \in Seq(k_aux \ {n})
      /\ \A i, j \in 1 .. Len(Cat!RemoveFirst(k_templates, n)) :
            Cat!RemoveFirst(k_templates, n)[i] = Cat!RemoveFirst(k_templates, n)[j] => i = j
  BY WithoutFirst DEF CatInv, TemplatesOK
<1> QED
  BY <1>1 DEF Cat!Without

(* Names that go are no longer among those that stayed. *)
LEMMA PagingKept ==
    ASSUME CatTyped, PagesOK, k_cacheValid' = FALSE, Cat!Paging(k_tools')
    PROVE  /\ PagesOK'
           /\ k_listing' \in [open : BOOLEAN, cursor : Faces \cup {0}, seen : SUBSET Faces,
                              again : BOOLEAN, stayed : SUBSET Faces]
<1>1. CASE k_listing.open
  <2>1. k_listing' = [k_listing EXCEPT !.stayed = @ \cap Cat!NamesIn(k_tools')]
    BY <1>1 DEF Cat!Paging
  <2>2. /\ k_listing'.open /\ k_listing'.cursor = k_listing.cursor
        /\ k_listing'.seen = k_listing.seen /\ k_listing'.again = k_listing.again
        /\ k_listing'.stayed = k_listing.stayed \cap Cat!NamesIn(k_tools')
    BY <1>1, <2>1 DEF CatTyped
  <2>3. k_listing' \in [open : BOOLEAN, cursor : Faces \cup {0}, seen : SUBSET Faces,
                        again : BOOLEAN, stayed : SUBSET Faces]
    BY <2>1 DEF CatTyped
  <2>4. ~k_listing'.again
    BY <2>2 DEF PagesOK
  <2>5. Cat!NamesIn(k_tools)' = Cat!NamesIn(k_tools')
    BY DEF Cat!NamesIn
  <2>6. /\ k_listing'.stayed \subseteq Cat!NamesIn(k_tools)'
        /\ \A k \in k_listing'.seen : k <= k_listing'.cursor
        /\ \A k \in k_listing'.stayed : k <= k_listing'.cursor => k \in k_listing'.seen
    BY <1>1, <2>2, <2>5 DEF PagesOK
  <2> QED
    BY <2>2, <2>3, <2>4, <2>6 DEF PagesOK
<1>2. CASE ~k_listing.open
  BY <1>2 DEF Cat!Paging, CatTyped, PagesOK
<1> QED
  BY <1>1, <1>2

(* Whoever is merged is projected by the filter in force, after whatever   *)
(* was there of it is gone.                                                *)
LEMMA CatMerge ==
    ASSUME CatInv, NEW n \in Names, NEW T \in SUBSET Tools, NEW x \in BOOLEAN,
           Cat!Merge(n, T, x, Cat!Without(n)),
           k_version' = k_version, k_todo' \in {k_todo, k_todo \ {n}}
    PROVE  CatInv'
<1> DEFINE base == Cat!Without(n)
<1>1. PICK K \in Cat!Keeps(n, T, base) :
         /\ k_tools' = base.tools \cup K
         /\ k_defects' = [k_defects EXCEPT ![n] = Cat!Found(n, T, base, x, K)]
  BY DEF Cat!Merge
<1>2. /\ k_conns' = k_conns \cup {n}
      /\ k_raw' = [k_raw EXCEPT ![n] = T]
      /\ k_aux' = IF x THEN k_aux \cup {n} ELSE k_aux \ {n}
      /\ k_resources' = base.resources \cup
            (IF x THEN {[uri |-> u, up |-> n] : u \in Cat!FreeUris(n, base)} ELSE {})
      /\ k_templates' = IF x THEN Append(base.templates, n) ELSE base.templates
      /\ k_cacheValid' = FALSE
      /\ Cat!Paging(k_tools')
  BY DEF Cat!Merge, Cat!Invalidate
<1>3. /\ base.tools = {d \in k_tools : d.up # n}
      /\ base.resources = {d \in k_resources : d.up # n}
      /\ base.templates \in Seq(k_aux \ {n})
      /\ \A i, j \in 1 .. Len(base.templates) : base.templates[i] = base.templates[j] => i = j
  BY CatWithout
<1>4. /\ Cat!Projected(n, T) \subseteq [name : Faces, up : {n}, orig : T]
      /\ \A d \in Cat!Projected(n, T) : d.name = Cat!FaceOf(n, d.orig)
  BY ProjectedTools DEF CatInv
<1>5. /\ K \subseteq Cat!Projected(n, T)
      /\ \A d \in K : d.name \notin Cat!NamesIn(base.tools)
      /\ \A d, e \in K : d.name = e.name => d = e
  BY <1>1 DEF Cat!Keeps, Cat!FreeTools
<1>6. k_defects'[n] = Cat!Found(n, T, base, x, K)
      /\ \A m \in Names \ {n} : k_defects'[m] = k_defects[m]
  BY <1>1 DEF CatInv, CatTyped
<1>7. k_raw'[n] = T /\ \A m \in Names \ {n} : k_raw'[m] = k_raw[m]
  BY <1>2 DEF CatInv, CatTyped
<1> HIDE DEF base
<1>8. CatTyped'
  <2>1. k_conns' \subseteq Names /\ k_aux' \subseteq k_conns'
    BY <1>2 DEF CatInv, CatTyped
  <2>2. k_raw' \in [Names -> SUBSET Tools]
    BY <1>2 DEF CatInv, CatTyped
  <2>3. k_tools' \subseteq [name : Faces, up : k_conns', orig : Tools]
    BY <1>1, <1>2, <1>3, <1>4, <1>5 DEF CatInv, CatTyped
  <2>4. k_resources' \subseteq [uri : Uris, up : k_aux']
    <3>1. Listed[n] \subseteq Uris
      BY CatalogAssumption
    <3>2. base.resources \subseteq [uri : Uris, up : k_aux']
      BY <1>2, <1>3 DEF CatInv, CatTyped
    <3>3. x => {[uri |-> u, up |-> n] : u \in Cat!FreeUris(n, base)} \subseteq
                  [uri : Uris, up : k_aux']
      BY <1>2, <3>1 DEF Cat!FreeUris
    <3> QED
      BY <1>2, <3>2, <3>3
  <2>5. k_defects' \in [Names -> SUBSET (Cat!FaceNames \cup Uris)]
    <3>1. Cat!Found(n, T, base, x, K) \subseteq Cat!FaceNames \cup Uris
      BY <1>4, CatalogAssumption DEF Cat!Found, Cat!NamesIn, Faces
    <3> QED
      BY <1>1, <3>1 DEF CatInv, CatTyped
  <2>6. k_version' \in Cat!Versions /\ k_todo' \subseteq Names
    BY DEF CatInv, CatTyped
  <2>7. k_listing' \in [open : BOOLEAN, cursor : Faces \cup {0}, seen : SUBSET Faces,
                        again : BOOLEAN, stayed : SUBSET Faces]
    BY <1>2, PagingKept DEF CatInv
  <2> QED
    BY <2>1, <2>2, <2>3, <2>4, <2>5, <2>6, <2>7 DEF CatTyped
<1>9. \A m \in Names, t \in Tools : Cat!FaceOf(m, t)' = Cat!FaceOf(m, t)
  BY DEF Cat!FaceOf
<1>10. ToolsOK'
  <2>1. \A d, e \in k_tools' : d.name = e.name => d = e
    BY <1>1, <1>3, <1>5 DEF CatInv, ToolsOK, Cat!NamesIn
  <2>2. \A d \in k_tools' :
          d.orig \in k_raw'[d.up] /\ (d.up \in k_todo' \/ d.name = Cat!FaceOf(d.up, d.orig)')
    <3>1. \A d \in K : d.up = n /\ d.orig \in T /\ d.name = Cat!FaceOf(n, d.orig) /\ d.orig \in Tools
      BY <1>4, <1>5
    <3>2. \A d \in base.tools :
             /\ d.up \in Names \ {n} /\ d.orig \in Tools /\ d.orig \in k_raw[d.up]
             /\ d.up \in k_todo \/ d.name = Cat!FaceOf(d.up, d.orig)
      BY <1>3 DEF CatInv, CatTyped, ToolsOK
    <3> QED
      BY <1>1, <1>7, <1>9, <3>1, <3>2
  <2>3. ASSUME NEW m \in k_conns' \ k_todo', NEW d \in Cat!Projected(m, k_raw[m])'
        PROVE  d \in k_tools' \/ d.name \in k_defects'[m]
    <3>1. m \in Names /\ k_raw'[m] \subseteq Tools
      BY <1>8 DEF CatTyped
    <3>2. d \in Cat!Projected(m, k_raw'[m])
      BY <1>9, <2>3, <3>1 DEF Cat!Projected
    <3>3. CASE m = n
      BY <1>1, <1>6, <1>7, <3>2, <3>3 DEF Cat!Found, Cat!NamesIn
    <3>4. CASE m # n
      <4>1. m \in k_conns \ k_todo /\ k_raw'[m] = k_raw[m] /\ k_defects'[m] = k_defects[m]
        BY <1>2, <1>6, <1>7, <3>1, <3>4
      <4>2. d.up = m
        BY <3>1, <3>2, ProjectedTools DEF CatInv
      <4> QED
        BY <1>1, <1>3, <3>2, <3>4, <4>1, <4>2 DEF CatInv, ToolsOK
    <3> QED
      BY <3>3, <3>4
  <2> QED
    BY <2>1, <2>2, <2>3 DEF ToolsOK
<1>11. ResourcesOK'
  <2>1. \A d, e \in k_resources' : d.uri = e.uri => d = e
    BY <1>2, <1>3 DEF CatInv, ResourcesOK, Cat!FreeUris
  <2>2. ASSUME NEW m \in k_aux', NEW u \in Listed[m]
        PROVE  [uri |-> u, up |-> m] \in k_resources' \/ u \in k_defects'[m]
    <3>1. CASE m = n
      BY <1>2, <1>6, <3>1 DEF Cat!Found
    <3>2. CASE m # n
      <4>1. m \in k_aux /\ k_defects'[m] = k_defects[m]
        BY <1>2, <1>6, <3>2 DEF CatInv, CatTyped
      <4> QED
        BY <1>2, <1>3, <3>2, <4>1 DEF CatInv, ResourcesOK
    <3> QED
      BY <3>1, <3>2
  <2> QED
    BY <2>1, <2>2 DEF ResourcesOK
<1>12. TemplatesOK'
  <2>1. CASE x
    <3>1. k_templates' = Append(base.templates, n) /\ k_aux' = (k_aux \ {n}) \cup {n}
      BY <1>2, <2>1
    <3>2. PICK s : s = base.templates
      OBVIOUS
    <3>3. PICK S : S = k_aux \ {n}
      OBVIOUS
    <3>4. s \in Seq(S \cup {n}) /\ Len(s) \in Nat /\ \A i \in 1 .. Len(s) : s[i] \in S
      BY <1>3, <3>2, <3>3
    <3>5. /\ Append(s, n) \in Seq(S \cup {n}) /\ Len(Append(s, n)) = Len(s) + 1
          /\ Append(s, n)[Len(s) + 1] = n
          /\ \A i \in 1 .. Len(s) : Append(s, n)[i] = s[i]
      BY <3>4, Queueing
    <3>6. \A i \in 1 .. Len(s) : Append(s, n)[i] # n
      BY <3>3, <3>4, <3>5
    <3>7. \A i, j \in 1 .. Len(s) + 1 : Append(s, n)[i] = Append(s, n)[j] => i = j
      BY <1>3, <3>2, <3>4, <3>5, <3>6
    <3> QED
      BY <3>1, <3>2, <3>3, <3>5, <3>7 DEF TemplatesOK
  <2>2. CASE ~x
    BY <1>2, <1>3, <2>2 DEF TemplatesOK
  <2> QED
    BY <2>1, <2>2
<1>13. PagesOK'
  BY <1>2, PagingKept DEF CatInv
<1> QED
  BY <1>8, <1>10, <1>11, <1>12, <1>13 DEF CatInv

LEMMA CatDrop ==
    ASSUME CatInv, NEW n \in Names, Cat!Drop(n)
    PROVE  CatInv'
<1>1. /\ k_conns' = k_conns \ {n} /\ k_aux' = k_aux \ {n}
      /\ k_raw' = [k_raw EXCEPT ![n] = {}]
      /\ k_defects' = [k_defects EXCEPT ![n] = {}]
      /\ k_cacheValid' = FALSE /\ Cat!Paging(k_tools')
      /\ UNCHANGED <<k_version, k_todo>>
  BY DEF Cat!Drop, Cat!Invalidate
<1>2. /\ k_tools' = {d \in k_tools : d.up # n}
      /\ k_resources' = {d \in k_resources : d.up # n}
      /\ k_templates' \in Seq(k_aux \ {n})
      /\ \A i, j \in 1 .. Len(k_templates') : k_templates'[i] = k_templates'[j] => i = j
  BY CatWithout DEF Cat!Drop
<1>3. \A m \in Names \ {n} : k_defects'[m] = k_defects[m] /\ k_raw'[m] = k_raw[m]
  BY <1>1 DEF CatInv, CatTyped
<1>4. CatTyped'
  <2>1. /\ k_conns' \subseteq Names /\ k_aux' \subseteq k_conns'
        /\ k_raw' \in [Names -> SUBSET Tools]
        /\ k_defects' \in [Names -> SUBSET (Cat!FaceNames \cup Uris)]
        /\ k_version' \in Cat!Versions /\ k_todo' \subseteq Names
    BY <1>1 DEF CatInv, CatTyped
  <2>2. /\ k_tools' \subseteq [name : Faces, up : k_conns', orig : Tools]
        /\ k_resources' \subseteq [uri : Uris, up : k_aux']
    BY <1>1, <1>2 DEF CatInv, CatTyped
  <2>3. k_listing' \in [open : BOOLEAN, cursor : Faces \cup {0}, seen : SUBSET Faces,
                        again : BOOLEAN, stayed : SUBSET Faces]
    BY <1>1, PagingKept DEF CatInv
  <2> QED
    BY <2>1, <2>2, <2>3 DEF CatTyped
<1>5. ToolsOK'
  <2>1. \A m \in Names, t \in Tools : Cat!FaceOf(m, t)' = Cat!FaceOf(m, t)
    BY <1>1 DEF Cat!FaceOf
  <2>2. \A d, e \in k_tools' : d.name = e.name => d = e
    BY <1>2 DEF CatInv, ToolsOK
  <2>3. \A d \in k_tools' :
          d.orig \in k_raw'[d.up] /\ (d.up \in k_todo' \/ d.name = Cat!FaceOf(d.up, d.orig)')
    <3>1. \A d \in k_tools' :
             /\ d.up \in Names \ {n} /\ d.orig \in Tools /\ d.orig \in k_raw[d.up]
             /\ d.up \in k_todo \/ d.name = Cat!FaceOf(d.up, d.orig)
      BY <1>2 DEF CatInv, CatTyped, ToolsOK
    <3> QED
      BY <1>1, <1>3, <2>1, <3>1
  <2>4. ASSUME NEW m \in k_conns' \ k_todo', NEW d \in Cat!Projected(m, k_raw[m])'
        PROVE  d \in k_tools' \/ d.name \in k_defects'[m]
    <3>1. m \in Names \ {n} /\ m \in k_conns \ k_todo /\ k_raw[m] \subseteq Tools
      BY <1>1 DEF CatInv, CatTyped
    <3>2. d \in Cat!Projected(m, k_raw[m])
      BY <1>3, <2>1, <2>4, <3>1 DEF Cat!Projected
    <3>3. d.up = m
      BY <3>1, <3>2, ProjectedTools DEF CatInv
    <3> QED
      BY <1>2, <1>3, <3>1, <3>2, <3>3 DEF CatInv, ToolsOK
  <2> QED
    BY <2>2, <2>3, <2>4 DEF ToolsOK
<1>6. ResourcesOK'
  <2>1. \A d, e \in k_resources' : d.uri = e.uri => d = e
    BY <1>2 DEF CatInv, ResourcesOK
  <2>2. ASSUME NEW m \in k_aux', NEW u \in Listed[m]
        PROVE  [uri |-> u, up |-> m] \in k_resources' \/ u \in k_defects'[m]
    <3>1. m \in k_aux /\ m # n /\ m \in Names
      BY <1>1 DEF CatInv, CatTyped
    <3> QED
      BY <1>2, <1>3, <3>1 DEF CatInv, ResourcesOK
  <2> QED
    BY <2>1, <2>2 DEF ResourcesOK
<1>7. TemplatesOK'
  BY <1>1, <1>2 DEF TemplatesOK
<1>8. PagesOK'
  BY <1>1, PagingKept DEF CatInv
<1> QED
  BY <1>4, <1>5, <1>6, <1>7, <1>8 DEF CatInv

(* A configuration that makes the same of an upstream's tools leaves them. *)
LEMMA CatSwap ==
    ASSUME CatInv, Cat!SwapConfig
    PROVE  CatInv'
<1>1. /\ k_todo = {} /\ k_version < Len(Facing) /\ k_version' = k_version + 1
      /\ k_todo' = {n \in k_conns : Facing[k_version + 1][n] # Facing[k_version][n]}
      /\ UNCHANGED <<k_conns, k_raw, k_aux, k_tools, k_resources, k_templates, k_defects,
                     k_cached, k_cacheValid, k_listing>>
  BY DEF Cat!SwapConfig, Cat!catalogVars
<1>2. k_version' \in Cat!Versions
  BY <1>1, CatalogAssumption DEF CatInv, CatTyped, Cat!Versions
<1>3. CatTyped'
  BY <1>1, <1>2 DEF CatInv, CatTyped
<1>4. \A n \in k_conns \ k_todo' : \A t : Cat!FaceOf(n, t)' = Cat!FaceOf(n, t)
  BY <1>1 DEF Cat!FaceOf
<1>5. ToolsOK'
  <2>1. \A d, e \in k_tools' : d.name = e.name => d = e
    BY <1>1 DEF CatInv, ToolsOK
  <2>2. \A d \in k_tools' :
          d.orig \in k_raw'[d.up] /\ (d.up \in k_todo' \/ d.name = Cat!FaceOf(d.up, d.orig)')
    BY <1>1, <1>4 DEF CatInv, CatTyped, ToolsOK
  <2>3. ASSUME NEW m \in k_conns' \ k_todo', NEW d \in Cat!Projected(m, k_raw[m])'
        PROVE  d \in k_tools' \/ d.name \in k_defects'[m]
    <3>1. d \in Cat!Projected(m, k_raw[m])
      BY <1>1, <1>4, <2>3 DEF Cat!Projected
    <3> QED
      BY <1>1, <3>1 DEF CatInv, ToolsOK
  <2> QED
    BY <2>1, <2>2, <2>3 DEF ToolsOK
<1>6. ResourcesOK' /\ TemplatesOK'
  BY <1>1 DEF CatInv, ResourcesOK, TemplatesOK
<1>7. PagesOK'
  BY <1>1 DEF CatInv, PagesOK, Cat!NamesIn
<1> QED
  BY <1>3, <1>5, <1>6, <1>7 DEF CatInv

LEMMA SameCardinality == \A S : Cat!Cardinality(S) = Cardinality(S)
  BY DEF Cat!Cardinality, Cardinality

(* The page after a cursor takes what comes after it from the first on,    *)
(* and its last name is where it ends.                                     *)
LEMMA Pages ==
    ASSUME CatInv, NEW c \in Nat
    PROVE  /\ Cat!Page(c) \subseteq Cat!After(c)
           /\ Cat!NextCursor(c) \in Cat!After(c) \cup {c}
           /\ \A k \in Cat!Page(c) : k <= Cat!NextCursor(c)
           /\ \A k \in Cat!After(c) : k <= Cat!NextCursor(c) => k \in Cat!Page(c)
<1>1. Cat!ListTools = k_tools
  BY DEF Cat!ListTools, CatInv, PagesOK
<1> DEFINE A == Cat!After(c)
           Before(k) == {m \in A : m < k}
           P == {k \in A : Cardinality(Before(k)) < PageSize}
<1>2. A = Cat!After(c) /\ Cat!Page(c) = P
  BY SameCardinality, Zenon DEF Cat!Page
<1> HIDE DEF A
<1>3. A \subseteq Faces /\ A \subseteq Nat /\ IsFiniteSet(A) /\ \A k \in A : c < k
  <2>1. A \subseteq Faces /\ \A k \in A : k > c
    BY <1>1, <1>2 DEF Cat!After, Cat!NamesIn, CatInv, CatTyped
  <2>2. A \subseteq Nat
    BY <2>1, FacesAreNaturals DEF Faces
  <2>3. IsFiniteSet(A)
    BY <2>1, FacesAreNaturals, FS_Subset
  <2> QED
    BY <2>1, <2>2, <2>3
<1>4. Cat!Page(c) = P
  BY <1>2
<1>5. P \subseteq A /\ \A k \in A : Cardinality(Before(k)) < PageSize => k \in P
  OBVIOUS
<1>6. \A k \in P : Cardinality(Before(k)) < PageSize
  OBVIOUS
<1>7. \A k : Before(k) \subseteq A /\ \A m \in A : m \in Before(k) <=> m < k
  OBVIOUS
<1> HIDE DEF Before, P
<1>8. CASE P = {}
  <2>1. A = {}
    <3> SUFFICES ASSUME A # {} PROVE FALSE
      OBVIOUS
    <3>1. PICK k \in A : \A m \in A : k <= m
      BY <1>3, Least
    <3>2. \A m \in A : ~(m < k)
      BY <1>3, <3>1
    <3>3. Before(k) = {}
      BY <1>7, <3>2
    <3>4. Cardinality(Before(k)) = 0
      BY <3>3, FS_EmptySet
    <3> QED
      BY <1>5, <1>8, <3>4, CatalogAssumption
  <2>2. Cat!NextCursor(c) = c
    BY <1>4, <1>8 DEF Cat!NextCursor
  <2> QED
    BY <1>2, <1>4, <1>8, <2>1, <2>2
<1>9. CASE P # {}
  <2>1. P \in SUBSET Nat /\ IsFiniteSet(P)
    BY <1>3, <1>5, FS_Subset
  <2>2. \E x \in P : \A y \in P : x >= y
    <3>1. PICK x \in P : \A y \in P : y <= x
      BY <1>9, <2>1, Greatest
    <3> QED
      BY <2>1, <3>1
  <2>3. PICK last : last = Cat!NextCursor(c)
    OBVIOUS
  <2>4. last \in P /\ \A y \in P : y <= last
    <3>1. last = CHOOSE x \in P : \A y \in P : x >= y
      BY <1>4, <1>9, <2>3 DEF Cat!NextCursor, Cat!Max
    <3>2. last \in P /\ \A y \in P : last >= y
      BY <2>2, <3>1
    <3> QED
      BY <2>1, <3>2
  <2>5. ASSUME NEW k \in A, k <= last PROVE k \in P
    <3>1. last \in A /\ last \in Nat /\ k \in Nat /\ Cardinality(Before(last)) < PageSize
      BY <1>3, <1>5, <1>6, <2>4
    <3>2. \A m \in A : m < k => m < last
      BY <1>3, <2>5, <3>1
    <3>3. Before(k) \subseteq Before(last)
      BY <1>7, <3>2
    <3>4. IsFiniteSet(Before(last))
      BY <1>3, <1>7, FS_Subset
    <3>5. IsFiniteSet(Before(k)) /\ Cardinality(Before(k)) <= Cardinality(Before(last))
      BY <3>3, <3>4, FS_Subset
    <3>6. Cardinality(Before(k)) \in Nat /\ Cardinality(Before(last)) \in Nat
      BY <3>4, <3>5, FS_CardinalityType
    <3>7. Cardinality(Before(k)) < PageSize
      BY <3>1, <3>5, <3>6, CatalogAssumption
    <3> QED
      BY <1>5, <3>7
  <2> QED
    BY <1>2, <1>4, <1>5, <2>3, <2>4, <2>5
<1> QED
  BY <1>8, <1>9

LEMMA CatServe ==
    ASSUME CatInv, NEW first \in BOOLEAN, Cat!ServePage(first)
    PROVE  CatInv'
<1>1. PICK c : c = IF first THEN 0 ELSE k_listing.cursor
  OBVIOUS
<1>2. PICK seen : seen = IF first THEN {} ELSE k_listing.seen
  OBVIOUS
<1>3. PICK stayed : stayed = IF first THEN Cat!NamesIn(k_tools) ELSE k_listing.stayed
  OBVIOUS
<1>4. /\ first \/ k_listing.open
      /\ k_cached' = Cat!ListTools
      /\ k_listing' = [open   |-> Cat!After(Cat!NextCursor(c)) # {},
                       cursor |-> Cat!NextCursor(c),
                       seen   |-> seen \cup Cat!Page(c),
                       again  |-> (~first /\ k_listing.again) \/ Cat!Page(c) \cap seen # {},
                       stayed |-> stayed]
      /\ UNCHANGED <<k_conns, k_raw, k_aux, k_tools, k_resources, k_templates, k_defects,
                     k_version, k_todo>>
  BY <1>1, <1>2, <1>3 DEF Cat!ServePage, Cat!catalogVars
<1>5. Cat!ListTools = k_tools
  BY DEF Cat!ListTools, CatInv, PagesOK
<1>6. Cat!NamesIn(k_tools) \subseteq Faces
  BY DEF Cat!NamesIn, CatInv, CatTyped
<1>7. /\ Faces \subseteq Nat /\ 0 \notin Faces
      /\ \A k \in Faces : k \in Nat /\ k > 0
  <2>1. Faces \subseteq Nat /\ 0 \notin Faces
    BY FacesAreNaturals DEF Faces
  <2>2. \A k \in Nat : k # 0 => k > 0
    OBVIOUS
  <2> QED
    BY <2>1, <2>2
<1>8. /\ c \in Faces \cup {0} /\ seen \subseteq Faces
      /\ stayed \subseteq Cat!NamesIn(k_tools)
      /\ \A k \in seen : k <= c
      /\ \A k \in stayed : k <= c => k \in seen
  <2>1. CASE first
    <3>1. c = 0 /\ seen = {} /\ stayed = Cat!NamesIn(k_tools)
      BY <1>1, <1>2, <1>3, <2>1
    <3>2. ASSUME NEW k \in stayed PROVE ~(k <= 0)
      <4>1. k \in Faces
        BY <1>6, <3>1
      <4>2. k \in Nat /\ k > 0
        BY <1>7, <4>1
      <4> QED
        BY <4>2
    <3> QED
      BY <3>1, <3>2
  <2>2. CASE ~first
    BY <1>1, <1>2, <1>3, <1>4, <2>2 DEF CatInv, CatTyped, PagesOK
  <2> QED
    BY <2>1, <2>2
<1>9. c \in Nat
  BY <1>7, <1>8
<1>10. PICK last : last = Cat!NextCursor(c)
  OBVIOUS
<1>11. \A d : Cat!After(d) = {k \in Cat!NamesIn(k_tools) : k > d}
  BY <1>5 DEF Cat!After
<1>12. /\ Cat!Page(c) \subseteq {k \in Cat!NamesIn(k_tools) : k > c}
       /\ last \in {k \in Cat!NamesIn(k_tools) : k > c} \cup {c}
       /\ \A k \in Cat!Page(c) : k <= last
       /\ \A k \in Cat!NamesIn(k_tools) : k > c /\ k <= last => k \in Cat!Page(c)
  BY <1>9, <1>10, <1>11, Pages
<1>13. last \in Faces \cup {0} /\ c <= last /\ last \in Nat
  <2>1. last = c \/ (last \in Faces /\ last > c)
    BY <1>6, <1>12
  <2>2. last \in Faces => last \in Nat
    BY <1>7
  <2>3. last > c /\ last \in Nat => c <= last
    BY <1>9
  <2> QED
    BY <1>8, <1>9, <2>1, <2>2, <2>3
<1>14. Cat!Page(c) \cap seen = {}
  <2>1. \A k \in Cat!Page(c) : k \in Nat /\ k > c
    BY <1>6, <1>7, <1>12
  <2>2. \A k \in Cat!Page(c) : k \notin seen
    BY <1>8, <1>9, <2>1
  <2> QED
    BY <2>2
<1>15. \A k \in seen \cup Cat!Page(c) : k <= last
  BY <1>7, <1>8, <1>9, <1>12, <1>13
<1>16. \A k \in stayed : k <= last => k \in seen \cup Cat!Page(c)
  <2> SUFFICES ASSUME NEW k \in stayed, k <= last PROVE k \in seen \cup Cat!Page(c)
    OBVIOUS
  <2>1. k \in Cat!NamesIn(k_tools) /\ k \in Nat
    BY <1>6, <1>7, <1>8
  <2>2. k <= c \/ k > c
    BY <1>9, <2>1
  <2> QED
    BY <1>8, <1>12, <2>1, <2>2
<1>17. /\ k_listing'.open = (Cat!After(last) # {}) /\ k_listing'.cursor = last
       /\ k_listing'.seen = seen \cup Cat!Page(c) /\ k_listing'.stayed = stayed
       /\ ~k_listing'.again
  <2>1. ~k_listing.again
    BY DEF CatInv, PagesOK
  <2> QED
    BY <1>4, <1>10, <1>14, <2>1
<1>18. CatTyped'
  <2>1. k_listing' \in [open : BOOLEAN, cursor : Faces \cup {0}, seen : SUBSET Faces,
                        again : BOOLEAN, stayed : SUBSET Faces]
    BY <1>4, <1>6, <1>8, <1>10, <1>12, <1>13
  <2> QED
    BY <1>4, <2>1 DEF CatInv, CatTyped
<1>19. ToolsOK' /\ ResourcesOK' /\ TemplatesOK'
  BY <1>4 DEF CatInv, ToolsOK, ResourcesOK, TemplatesOK, Cat!Projected, Cat!FaceOf
<1>20. PagesOK'
  <2>1. k_listing'.open => k_listing'.stayed \subseteq Cat!NamesIn(k_tools)'
    BY <1>4, <1>8, <1>17 DEF Cat!NamesIn
  <2>2. ~k_listing'.open => k_listing'.stayed \subseteq k_listing'.seen
    <3> SUFFICES ASSUME Cat!After(last) = {}, NEW k \in stayed PROVE k \in seen \cup Cat!Page(c)
      BY <1>17
    <3>1. k \in Cat!NamesIn(k_tools) /\ k \in Nat /\ ~(k > last)
      BY <1>6, <1>7, <1>8, <1>11
    <3> QED
      BY <1>13, <1>16, <3>1
  <2> QED
    BY <1>4, <1>5, <1>15, <1>16, <1>17, <2>1, <2>2 DEF PagesOK
<1> QED
  BY <1>18, <1>19, <1>20 DEF CatInv

LEMMA CatPreserved ==
    ASSUME CatInv, Cat!Next \/ UNCHANGED catVars
    PROVE  CatInv'
<1>1. ASSUME NEW n \in Names, NEW T \in SUBSET Tools, NEW x \in BOOLEAN, Cat!Install(n, T, x)
      PROVE  CatInv'
  BY <1>1, CatMerge DEF Cat!Install
<1>2. ASSUME NEW n \in Names, NEW T \in SUBSET Tools, Cat!Relist(n, T)
      PROVE  CatInv'
  <2>1. /\ Cat!Merge(n, T, n \in k_aux, Cat!Without(n)) /\ (n \in k_aux) \in BOOLEAN
        /\ k_version' = k_version /\ k_todo' = k_todo
    BY <1>2 DEF Cat!Relist
  <2> QED
    BY <2>1, CatMerge, Zenon
<1>3. ASSUME NEW n \in Names, Cat!Remerge(n)
      PROVE  CatInv'
  <2>1. CASE n \in k_conns
    <3>1. k_raw[n] \in SUBSET Tools
      BY DEF CatInv, CatTyped
    <3>2. /\ Cat!Merge(n, k_raw[n], n \in k_aux, Cat!Without(n)) /\ (n \in k_aux) \in BOOLEAN
          /\ k_version' = k_version /\ k_todo' = k_todo \ {n}
      BY <1>3, <2>1 DEF Cat!Remerge
    <3> QED
      BY <3>1, <3>2, CatMerge, Zenon
  <2>2. CASE n \notin k_conns
    <3>1. /\ k_todo' = k_todo \ {n}
          /\ UNCHANGED <<k_conns, k_raw, k_aux, k_tools, k_resources, k_templates, k_defects,
                         k_version, k_cached, k_cacheValid, k_listing>>
      BY <1>3, <2>2 DEF Cat!Remerge, Cat!catalogVars
    <3>2. CatTyped' /\ ResourcesOK' /\ TemplatesOK'
      BY <3>1 DEF CatInv, CatTyped, ResourcesOK, TemplatesOK
    <3>3. PagesOK'
      BY <3>1 DEF CatInv, PagesOK, Cat!NamesIn
    <3>4. \A m, t : Cat!FaceOf(m, t)' = Cat!FaceOf(m, t)
      BY <3>1 DEF Cat!FaceOf
    <3>5. \A m, T : Cat!Projected(m, T)' = Cat!Projected(m, T)
      BY <3>4 DEF Cat!Projected
    <3>6. \A d \in k_tools : d.up # n
      BY <2>2 DEF CatInv, CatTyped
    <3>7. ToolsOK'
      BY <2>2, <3>1, <3>4, <3>5, <3>6 DEF CatInv, ToolsOK
    <3> QED
      BY <3>2, <3>3, <3>7 DEF CatInv
  <2> QED
    BY <2>1, <2>2
<1>4. CASE UNCHANGED catVars
  BY <1>4 DEF catVars, CatInv, CatTyped, ToolsOK, ResourcesOK, TemplatesOK, PagesOK,
     Cat!NamesIn, Cat!Projected, Cat!FaceOf
<1> QED
  BY <1>1, <1>2, <1>3, <1>4, CatDrop, CatSwap, CatServe DEF Cat!Next

LEMMA CatGoes ==
    ASSUME [Cat!Next]_(Cat!vars)
    PROVE  Cat!Next \/ UNCHANGED catVars
  BY DEF Cat!vars, Cat!catalogVars, catVars

LEMMA CatStart == Cat!Init => CatInv
<1> SUFFICES ASSUME Cat!Init PROVE CatInv
  OBVIOUS
<1>1. CatTyped
  <2>1. k_version \in Cat!Versions
    BY CatalogAssumption DEF Cat!Init, Cat!Versions
  <2> QED
    BY <2>1 DEF Cat!Init, CatTyped, Cat!NoListing
<1>2. TemplatesOK
  BY EmptySeq DEF Cat!Init, TemplatesOK
<1> QED
  BY <1>1, <1>2 DEF Cat!Init, CatInv, ToolsOK, ResourcesOK, PagesOK, Cat!NoListing

(* Who is asked for a uri has it, or a template for it. *)
LEMMA OwnersAreInstalled ==
    ASSUME CatInv, NEW u
    PROVE  Cat!Owner(u) \subseteq k_conns /\ \A m, o \in Cat!Owner(u) : m = o
<1>1. CASE \E d \in k_resources : d.uri = u
  BY <1>1 DEF Cat!Owner, CatInv, CatTyped, ResourcesOK
<1>2. CASE ~\E d \in k_resources : d.uri = u
  <2>1. Cat!Owner(u) = {k_templates[i] :
              i \in {i \in Cat!Fits(u) : \A j \in Cat!Fits(u) : i <= j}}
    BY <1>2 DEF Cat!Owner
  <2>2. Cat!Fits(u) \subseteq 1 .. Len(k_templates) /\ Len(k_templates) \in Nat
    BY DEF Cat!Fits, CatInv, TemplatesOK
  <2>3. \A i \in 1 .. Len(k_templates) : k_templates[i] \in k_conns
    BY DEF CatInv, CatTyped, TemplatesOK
  <2>4. \A i, l \in {i \in Cat!Fits(u) : \A j \in Cat!Fits(u) : i <= j} : i = l
    BY <2>2
  <2> QED
    BY <2>1, <2>2, <2>3, <2>4
<1> QED
  BY <1>1, <1>2

(* The list never lies: every name is one tool, of the upstream that has   *)
(* it and as the filter in force names it, no tool is hidden that was not  *)
(* reported, every uri is read from one installed upstream; and who pages  *)
(* through it meets every tool that stays, once (mergeLocked,              *)
(* resolveResourceOwner, paginatedToolsList).                              *)
THEOREM CatalogAlone == Cat!Safety => []CatalogIsHonest
<1>1. CatInv => CatalogIsHonest
  <2> SUFFICES ASSUME CatInv PROVE Cat!CatalogIsTrue /\ Cat!PagesMissNothing
    BY DEF CatalogIsHonest
  <2>1. /\ \A d, e \in k_tools : d.name = e.name => d = e
        /\ \A d \in k_tools : d.up \in k_conns /\ d.orig \in k_raw[d.up]
        /\ \A d \in k_tools : d.up \in k_todo \/ d.name = Cat!FaceOf(d.up, d.orig)
        /\ \A n \in k_conns \ k_todo : \A d \in Cat!Projected(n, k_raw[n]) :
              d \in k_tools \/ d.name \in k_defects[n]
    BY DEF CatInv, CatTyped, ToolsOK
  <2>2. \A n \in k_conns \cap k_aux : Listed[n] \subseteq
            {d.uri : d \in {d \in k_resources : d.up = n}} \cup k_defects[n]
    <3> SUFFICES ASSUME NEW n \in k_aux, NEW u \in Listed[n], u \notin k_defects[n]
                 PROVE  \E d \in k_resources : d.up = n /\ d.uri = u
      OBVIOUS
    <3>1. [uri |-> u, up |-> n] \in k_resources
      BY DEF CatInv, ResourcesOK
    <3> QED
      BY <3>1
  <2>3. Cat!CatalogIsTrue
    BY <2>1, <2>2, OwnersAreInstalled DEF Cat!CatalogIsTrue
  <2>4. Cat!PagesMissNothing
    BY DEF CatInv, PagesOK, Cat!PagesMissNothing
  <2> QED
    BY <2>3, <2>4
<1>2. CatInv /\ [Cat!Next]_(Cat!vars) => CatInv'
  BY CatGoes, CatPreserved
<1> QED
  BY <1>1, <1>2, CatStart, PTL DEF Cat!Safety

(* ... and so it is beside the other components. *)
THEOREM CatalogNeverLies == PartsSpec => []CatalogIsHonest
  BY CatalogAlone, PartsRun

-----------------------------------------------------------------------------
(* Journal. *)

Increasing(s) == \A i, k \in 1 .. Len(s) : i < k => s[i] < s[k]
Elements(s)   == {s[i] : i \in 1 .. Len(s)}

(* Journal's instance counts as FiniteSets does. *)
LEMMA LogCardinality == \A S : Log!Cardinality(S) = Cardinality(S)
  BY DEF Log!Cardinality, Cardinality

(* A finite set of naturals can be put in order ... *)
LEMMA CanBeOrdered ==
    ASSUME NEW S \in SUBSET Nat, IsFiniteSet(S)
    PROVE  \E p \in [1 .. Cardinality(S) -> S] :
              \A i, k \in 1 .. Cardinality(S) : i < k => p[i] < p[k]
<1> DEFINE Ordered(T) == \E p \in [1 .. Cardinality(T) -> T] :
                            \A i, k \in 1 .. Cardinality(T) : i < k => p[i] < p[k]
           Bad == {n \in Nat : \E T \in SUBSET Nat :
                      IsFiniteSet(T) /\ Cardinality(T) = n /\ ~Ordered(T)}
<1>1. ASSUME Bad # {} PROVE FALSE
  <2>1. PICK n \in Bad : \A m \in Bad : n <= m
    BY <1>1, Least
  <2>2. PICK T \in SUBSET Nat : IsFiniteSet(T) /\ Cardinality(T) = n /\ ~Ordered(T)
    BY <2>1
  <2>3. T # {}
    <3> SUFFICES ASSUME T = {} PROVE Ordered(T)
      BY <2>2
    <3>1. Cardinality(T) = 0 /\ 1 .. 0 = {}
      BY FS_EmptySet
    <3>2. [i \in {} |-> 0] \in [1 .. Cardinality(T) -> T]
      BY <3>1
    <3> QED
      BY <3>1, <3>2
  <2>4. PICK x \in T : \A y \in T : y <= x
    BY <2>2, <2>3, Greatest
  <2> DEFINE U == T \ {x}
  <2>5. /\ IsFiniteSet(U) /\ Cardinality(U) = n - 1
        /\ Cardinality(U) \in Nat /\ U \in SUBSET Nat
    BY <2>2, <2>4, FS_RemoveElement, FS_CardinalityType
  <2>6. n - 1 \notin Bad
    BY <2>1
  <2>7. Ordered(U)
    BY <2>5, <2>6
  <2>8. PICK p \in [1 .. n - 1 -> U] : \A i, k \in 1 .. n - 1 : i < k => p[i] < p[k]
    BY <2>5, <2>7
  <2> DEFINE q == [i \in 1 .. n |-> IF i < n THEN p[i] ELSE x]
  <2>9. n \in Nat /\ \A i \in 1 .. n - 1 : p[i] \in U
    BY <2>1, <2>8
  <2>10. \A i \in 1 .. n : q[i] = (IF i < n THEN p[i] ELSE x) /\ (i < n => i \in 1 .. n - 1)
    BY <2>9
  <2>11. q \in [1 .. n -> T]
    BY <2>4, <2>9, <2>10
  <2>12. \A i, k \in 1 .. n : i < k => q[i] < q[k]
    <3> SUFFICES ASSUME NEW i \in 1 .. n, NEW k \in 1 .. n, i < k PROVE q[i] < q[k]
      OBVIOUS
    <3> HIDE DEF q
    <3>1. i < n /\ q[i] = p[i] /\ p[i] \in U /\ i \in 1 .. n - 1
      BY <2>9, <2>10
    <3>2. CASE k < n
      <4>1. k \in 1 .. n - 1 /\ q[k] = p[k]
        BY <2>10, <3>2
      <4> QED
        BY <2>8, <3>1, <4>1
    <3>3. CASE k = n
      <4>1. q[k] = x
        BY <2>9, <2>10, <3>3
      <4>2. p[i] \in Nat /\ x \in Nat /\ p[i] # x /\ p[i] <= x
        BY <2>2, <2>4, <3>1
      <4> QED
        BY <3>1, <4>1, <4>2
    <3> QED
      BY <2>9, <3>2, <3>3
  <2> HIDE DEF q
  <2> QED
    BY <2>2, <2>11, <2>12
<1>2. Cardinality(S) \in Nat
  BY FS_CardinalityType
<1> QED
  BY <1>1, <1>2

(* ... and is, all of it. *)
LEMMA Ordering ==
    ASSUME NEW S \in SUBSET Nat, IsFiniteSet(S)
    PROVE  /\ Log!InOrder(S) \in Seq(S) /\ Len(Log!InOrder(S)) = Cardinality(S)
           /\ Increasing(Log!InOrder(S)) /\ Elements(Log!InOrder(S)) = S
<1> DEFINE n == Cardinality(S)
           p == Log!InOrder(S)
<1>1. n \in Nat
  BY FS_CardinalityType
<1>2. p = CHOOSE p_1 \in [1 .. n -> S] : \A i, k \in 1 .. n : i < k => p_1[i] < p_1[k]
  BY LogCardinality, Zenon DEF Log!InOrder
<1>3. \E p_1 \in [1 .. n -> S] : \A i, k \in 1 .. n : i < k => p_1[i] < p_1[k]
  BY CanBeOrdered
<1> HIDE DEF p
<1>4. p \in [1 .. n -> S] /\ \A i, k \in 1 .. n : i < k => p[i] < p[k]
  BY <1>2, <1>3, Zenon
<1>5. p \in Seq(S) /\ Len(p) = n
  BY <1>1, <1>4
<1>6. Increasing(p)
  BY <1>4, <1>5 DEF Increasing
<1>7. p \in Injection(1 .. n, S)
  <2>1. \A i, k \in 1 .. n : p[i] = p[k] => i = k
    <3> SUFFICES ASSUME NEW i \in 1 .. n, NEW k \in 1 .. n, i # k PROVE p[i] # p[k]
      OBVIOUS
    <3>1. p[i] \in Nat /\ p[k] \in Nat
      <4>1. p[i] \in S /\ p[k] \in S
        BY <1>4
      <4> QED
        BY <4>1
    <3>2. p[i] < p[k] \/ p[k] < p[i]
      <4>1. i < k \/ k < i
        BY <1>1
      <4> QED
        BY <1>4, <4>1
    <3> QED
      BY <3>1, <3>2
  <2> QED
    BY <1>4, <2>1 DEF Injection, IsInjective
<1>8. IsFiniteSet(1 .. n) /\ Cardinality(1 .. n) = n
  BY <1>1, FS_Interval
<1>9. p \in Surjection(1 .. n, S)
  BY <1>7, <1>8, FS_Injection
<1>10. Elements(p) = S
  BY <1>4, <1>5, <1>9 DEF Elements, Surjection
<1> QED
  BY <1>5, <1>6, <1>10 DEF p

(* Two increasing sequences of the same elements are the same. *)
LEMMA IncreasingIsOne ==
    ASSUME NEW s \in Seq(Nat), NEW t \in Seq(Nat), Increasing(s), Increasing(t),
           Elements(s) = Elements(t)
    PROVE  s = t
<1>1. Len(s) \in Nat /\ Len(t) \in Nat
  OBVIOUS
<1>2. /\ \A i \in 1 .. Len(s) : s[i] \in Nat /\ \E k \in 1 .. Len(t) : s[i] = t[k]
      /\ \A i \in 1 .. Len(t) : t[i] \in Nat /\ \E k \in 1 .. Len(s) : t[i] = s[k]
  <2>1. \A i \in 1 .. Len(s) : s[i] \in Elements(s)
    BY DEF Elements
  <2>2. \A i \in 1 .. Len(t) : t[i] \in Elements(t)
    BY DEF Elements
  <2>3. /\ \A x \in Elements(s) : \E k \in 1 .. Len(t) : x = t[k]
        /\ \A x \in Elements(t) : \E k \in 1 .. Len(s) : x = s[k]
    BY DEF Elements
  <2>4. \A i \in 1 .. Len(s) : s[i] \in Nat /\ s[i] \in Elements(t)
    BY <2>1
  <2>5. \A i \in 1 .. Len(t) : t[i] \in Nat /\ t[i] \in Elements(s)
    BY <2>2
  <2> QED
    BY <2>3, <2>4, <2>5
<1> DEFINE Bad == {i \in Nat : i \in 1 .. Len(s) /\ i \in 1 .. Len(t) /\ s[i] # t[i]}
<1>3. ASSUME Bad # {} PROVE FALSE
  <2>1. PICK n \in Bad : \A m \in Bad : n <= m
    BY <1>3, Least
  <2>2. \A i \in 1 .. n - 1 : i \in 1 .. Len(s) /\ i \in 1 .. Len(t) /\ s[i] = t[i]
    BY <1>1, <2>1
  <2>3. n \in 1 .. Len(s) /\ n \in 1 .. Len(t) /\ s[n] # t[n] /\ s[n] \in Nat /\ t[n] \in Nat
    BY <1>2, <2>1
  <2>4. CASE s[n] < t[n]
    <3>1. PICK k \in 1 .. Len(t) : s[n] = t[k]
      BY <1>2, <2>3
    <3>2. k < n
      BY <2>3, <2>4, <3>1 DEF Increasing
    <3>3. s[k] = t[k] /\ k \in 1 .. Len(s)
      BY <2>2, <2>3, <3>1, <3>2
    <3>4. s[k] < s[n]
      BY <2>3, <3>2, <3>3 DEF Increasing
    <3> QED
      BY <2>3, <3>1, <3>3, <3>4
  <2>5. CASE t[n] < s[n]
    <3>1. PICK k \in 1 .. Len(s) : t[n] = s[k]
      BY <1>2, <2>3
    <3>2. k < n
      BY <2>3, <2>5, <3>1 DEF Increasing
    <3>3. s[k] = t[k] /\ k \in 1 .. Len(t)
      BY <2>2, <2>3, <3>1, <3>2
    <3>4. t[k] < t[n]
      BY <2>3, <3>2, <3>3 DEF Increasing
    <3> QED
      BY <2>3, <3>1, <3>3, <3>4
  <2> QED
    BY <2>3, <2>4, <2>5
<1>4. \A i \in 1 .. Len(s) : i \in 1 .. Len(t) => s[i] = t[i]
  BY <1>1, <1>3
<1>5. ~(Len(s) < Len(t))
  <2> SUFFICES ASSUME Len(s) < Len(t) PROVE FALSE
    OBVIOUS
  <2>1. Len(t) \in 1 .. Len(t)
    BY <1>1
  <2>2. PICK k \in 1 .. Len(s) : t[Len(t)] = s[k]
    BY <1>2, <2>1
  <2>3. k \in 1 .. Len(t) /\ k < Len(t) /\ s[k] = t[k]
    BY <1>1, <1>4, <2>2
  <2>4. t[k] < t[Len(t)] /\ t[k] \in Nat
    BY <1>2, <2>1, <2>3 DEF Increasing
  <2> QED
    BY <2>2, <2>3, <2>4
<1>6. ~(Len(t) < Len(s))
  <2> SUFFICES ASSUME Len(t) < Len(s) PROVE FALSE
    OBVIOUS
  <2>1. Len(s) \in 1 .. Len(s)
    BY <1>1
  <2>2. PICK k \in 1 .. Len(t) : s[Len(s)] = t[k]
    BY <1>2, <2>1
  <2>3. k \in 1 .. Len(s) /\ k < Len(s) /\ s[k] = t[k]
    BY <1>1, <1>4, <2>2
  <2>4. s[k] < s[Len(s)] /\ s[k] \in Nat
    BY <1>2, <2>1, <2>3 DEF Increasing
  <2> QED
    BY <2>2, <2>3, <2>4
<1>7. Len(s) = Len(t)
  BY <1>1, <1>5, <1>6
<1> QED
  BY <1>4, <1>7, SeqEqual

(* What of an increasing sequence stands at some places, in their order.   *)
LEMMA Selected ==
    ASSUME NEW s \in Seq(Nat), NEW P \in SUBSET (1 .. Len(s)),
           \A i, k \in P : i < k => s[i] < s[k]
    PROVE  /\ IsFiniteSet({s[i] : i \in P}) /\ {s[i] : i \in P} \in SUBSET Nat
           /\ Log!Select(s, P) = Log!InOrder({s[i] : i \in P})
<1>1. P \in SUBSET Nat /\ IsFiniteSet(P) /\ Cardinality(P) \in Nat
  <2>1. IsFiniteSet(1 .. Len(s))
    <3>1. 1 \in Int /\ Len(s) \in Int
      OBVIOUS
    <3> QED
      BY <3>1, FS_Interval
  <2>2. IsFiniteSet(P)
    BY <2>1, FS_Subset
  <2> QED
    BY <2>2, FS_CardinalityType
<1> DEFINE p == Log!InOrder(P)
           n == Cardinality(P)
           q == [i \in 1 .. n |-> s[p[i]]]
           S == {s[i] : i \in P}
<1>2. p \in Seq(P) /\ Len(p) = n /\ Increasing(p) /\ Elements(p) = P
  BY <1>1, Ordering
<1>3. Log!Select(s, P) = q
  BY LogCardinality, Zenon DEF Log!Select
<1> HIDE DEF p, n
<1>4. \A i \in 1 .. n : p[i] \in P /\ p[i] \in 1 .. Len(s) /\ s[p[i]] \in Nat
  <2>1. \A i \in 1 .. n : p[i] \in P
    BY <1>2
  <2>2. \A x \in P : x \in 1 .. Len(s) /\ s[x] \in Nat
    OBVIOUS
  <2> QED
    BY <2>1, <2>2
<1>5. q \in Seq(Nat) /\ Len(q) = n /\ \A i \in 1 .. n : q[i] = s[p[i]]
  <2>1. n \in Nat
    BY <1>1 DEF n
  <2> QED
    BY <1>4, <2>1
<1> HIDE DEF q
<1>6. Increasing(q)
  <2> SUFFICES ASSUME NEW i \in 1 .. n, NEW k \in 1 .. n, i < k PROVE q[i] < q[k]
    BY <1>5 DEF Increasing
  <2>1. p[i] < p[k]
    BY <1>2 DEF Increasing
  <2> QED
    BY <1>4, <1>5, <2>1
<1>7. Elements(q) = S
  <2>1. ASSUME NEW x \in Elements(q) PROVE x \in S
    <3>1. PICK i \in 1 .. n : x = q[i]
      BY <1>5, <2>1 DEF Elements
    <3> QED
      BY <1>4, <1>5, <3>1
  <2>2. ASSUME NEW x \in S PROVE x \in Elements(q)
    <3>1. PICK k \in P : x = s[k]
      BY <2>2
    <3>2. PICK i \in 1 .. n : k = p[i]
      BY <1>2, <3>1 DEF Elements
    <3> QED
      BY <1>5, <3>1, <3>2 DEF Elements
  <2> QED
    BY <2>1, <2>2
<1>8. S \in SUBSET Nat
  <2>1. \A i \in P : s[i] \in Nat
    OBVIOUS
  <2> QED
    BY <2>1
<1>9. IsFiniteSet(S)
  <2>1. [i \in P |-> s[i]] \in Surjection(P, S)
    BY DEF Surjection
  <2> QED
    BY <1>1, <2>1, FS_Surjection
<1> HIDE DEF S
<1>10. q = Log!InOrder(S)
  <2>1. /\ Log!InOrder(S) \in Seq(S) /\ Increasing(Log!InOrder(S))
        /\ Elements(Log!InOrder(S)) = S
    BY <1>8, <1>9, Ordering
  <2>2. Log!InOrder(S) \in Seq(Nat)
    BY <1>8, <2>1, SeqMonotonic
  <2> QED
    BY <1>5, <1>6, <1>7, <2>1, <2>2, IncreasingIsOne
<1> QED
  BY <1>3, <1>8, <1>9, <1>10 DEF S

(* What comes later, put behind what comes before. *)
LEMMA OrderedUnion ==
    ASSUME NEW S \in SUBSET Nat, NEW T \in SUBSET Nat, IsFiniteSet(S), IsFiniteSet(T),
           \A x \in S, y \in T : x < y
    PROVE  Log!InOrder(S) \o Log!InOrder(T) = Log!InOrder(S \cup T)
<1> DEFINE s == Log!InOrder(S)
           t == Log!InOrder(T)
           u == Log!InOrder(S \cup T)
<1>1. /\ s \in Seq(S) /\ Increasing(s) /\ Elements(s) = S
      /\ t \in Seq(T) /\ Increasing(t) /\ Elements(t) = T
  BY Ordering
<1>2. IsFiniteSet(S \cup T) /\ S \cup T \in SUBSET Nat
  BY FS_Union
<1>3. u \in Seq(S \cup T) /\ Increasing(u) /\ Elements(u) = S \cup T
  BY <1>2, Ordering
<1> HIDE DEF s, t, u
<1>4. s \in Seq(Nat) /\ t \in Seq(Nat) /\ u \in Seq(Nat)
  BY <1>1, <1>2, <1>3, SeqMonotonic
<1>5. /\ s \o t \in Seq(Nat) /\ Len(s \o t) = Len(s) + Len(t)
      /\ Len(s) \in Nat /\ Len(t) \in Nat
      /\ \A i \in 1 .. Len(s) + Len(t) :
            (s \o t)[i] = IF i <= Len(s) THEN s[i] ELSE t[i - Len(s)]
  BY <1>4, ConcatProperties
<1>6. /\ \A i \in 1 .. Len(s) : s[i] \in S
      /\ \A i \in 1 .. Len(t) : t[i] \in T
  BY <1>1
<1>7. Increasing(s \o t)
  <2> SUFFICES ASSUME NEW i \in 1 .. Len(s) + Len(t), NEW k \in 1 .. Len(s) + Len(t), i < k
               PROVE  (s \o t)[i] < (s \o t)[k]
    BY <1>5 DEF Increasing
  <2>1. CASE k <= Len(s)
    <3>1. i \in 1 .. Len(s) /\ k \in 1 .. Len(s)
      BY <1>5, <2>1
    <3> QED
      BY <1>1, <1>5, <3>1 DEF Increasing
  <2>2. CASE i <= Len(s) /\ Len(s) < k
    <3>1. i \in 1 .. Len(s) /\ k - Len(s) \in 1 .. Len(t)
      BY <1>5, <2>2
    <3>2. s[i] \in S /\ t[k - Len(s)] \in T
      BY <1>6, <3>1
    <3>3. (s \o t)[i] = s[i] /\ (s \o t)[k] = t[k - Len(s)]
      BY <1>5, <2>2
    <3> QED
      BY <3>2, <3>3
  <2>3. CASE Len(s) < i
    <3>1. i - Len(s) \in 1 .. Len(t) /\ k - Len(s) \in 1 .. Len(t) /\ i - Len(s) < k - Len(s)
      BY <1>5, <2>3
    <3>2. (s \o t)[i] = t[i - Len(s)] /\ (s \o t)[k] = t[k - Len(s)]
      BY <1>5, <2>3
    <3> QED
      BY <1>1, <3>1, <3>2 DEF Increasing
  <2> QED
    BY <1>5, <2>1, <2>2, <2>3
<1>8. Elements(s \o t) = S \cup T
  <2>1. ASSUME NEW x \in Elements(s \o t) PROVE x \in S \cup T
    <3>1. PICK i \in 1 .. Len(s) + Len(t) : x = (s \o t)[i]
      BY <1>5, <2>1 DEF Elements
    <3>2. i \in 1 .. Len(s) \/ i - Len(s) \in 1 .. Len(t)
      BY <1>5
    <3> QED
      BY <1>5, <1>6, <3>1, <3>2
  <2>2. ASSUME NEW x \in S PROVE x \in Elements(s \o t)
    <3>1. PICK i \in 1 .. Len(s) : x = s[i]
      BY <1>1, <2>2 DEF Elements
    <3>2. i \in 1 .. Len(s) + Len(t) /\ (s \o t)[i] = s[i]
      BY <1>5
    <3> QED
      BY <1>5, <3>1, <3>2 DEF Elements
  <2>3. ASSUME NEW x \in T PROVE x \in Elements(s \o t)
    <3>1. PICK i \in 1 .. Len(t) : x = t[i]
      BY <1>1, <2>3 DEF Elements
    <3>2. i + Len(s) \in 1 .. Len(s) + Len(t) /\ (s \o t)[i + Len(s)] = t[i]
      BY <1>5
    <3> QED
      BY <1>5, <3>1, <3>2 DEF Elements
  <2> QED
    BY <2>1, <2>2, <2>3
<1> QED
  BY <1>3, <1>4, <1>5, <1>7, <1>8, IncreasingIsOne DEF s, t, u

-----------------------------------------------------------------------------
(* The journal's bytes come in the order in which they are written.        *)
AnyByte      == Nat \X {"text", "newline"}
Before(b, c) == b[1] < c[1] \/ (b[1] = c[1] /\ b[2] = "text" /\ c[2] = "newline")
Sorted(b)    == \A i, k \in 1 .. Len(b) : i < k => Before(b[i], b[k])

(* Cut is where the last complete line ends. *)
LEMMA Cutting ==
    ASSUME NEW b \in Seq(AnyByte)
    PROVE  /\ Log!Cut(b) \in 0 .. Len(b)
           /\ \A i \in 1 .. Len(b) : i > Log!Cut(b) => b[i][2] = "text"
           /\ Log!Cut(b) # 0 => b[Log!Cut(b)][2] = "newline"
<1> DEFINE S == {0} \cup {i \in DOMAIN b : b[i][2] = "newline"}
<1>1. Log!Cut(b) = CHOOSE x \in S : \A y \in S : x >= y
  BY DEF Log!Cut, Log!Max
<1>2. DOMAIN b = 1 .. Len(b) /\ Len(b) \in Nat /\ \A i \in 1 .. Len(b) : b[i] \in AnyByte
  OBVIOUS
<1>3. S # {} /\ S \in SUBSET Nat /\ \A x \in S : x <= Len(b)
  BY <1>2
<1>4. \A x : x \in S <=> x = 0 \/ (x \in 1 .. Len(b) /\ b[x][2] = "newline")
  BY <1>2
<1> HIDE DEF S
<1>5. IsFiniteSet(S)
  BY <1>2, <1>3, FS_BoundedSetOfNaturals
<1>6. \E x \in S : \A y \in S : x >= y
  <2>1. PICK x \in S : \A y \in S : y <= x
    BY <1>3, <1>5, Greatest
  <2> QED
    BY <1>3, <2>1
<1>7. Log!Cut(b) \in S /\ \A y \in S : Log!Cut(b) >= y
  BY <1>1, <1>6, Zenon
<1>8. Log!Cut(b) \in 0 .. Len(b)
  <2>1. Log!Cut(b) \in Nat /\ Log!Cut(b) <= Len(b)
    BY <1>3, <1>7
  <2> QED
    BY <1>2, <2>1
<1>9. ASSUME NEW i \in 1 .. Len(b), i > Log!Cut(b) PROVE b[i][2] = "text"
  <2>1. i \notin S
    BY <1>2, <1>7, <1>8, <1>9
  <2>2. b[i][2] # "newline" /\ b[i] \in AnyByte
    BY <1>2, <1>4, <2>1
  <2> QED
    BY <2>2 DEF AnyByte
<1> QED
  BY <1>4, <1>7, <1>8, <1>9

(* Of bytes in order, the lines that decode and are wanted, in order. *)
Kept(b, r) ==
    {n \in {b[i][1] : i \in Log!Decoded(b, r)} : j_lines[n].kind \in Wanted}

(* What a read prints of them is those, in order. *)
LEMMA Reading ==
    ASSUME NEW b \in Seq(AnyByte), Sorted(b), NEW r \in BOOLEAN
    PROVE  /\ IsFiniteSet(Kept(b, r)) /\ Kept(b, r) \in SUBSET Nat
           /\ Log!Matching(Log!ReadEntries(b, r)) = Log!InOrder(Kept(b, r))
<1> DEFINE ns == [i \in DOMAIN b |-> b[i][1]]
           P  == Log!Decoded(b, r)
           D  == {ns[i] : i \in P}
           e  == Log!InOrder(D)
           Q  == {i \in DOMAIN e : j_lines[e[i]].kind \in Wanted}
           K  == {e[i] : i \in Q}
<1>1. /\ DOMAIN b = 1 .. Len(b) /\ Len(b) \in Nat
      /\ \A i \in 1 .. Len(b) : b[i][1] \in Nat /\ b[i][2] \in {"text", "newline"}
  <2>1. \A i \in 1 .. Len(b) : b[i] \in AnyByte
    OBVIOUS
  <2> QED
    BY <2>1 DEF AnyByte
<1>2. ns \in Seq(Nat) /\ Len(ns) = Len(b) /\ \A i \in 1 .. Len(b) : ns[i] = b[i][1]
  BY <1>1
<1>3. P \subseteq 1 .. Len(b) /\ \A i \in P : b[i][2] = "newline"
  BY <1>1 DEF Log!Decoded, Log!Whole
<1>4. Log!ReadEntries(b, r) = Log!Select(ns, P)
  BY DEF Log!ReadEntries
<1>5. \A n : n \in Kept(b, r) <=> n \in D /\ j_lines[n].kind \in Wanted
  BY <1>2, <1>3 DEF Kept
<1> HIDE DEF ns, P
<1>6. \A i, k \in P : i < k => ns[i] < ns[k]
  <2> SUFFICES ASSUME NEW i \in P, NEW k \in P, i < k PROVE ns[i] < ns[k]
    OBVIOUS
  <2>1. i \in 1 .. Len(b) /\ k \in 1 .. Len(b) /\ b[k][2] = "newline" /\ b[i][2] = "newline"
    BY <1>3
  <2>2. Before(b[i], b[k])
    BY <2>1 DEF Sorted
  <2> QED
    BY <1>2, <2>1, <2>2 DEF Before
<1>7. P \in SUBSET (1 .. Len(ns))
  BY <1>2, <1>3
<1>8. IsFiniteSet(D) /\ D \in SUBSET Nat /\ Log!Select(ns, P) = e
  BY <1>2, <1>6, <1>7, Selected
<1> HIDE DEF D
<1>9. e \in Seq(D) /\ Increasing(e) /\ Elements(e) = D
  BY <1>8, Ordering
<1> HIDE DEF e
<1>10. e \in Seq(Nat)
  BY <1>8, <1>9, SeqMonotonic
<1>11. Q \in SUBSET (1 .. Len(e)) /\ DOMAIN e = 1 .. Len(e)
  BY <1>10
<1>12. Log!Matching(e) = Log!Select(e, Q)
  BY DEF Log!Matching
<1>13. K = Kept(b, r)
  <2>1. ASSUME NEW x \in K PROVE x \in Kept(b, r)
    <3>1. PICK i \in 1 .. Len(e) : x = e[i] /\ j_lines[e[i]].kind \in Wanted
      BY <1>11, <2>1
    <3>2. x \in D
      BY <1>9, <3>1 DEF Elements
    <3> QED
      BY <1>5, <3>1, <3>2
  <2>2. ASSUME NEW x \in Kept(b, r) PROVE x \in K
    <3>1. x \in Elements(e) /\ j_lines[x].kind \in Wanted
      BY <1>5, <1>9, <2>2
    <3>2. PICK i \in 1 .. Len(e) : x = e[i]
      BY <3>1 DEF Elements
    <3> QED
      BY <1>11, <3>1, <3>2
  <2> QED
    BY <2>1, <2>2
<1> HIDE DEF Q
<1>14. \A i, k \in Q : i < k => e[i] < e[k]
  BY <1>9, <1>11 DEF Increasing
<1>15. IsFiniteSet(K) /\ K \in SUBSET Nat /\ Log!Select(e, Q) = Log!InOrder(K)
  BY <1>10, <1>11, <1>14, Selected
<1> HIDE DEF K
<1> QED
  BY <1>4, <1>8, <1>12, <1>13, <1>15 DEF e

-----------------------------------------------------------------------------
(* Where an occurrence is counted, one kind of place at a time. *)
LineOf(k, i) ==
    {<<"line", n>> : n \in {n \in DOMAIN j_lines : j_lines[n].kind = k /\ i \in j_lines[n].of}}
HandOf(k, i) ==
    {<<"writer", t>> : t \in {t \in Log!Writers : /\ j_busy # t /\ j_emitting[t].kind = k
                                                  /\ i \in j_emitting[t].of}}
FlushOf(k, i) == {<<"flush", l>> : l \in {l \in j_flushing : l.kind = k /\ i \in l.of}}
HeldOf(k, i)  == IF k \in Keys /\ i \in j_held[k] THEN {<<"held", k>>} ELSE {}
LostOf(k, i)  == IF i \in j_lost[k] THEN {<<"lost", k>>} ELSE {}

(* The places of an occurrence are these, before and after a step. *)
LEMMA PlacesAre ==
    ASSUME NEW k, NEW i
    PROVE  /\ Log!Bearers(k, i) = LineOf(k, i) \cup HandOf(k, i) \cup FlushOf(k, i)
                                  \cup HeldOf(k, i) \cup LostOf(k, i)
           /\ Log!Bearers(k, i)' = LineOf(k, i)' \cup HandOf(k, i)' \cup FlushOf(k, i)'
                                   \cup HeldOf(k, i)' \cup LostOf(k, i)'
  BY Zenon DEF Log!Bearers, LineOf, HandOf, FlushOf, HeldOf, LostOf

Single(B) == \E b \in B : B = {b}

(* Of B, x has become y: what was in one place still is. *)
Moved(B, C, x, y) == \A c : c \in C <=> (c \in B /\ c # x) \/ (c = y /\ x \in B)

(* What was in one place and moves is in one place. *)
LEMMA OneMoves ==
    ASSUME NEW B, NEW C, NEW x, NEW y, Moved(B, C, x, y), Single(B)
    PROVE  Single(C)
<1>1. PICK b \in B : B = {b}
  BY DEF Single
<1>2. CASE b = x
  <2>1. C = {y}
    BY <1>1, <1>2 DEF Moved
  <2> QED
    BY <2>1 DEF Single
<1>3. CASE b # x
  <2>1. C = {b}
    BY <1>1, <1>3 DEF Moved
  <2> QED
    BY <2>1 DEF Single
<1> QED
  BY <1>2, <1>3

(* The numbers that are counted anywhere have been noted. *)
Numbered ==
    /\ \A k \in Log!Kinds : j_lost[k] \subseteq 1 .. j_noted[k]
    /\ \A k \in Keys : j_held[k] \subseteq 1 .. j_noted[k]
    /\ \A t \in Log!Writers : j_emitting[t].of \subseteq 1 .. j_noted[j_emitting[t].kind]
    /\ \A n \in 1 .. Len(j_lines) : j_lines[n].of \subseteq 1 .. j_noted[j_lines[n].kind]
    /\ \A l \in j_flushing : l.of \subseteq 1 .. j_noted[l.kind]

(* Who is in the middle of an append has a line to write, and what         *)
(* flushEvents took is there until Close goes on.                          *)
HandsOK ==
    /\ \A t \in Log!Writers : j_busy = t => j_emitting[t] # Log!NoLine
    /\ j_busy # "nobody" => Len(j_lines) > 0
    /\ j_closing = "no" => j_flushing = {}
    /\ j_closing # "closed" => \A k \in Log!Kinds : j_lost[k] = {}

CountsOK == \A k \in Log!Kinds : \A i \in 1 .. j_noted[k] : Single(Log!Bearers(k, i))

ReportTyped ==
    /\ j_noted \in [Log!Kinds -> Nat] /\ j_lost \in [Log!Kinds -> SUBSET Nat]
    /\ j_fresh \subseteq Keys /\ j_held \in [Keys -> SUBSET Nat]
    /\ j_emitting \in [Log!Writers -> Log!Lines] /\ j_flushing \subseteq Log!Lines
    /\ j_closing \in {"no", "flushing", "flushed", "closed"}
    /\ j_busy \in Log!Writers \cup {"nobody"}
    /\ j_lines \in Seq(Log!Lines)

ReportInv == ReportTyped /\ Numbered /\ HandsOK /\ CountsOK

(* A place changes only with the variable it reads. *)
LEMMA PlacesStay ==
    ASSUME NEW k, NEW i
    PROVE  /\ j_lines' = j_lines => LineOf(k, i)' = LineOf(k, i)
           /\ j_busy' = j_busy /\ j_emitting' = j_emitting => HandOf(k, i)' = HandOf(k, i)
           /\ j_flushing' = j_flushing => FlushOf(k, i)' = FlushOf(k, i)
           /\ j_held' = j_held => HeldOf(k, i)' = HeldOf(k, i)
           /\ j_lost' = j_lost => LostOf(k, i)' = LostOf(k, i)
  BY DEF LineOf, HandOf, FlushOf, HeldOf, LostOf, Log!Writers

(* The lines of the journal are lines. *)
LEMMA LinesTyped ==
    ASSUME ReportInv
    PROVE  /\ DOMAIN j_lines = 1 .. Len(j_lines) /\ Len(j_lines) \in Nat
           /\ \A m \in 1 .. Len(j_lines) : /\ j_lines[m] \in Log!Lines
                                           /\ j_lines[m].kind \in Log!Kinds
                                           /\ j_lines[m].of \in SUBSET Nat
<1>1. j_lines \in Seq(Log!Lines)
  BY DEF ReportInv, ReportTyped
<1>2. \A l \in Log!Lines : l.kind \in Log!Kinds /\ l.of \in SUBSET Nat
  BY DEF Log!Lines
<1>3. \A m \in 1 .. Len(j_lines) : j_lines[m] \in Log!Lines
  BY <1>1
<1> QED
  BY <1>1, <1>2, <1>3

(* Before it occurs, an occurrence is counted nowhere. *)
LEMMA Unnoted ==
    ASSUME ReportInv, NEW k \in Log!Kinds, NEW i, i \notin 1 .. j_noted[k]
    PROVE  /\ LineOf(k, i) = {} /\ HandOf(k, i) = {} /\ FlushOf(k, i) = {}
           /\ HeldOf(k, i) = {} /\ LostOf(k, i) = {}
<1>1. LineOf(k, i) = {}
  BY LinesTyped DEF ReportInv, Numbered, LineOf
<1>2. HandOf(k, i) = {}
  BY DEF ReportInv, ReportTyped, Numbered, HandOf
<1>3. FlushOf(k, i) = {}
  BY DEF ReportInv, ReportTyped, Numbered, FlushOf
<1>4. HeldOf(k, i) = {} /\ LostOf(k, i) = {}
  BY DEF ReportInv, ReportTyped, Numbered, HeldOf, LostOf
<1> QED
  BY <1>1, <1>2, <1>3, <1>4

(* What more occurs is numbered on. *)
LEMMA Occurring ==
    ASSUME ReportInv, NEW k \in Log!Kinds, NEW n \in 1 .. MaxNotes, Log!Occurs(k, n)
    PROVE  /\ j_noted' \in [Log!Kinds -> Nat] /\ n \in Nat /\ j_noted[k] \in Nat
           /\ j_noted'[k] = j_noted[k] + n
           /\ Log!New(k, n) = j_noted[k] + 1 .. j_noted[k] + n
           /\ Log!New(k, n) \in SUBSET Nat
           /\ \A j \in Log!Kinds : j # k => j_noted'[j] = j_noted[j]
           /\ \A j \in Log!Kinds : j_noted[j] \in Nat /\ j_noted'[j] \in Nat
           /\ \A j \in Log!Kinds : 1 .. j_noted[j] \subseteq 1 .. j_noted'[j]
<1>1. /\ j_noted' = [j_noted EXCEPT ![k] = @ + n] /\ n \in Nat
      /\ j_noted \in [Log!Kinds -> Nat]
  BY JournalAssumption DEF Log!Occurs, ReportInv, ReportTyped
<1>2. \A j \in Log!Kinds : j_noted'[j] = IF j = k THEN j_noted[k] + n ELSE j_noted[j]
  BY <1>1
<1> QED
  BY <1>1, <1>2 DEF Log!New

(* noteThrottled counts each occurrence once: with the throttle's own, or  *)
(* in a line that takes them along.                                        *)
LEMMA LogNote ==
    ASSUME ReportInv, NEW t \in Threads, NEW k \in Keys, NEW n \in 1 .. MaxNotes,
           Log!NoteThrottled(t, k, n)
    PROVE  ReportInv'
<1> DEFINE new == Log!New(k, n)
<1>1. k \in Log!Kinds /\ t \in Log!Writers
  BY DEF Log!Kinds, Log!Writers
<1>2. /\ Log!Occurs(k, n) /\ j_emitting[t] = Log!NoLine
      /\ UNCHANGED <<j_flushing, j_closing, j_busy, j_lines, j_lost>>
  BY DEF Log!NoteThrottled, Log!Idle
<1>3. /\ j_noted' \in [Log!Kinds -> Nat] /\ n \in Nat /\ j_noted[k] \in Nat
      /\ j_noted'[k] = j_noted[k] + n
      /\ new = j_noted[k] + 1 .. j_noted[k] + n /\ new \in SUBSET Nat
      /\ \A j \in Log!Kinds : j # k => j_noted'[j] = j_noted[j]
      /\ \A j \in Log!Kinds : j_noted[j] \in Nat /\ j_noted'[j] \in Nat
      /\ \A j \in Log!Kinds : 1 .. j_noted[j] \subseteq 1 .. j_noted'[j]
  BY <1>1, <1>2, Occurring
<1> HIDE DEF new
<1>4. \A i \in new : i \notin 1 .. j_noted[k]
  BY <1>3
<1>5. \A j \in Log!Kinds : \A i \in 1 .. j_noted'[j] : i \in 1 .. j_noted[j] \/ (j = k /\ i \in new)
  BY <1>3
<1>6. CASE k \in j_fresh
  <2>1. /\ j_held' = [j_held EXCEPT ![k] = @ \cup new]
        /\ UNCHANGED <<j_fresh, j_emitting>>
    BY <1>6 DEF Log!NoteThrottled, new
  <2>2. \A j \in Keys : j_held'[j] = IF j = k THEN j_held[k] \cup new ELSE j_held[j]
    BY <2>1 DEF ReportInv, ReportTyped
  <2>3. ReportTyped'
    BY <1>2, <1>3, <2>1, <2>2 DEF ReportInv, ReportTyped, Log!Writers, Log!Kinds, Log!Lines
  <2>4. new \subseteq 1 .. j_noted'[k]
    BY <1>3
  <2>5. Numbered'
    <3>1. \A j \in Keys : j_held'[j] \subseteq 1 .. j_noted'[j]
      BY <1>1, <1>3, <2>2, <2>4 DEF ReportInv, Numbered, Log!Kinds
    <3>2. \A j \in Log!Kinds : j_lost[j] \subseteq 1 .. j_noted'[j]
      BY <1>3 DEF ReportInv, Numbered
    <3>3. \A w \in Log!Writers : j_emitting[w].of \subseteq 1 .. j_noted'[j_emitting[w].kind]
      BY <1>3 DEF ReportInv, Numbered, ReportTyped, Log!Lines
    <3>4. \A m \in 1 .. Len(j_lines) : j_lines[m].of \subseteq 1 .. j_noted'[j_lines[m].kind]
      BY <1>3, LinesTyped DEF ReportInv, Numbered
    <3>5. \A l \in j_flushing : l.of \subseteq 1 .. j_noted'[l.kind]
      BY <1>3 DEF ReportInv, Numbered, ReportTyped, Log!Lines
    <3> QED
      BY <1>2, <2>1, <3>1, <3>2, <3>3, <3>4, <3>5 DEF Numbered, Log!Writers, Log!Kinds
  <2>6. HandsOK'
    BY <1>2, <2>1 DEF ReportInv, HandsOK, Log!Writers, Log!NoLine, Log!Kinds
  <2>7. ASSUME NEW j \in Log!Kinds, NEW i \in 1 .. j_noted'[j]
        PROVE  Single(Log!Bearers(j, i)')
    <3>1. /\ LineOf(j, i)' = LineOf(j, i) /\ HandOf(j, i)' = HandOf(j, i)
          /\ FlushOf(j, i)' = FlushOf(j, i) /\ LostOf(j, i)' = LostOf(j, i)
      BY <1>2, <2>1, PlacesStay
    <3>2. Log!Bearers(j, i)' = LineOf(j, i) \cup HandOf(j, i) \cup FlushOf(j, i)
                               \cup HeldOf(j, i)' \cup LostOf(j, i)
      BY <3>1, PlacesAre
    <3>3. CASE i \in 1 .. j_noted[j]
      <4>1. HeldOf(j, i)' = HeldOf(j, i)
        BY <1>4, <2>2, <3>3 DEF HeldOf
      <4> QED
        BY <3>2, <3>3, <4>1, PlacesAre DEF ReportInv, CountsOK
    <3>4. CASE j = k /\ i \in new
      <4>1. HeldOf(j, i)' = {<<"held", k>>}
        BY <2>2, <3>4 DEF HeldOf
      <4>2. Log!Bearers(j, i)' = {<<"held", k>>}
        BY <1>4, <3>2, <3>4, <4>1, Unnoted
      <4> QED
        BY <4>2 DEF Single
    <3> QED
      BY <1>5, <3>3, <3>4
  <2>8. CountsOK'
    BY <2>7 DEF CountsOK, Log!Kinds
  <2> QED
    BY <2>3, <2>5, <2>6, <2>8 DEF ReportInv
<1>7. CASE k \notin j_fresh
  <2> DEFINE l == Log!Line(k, j_held[k] \cup new)
  <2>1. /\ j_emitting' = [j_emitting EXCEPT ![t] = l]
        /\ j_held' = [j_held EXCEPT ![k] = {}]
        /\ j_fresh' = j_fresh \cup {k}
    BY <1>7 DEF Log!NoteThrottled, new
  <2>2. \A j \in Keys : j_held'[j] = IF j = k THEN {} ELSE j_held[j]
    BY <2>1 DEF ReportInv, ReportTyped
  <2>3. \A w \in Log!Writers : j_emitting'[w] = IF w = t THEN l ELSE j_emitting[w]
    BY <2>1 DEF ReportInv, ReportTyped
  <2>4. l.kind = k /\ l.of = j_held[k] \cup new /\ l \in Log!Lines
    BY <1>1, <1>3 DEF ReportInv, ReportTyped, Log!Line, Log!Lines
  <2>5. j_busy # t
    BY <1>1, <1>2 DEF ReportInv, HandsOK
  <2> HIDE DEF l
  <2>6. ReportTyped'
    BY <1>1, <1>2, <1>3, <2>1, <2>4 DEF ReportInv, ReportTyped, Log!Writers, Log!Kinds, Log!Lines
  <2>7. new \subseteq 1 .. j_noted'[k]
    BY <1>3
  <2>8. Numbered'
    <3>1. \A j \in Keys : j_held'[j] \subseteq 1 .. j_noted'[j]
      BY <1>1, <1>3, <2>2 DEF ReportInv, Numbered, Log!Kinds
    <3>2. \A j \in Log!Kinds : j_lost[j] \subseteq 1 .. j_noted'[j]
      BY <1>3 DEF ReportInv, Numbered
    <3>3. \A w \in Log!Writers : j_emitting[w].of \subseteq 1 .. j_noted'[j_emitting[w].kind]
      BY <1>3 DEF ReportInv, Numbered, ReportTyped, Log!Lines
    <3>4. l.of \subseteq 1 .. j_noted'[k]
      BY <1>1, <1>3, <2>4, <2>7 DEF ReportInv, Numbered
    <3>5. \A w \in Log!Writers : j_emitting'[w].of \subseteq 1 .. j_noted'[j_emitting'[w].kind]
      BY <2>3, <2>4, <3>3, <3>4
    <3>6. \A m \in 1 .. Len(j_lines) : j_lines[m].of \subseteq 1 .. j_noted'[j_lines[m].kind]
      BY <1>3, LinesTyped DEF ReportInv, Numbered
    <3>7. \A m \in j_flushing : m.of \subseteq 1 .. j_noted'[m.kind]
      BY <1>3 DEF ReportInv, Numbered, ReportTyped, Log!Lines
    <3> QED
      BY <1>2, <3>1, <3>2, <3>5, <3>6, <3>7 DEF Numbered, Log!Writers, Log!Kinds
  <2>9. HandsOK'
    BY <1>2, <2>3, <2>5 DEF ReportInv, HandsOK, Log!Writers, Log!NoLine, Log!Kinds
  <2>10. ASSUME NEW j \in Log!Kinds, NEW i \in 1 .. j_noted'[j]
         PROVE  Single(Log!Bearers(j, i)')
    <3>1. /\ LineOf(j, i)' = LineOf(j, i) /\ FlushOf(j, i)' = FlushOf(j, i)
          /\ LostOf(j, i)' = LostOf(j, i)
      BY <1>2, PlacesStay
    <3>2. Log!Bearers(j, i)' = LineOf(j, i) \cup HandOf(j, i)' \cup FlushOf(j, i)
                               \cup HeldOf(j, i)' \cup LostOf(j, i)
      BY <3>1, PlacesAre
    <3>3. HandOf(j, i)' = HandOf(j, i) \cup
             IF j = k /\ i \in j_held[k] \cup new THEN {<<"writer", t>>} ELSE {}
      <4>1. Log!NoLine.of = {}
        BY DEF Log!NoLine
      <4>2. \A w \in Log!Writers :
               (/\ j_busy # w /\ j_emitting'[w].kind = j /\ i \in j_emitting'[w].of) <=>
               \/ (/\ j_busy # w /\ j_emitting[w].kind = j /\ i \in j_emitting[w].of)
               \/ w = t /\ j = k /\ i \in j_held[k] \cup new
        BY <1>2, <2>3, <2>4, <2>5, <4>1
      <4> QED
        BY <1>1, <1>2, <4>2 DEF HandOf, Log!Writers
    <3>4. CASE i \in 1 .. j_noted[j] /\ j # k
      <4>1. HeldOf(j, i)' = HeldOf(j, i)
        BY <2>2, <3>4 DEF HeldOf
      <4>2. HandOf(j, i)' = HandOf(j, i)
        BY <3>3, <3>4
      <4>3. Log!Bearers(j, i)' = Log!Bearers(j, i)
        BY <3>2, <4>1, <4>2, PlacesAre
      <4>4. Single(Log!Bearers(j, i))
        BY <3>4 DEF ReportInv, CountsOK
      <4> QED
        BY <4>3, <4>4
    <3>5. CASE i \in 1 .. j_noted[j] /\ j = k
      <4>1. HeldOf(j, i)' = {} /\ HeldOf(j, i) = IF i \in j_held[k] THEN {<<"held", k>>} ELSE {}
        BY <2>2, <3>5 DEF HeldOf
      <4>2. \A c \in LineOf(j, i) \cup HandOf(j, i) \cup FlushOf(j, i) \cup LostOf(j, i) :
               c # <<"held", k>>
        BY DEF LineOf, HandOf, FlushOf, LostOf
      <4>3. i \in j_held[k] \cup new <=> <<"held", k>> \in Log!Bearers(j, i)
        BY <1>4, <3>5, <4>1, <4>2, PlacesAre
      <4>4. HandOf(j, i)' = HandOf(j, i) \cup
               IF <<"held", k>> \in Log!Bearers(j, i) THEN {<<"writer", t>>} ELSE {}
        BY <3>3, <3>5, <4>3
      <4> DEFINE B == Log!Bearers(j, i)
                 C == Log!Bearers(j, i)'
                 x == <<"held", k>>
                 y == <<"writer", t>>
      <4>5. Moved(B, C, x, y)
        BY <3>2, <4>1, <4>2, <4>4, PlacesAre DEF Moved
      <4>6. Single(B)
        BY <3>5 DEF ReportInv, CountsOK
      <4> HIDE DEF B, C, x, y
      <4>7. Single(C)
        BY <4>5, <4>6, OneMoves
      <4> QED
        BY <4>7 DEF C
    <3>6. CASE j = k /\ i \in new
      <4>1. HeldOf(j, i)' = {}
        BY <2>2, <3>6 DEF HeldOf
      <4>2. Log!Bearers(j, i)' = {<<"writer", t>>}
        BY <1>4, <3>2, <3>3, <3>6, <4>1, Unnoted
      <4> QED
        BY <4>2 DEF Single
    <3> QED
      BY <1>5, <3>4, <3>5, <3>6
  <2>11. CountsOK'
    BY <2>10 DEF CountsOK, Log!Kinds
  <2> QED
    BY <2>6, <2>8, <2>9, <2>11 DEF ReportInv
<1> QED
  BY <1>6, <1>7

(* nobody is none of the writers. *)
LEMMA NobodyIsNoWriter == "nobody" \notin Log!Writers
  BY JournalAssumption DEF Log!Writers, Log!Closer

(* Steps that move no line and no count: the window passing, Close going   *)
(* on, truncation, the reader.                                             *)
LEMMA LogReportStays ==
    ASSUME ReportInv,
           UNCHANGED <<j_noted, j_held, j_emitting, j_flushing, j_busy, j_lines, j_lost>>,
           j_fresh' \subseteq Keys,
           j_closing' = j_closing \/ (j_closing = "flushing" /\ j_closing' = "flushed")
                                  \/ (j_closing = "flushed" /\ j_closing' = "closed")
    PROVE  ReportInv'
<1>1. ReportTyped'
  BY DEF ReportInv, ReportTyped, Log!Writers, Log!Kinds, Log!Lines
<1>2. Numbered' /\ HandsOK'
  BY DEF ReportInv, Numbered, HandsOK, Log!Writers, Log!Kinds, Log!NoLine
<1>3. CountsOK'
  <2> SUFFICES ASSUME NEW k \in Log!Kinds, NEW i \in 1 .. j_noted[k]
               PROVE  Single(Log!Bearers(k, i)')
    BY DEF CountsOK, Log!Kinds
  <2>1. Log!Bearers(k, i)' = Log!Bearers(k, i)
    BY PlacesStay, PlacesAre
  <2> QED
    BY <2>1 DEF ReportInv, CountsOK
<1> QED
  BY <1>1, <1>2, <1>3 DEF ReportInv

(* A call record is one more occurrence, in a line of its own. *)
LEMMA LogAudit ==
    ASSUME ReportInv, NEW t \in Threads, Log!Audit(t)
    PROVE  ReportInv'
<1> DEFINE k == CallRecord
           new == Log!New(k, 1)
           l == Log!Line(k, new)
<1>1. k \in Log!Kinds /\ t \in Log!Writers
  BY DEF Log!Kinds, Log!Writers
<1>2. /\ Log!Occurs(k, 1) /\ j_emitting[t] = Log!NoLine
      /\ j_emitting' = [j_emitting EXCEPT ![t] = l]
      /\ UNCHANGED <<j_fresh, j_held, j_flushing, j_closing, j_busy, j_lines, j_lost>>
  BY DEF Log!Audit, Log!Idle
<1>3. /\ j_noted' = [j_noted EXCEPT ![k] = @ + 1]
      /\ \A j \in Log!Kinds : j_noted[j] \in Nat
  BY <1>2 DEF Log!Occurs, ReportInv, ReportTyped
<1>4. /\ j_noted' \in [Log!Kinds -> Nat] /\ j_noted[k] \in Nat
      /\ j_noted'[k] = j_noted[k] + 1
      /\ new = {j_noted[k] + 1}
      /\ \A j \in Log!Kinds : j # k => j_noted'[j] = j_noted[j]
      /\ \A j \in Log!Kinds : 1 .. j_noted[j] \subseteq 1 .. j_noted'[j]
  <2>1. \A j \in Log!Kinds : j_noted'[j] = IF j = k THEN j_noted[k] + 1 ELSE j_noted[j]
    BY <1>1, <1>3 DEF ReportInv, ReportTyped
  <2>2. j_noted' \in [Log!Kinds -> Nat]
    BY <1>1, <1>3 DEF ReportInv, ReportTyped
  <2> QED
    BY <1>1, <1>3, <2>1, <2>2 DEF Log!New
<1>5. \A w \in Log!Writers : j_emitting'[w] = IF w = t THEN l ELSE j_emitting[w]
  BY <1>2 DEF ReportInv, ReportTyped
<1>6. l.kind = k /\ l.of = new /\ l \in Log!Lines
  BY <1>1, <1>4 DEF Log!Line, Log!Lines
<1>7. j_busy # t
  BY <1>1, <1>2 DEF ReportInv, HandsOK
<1> HIDE DEF k, new, l
<1>8. \A i \in new : i \notin 1 .. j_noted[k]
  BY <1>4
<1>9. \A j \in Log!Kinds : \A i \in 1 .. j_noted'[j] : i \in 1 .. j_noted[j] \/ (j = k /\ i \in new)
  BY <1>3, <1>4
<1>10. ReportTyped'
  BY <1>1, <1>2, <1>4, <1>6 DEF ReportInv, ReportTyped, Log!Writers, Log!Kinds, Log!Lines
<1>11. Numbered'
  <2>1. new \subseteq 1 .. j_noted'[k]
    BY <1>4
  <2>2. \A j \in Keys : j_held[j] \subseteq 1 .. j_noted'[j]
    BY <1>4 DEF ReportInv, Numbered, Log!Kinds
  <2>3. \A j \in Log!Kinds : j_lost[j] \subseteq 1 .. j_noted'[j]
    BY <1>4 DEF ReportInv, Numbered
  <2>4. \A w \in Log!Writers : j_emitting[w].of \subseteq 1 .. j_noted'[j_emitting[w].kind]
    BY <1>4 DEF ReportInv, Numbered, ReportTyped, Log!Lines
  <2>5. \A w \in Log!Writers : j_emitting'[w].of \subseteq 1 .. j_noted'[j_emitting'[w].kind]
    BY <1>5, <1>6, <2>1, <2>4
  <2>6. \A m \in 1 .. Len(j_lines) : j_lines[m].of \subseteq 1 .. j_noted'[j_lines[m].kind]
    BY <1>4, LinesTyped DEF ReportInv, Numbered
  <2>7. \A m \in j_flushing : m.of \subseteq 1 .. j_noted'[m.kind]
    BY <1>4 DEF ReportInv, Numbered, ReportTyped, Log!Lines
  <2> QED
    BY <1>2, <2>2, <2>3, <2>5, <2>6, <2>7 DEF Numbered, Log!Writers, Log!Kinds
<1>12. HandsOK'
  BY <1>2, <1>5, <1>7 DEF ReportInv, HandsOK, Log!Writers, Log!NoLine, Log!Kinds
<1>13. ASSUME NEW j \in Log!Kinds, NEW i \in 1 .. j_noted'[j]
       PROVE  Single(Log!Bearers(j, i)')
  <2>1. Log!Bearers(j, i)' = LineOf(j, i) \cup HandOf(j, i)' \cup FlushOf(j, i)
                             \cup HeldOf(j, i) \cup LostOf(j, i)
    BY <1>2, PlacesAre, PlacesStay
  <2>2. HandOf(j, i)' = HandOf(j, i) \cup IF j = k /\ i \in new THEN {<<"writer", t>>} ELSE {}
    <3>1. Log!NoLine.of = {}
      BY DEF Log!NoLine
    <3>2. \A w \in Log!Writers :
             (/\ j_busy # w /\ j_emitting'[w].kind = j /\ i \in j_emitting'[w].of) <=>
             \/ (/\ j_busy # w /\ j_emitting[w].kind = j /\ i \in j_emitting[w].of)
             \/ w = t /\ j = k /\ i \in new
      BY <1>2, <1>5, <1>6, <1>7, <3>1
    <3> QED
      BY <1>1, <1>2, <3>2 DEF HandOf, Log!Writers
  <2>3. CASE i \in 1 .. j_noted[j]
    <3>1. ~(j = k /\ i \in new)
      BY <1>8, <2>3
    <3>2. HandOf(j, i)' = HandOf(j, i)
      BY <2>2, <3>1
    <3>3. Log!Bearers(j, i)' = Log!Bearers(j, i)
      BY <2>1, <3>2, PlacesAre
    <3>4. Single(Log!Bearers(j, i))
      BY <2>3 DEF ReportInv, CountsOK
    <3> QED
      BY <3>3, <3>4
  <2>4. CASE j = k /\ i \in new
    <3>1. Log!Bearers(j, i)' = {<<"writer", t>>}
      BY <1>8, <2>1, <2>2, <2>4, Unnoted
    <3> QED
      BY <3>1 DEF Single
  <2> QED
    BY <1>9, <2>3, <2>4
<1>14. CountsOK'
  BY <1>13 DEF CountsOK, Log!Kinds
<1> QED
  BY <1>10, <1>11, <1>12, <1>14 DEF ReportInv

(* flushEvents moves what the throttle held into its lines. *)
LEMMA LogFlush ==
    ASSUME ReportInv, Log!FlushEvents
    PROVE  ReportInv'
<1>1. /\ j_closing = "no" /\ j_closing' = "flushing" /\ j_flushing = {}
      /\ j_flushing' = {Log!Line(k, j_held[k]) : k \in {k \in Keys : j_held[k] # {}}}
      /\ j_held' = [k \in Keys |-> {}]
      /\ UNCHANGED <<j_noted, j_fresh, j_emitting, j_busy, j_lines, j_lost>>
  BY DEF Log!FlushEvents, ReportInv, HandsOK
<1>2. \A l : l \in j_flushing' <=> \E k \in Keys : j_held[k] # {} /\ l = Log!Line(k, j_held[k])
  BY <1>1
<1>3. \A k \in Keys : /\ Log!Line(k, j_held[k]) \in Log!Lines
                      /\ Log!Line(k, j_held[k]).kind = k
                      /\ Log!Line(k, j_held[k]).of = j_held[k]
  BY DEF ReportInv, ReportTyped, Log!Line, Log!Lines, Log!Kinds
<1>4. j_flushing' \subseteq Log!Lines
  BY <1>2, <1>3
<1>5. ReportTyped'
  BY <1>1, <1>4 DEF ReportInv, ReportTyped, Log!Writers, Log!Kinds, Log!Lines
<1>6. Numbered'
  <2>1. \A l \in j_flushing' : l.of \subseteq 1 .. j_noted[l.kind]
    BY <1>2, <1>3 DEF ReportInv, Numbered
  <2> QED
    BY <1>1, <2>1 DEF ReportInv, Numbered, Log!Writers, Log!Kinds
<1>7. HandsOK'
  BY <1>1 DEF ReportInv, HandsOK, Log!Writers, Log!NoLine, Log!Kinds
<1>8. ASSUME NEW j \in Log!Kinds, NEW i \in 1 .. j_noted[j]
      PROVE  Single(Log!Bearers(j, i)')
  <2> DEFINE B == Log!Bearers(j, i)
             C == Log!Bearers(j, i)'
             x == <<"held", j>>
             y == <<"flush", Log!Line(j, j_held[j])>>
  <2>1. C = LineOf(j, i) \cup HandOf(j, i) \cup FlushOf(j, i)' \cup HeldOf(j, i)' \cup LostOf(j, i)
    BY <1>1, PlacesAre, PlacesStay
  <2>2. HeldOf(j, i)' = {} /\ FlushOf(j, i) = {}
    BY <1>1 DEF HeldOf, FlushOf
  <2>3. FlushOf(j, i)' = IF j \in Keys /\ i \in j_held[j] THEN {y} ELSE {}
    BY <1>2, <1>3 DEF FlushOf
  <2>4. \A c \in LineOf(j, i) \cup HandOf(j, i) \cup LostOf(j, i) : c # x
    BY DEF LineOf, HandOf, LostOf
  <2>5. B = LineOf(j, i) \cup HandOf(j, i) \cup HeldOf(j, i) \cup LostOf(j, i)
    BY <2>2, PlacesAre
  <2>6. HeldOf(j, i) = IF j \in Keys /\ i \in j_held[j] THEN {x} ELSE {}
    BY DEF HeldOf
  <2>7. Single(B)
    BY DEF ReportInv, CountsOK
  <2> HIDE DEF B, C, x, y
  <2>8. Moved(B, C, x, y)
    BY <2>1, <2>2, <2>3, <2>4, <2>5, <2>6 DEF Moved
  <2>9. Single(C)
    BY <2>7, <2>8, OneMoves
  <2> QED
    BY <2>9 DEF C
<1>9. CountsOK'
  BY <1>1, <1>8 DEF CountsOK, Log!Kinds
<1> QED
  BY <1>5, <1>6, <1>7, <1>9 DEF ReportInv

(* Close picks up one of those lines. *)
LEMMA LogFlushNext ==
    ASSUME ReportInv, NEW l \in j_flushing, Log!FlushNext(l)
    PROVE  ReportInv'
<1> DEFINE t == Log!Closer
<1>1. /\ j_closing = "flushing" /\ j_emitting[t] = Log!NoLine
      /\ j_flushing' = j_flushing \ {l} /\ j_emitting' = [j_emitting EXCEPT ![t] = l]
      /\ UNCHANGED <<j_noted, j_fresh, j_held, j_closing, j_busy, j_lines, j_lost>>
  BY DEF Log!FlushNext, Log!Idle
<1>2. t \in Log!Writers /\ l \in Log!Lines
  BY DEF Log!Writers, ReportInv, ReportTyped
<1> HIDE DEF t
<1>3. \A w \in Log!Writers : j_emitting'[w] = IF w = t THEN l ELSE j_emitting[w]
  BY <1>1 DEF ReportInv, ReportTyped
<1>4. j_busy # t
  BY <1>1, <1>2 DEF ReportInv, HandsOK
<1>5. ReportTyped'
  BY <1>1, <1>2 DEF ReportInv, ReportTyped, Log!Writers, Log!Kinds, Log!Lines
<1>6. Numbered'
  <2>1. \A w \in Log!Writers : j_emitting'[w].of \subseteq 1 .. j_noted[j_emitting'[w].kind]
    BY <1>3 DEF ReportInv, Numbered
  <2> QED
    BY <1>1, <2>1 DEF ReportInv, Numbered, Log!Writers, Log!Kinds
<1>7. HandsOK'
  BY <1>1, <1>3, <1>4 DEF ReportInv, HandsOK, Log!Writers, Log!NoLine, Log!Kinds
<1>8. ASSUME NEW j \in Log!Kinds, NEW i \in 1 .. j_noted[j]
      PROVE  Single(Log!Bearers(j, i)')
  <2> DEFINE B == Log!Bearers(j, i)
             C == Log!Bearers(j, i)'
             x == <<"flush", l>>
             y == <<"writer", t>>
             here == l.kind = j /\ i \in l.of
  <2>1. C = LineOf(j, i) \cup HandOf(j, i)' \cup FlushOf(j, i)' \cup HeldOf(j, i) \cup LostOf(j, i)
    BY <1>1, PlacesAre, PlacesStay
  <2>2. HandOf(j, i)' = HandOf(j, i) \cup IF here THEN {y} ELSE {}
    <3>1. Log!NoLine.of = {}
      BY DEF Log!NoLine
    <3>2. \A w \in Log!Writers :
             (/\ j_busy # w /\ j_emitting'[w].kind = j /\ i \in j_emitting'[w].of) <=>
             \/ (/\ j_busy # w /\ j_emitting[w].kind = j /\ i \in j_emitting[w].of)
             \/ w = t /\ here
      BY <1>1, <1>3, <1>4, <3>1
    <3> HIDE DEF here
    <3> QED
      BY <1>1, <1>2, <3>2 DEF HandOf, Log!Writers
  <2>3. FlushOf(j, i)' = FlushOf(j, i) \ {x}
    BY <1>1 DEF FlushOf
  <2>4. x \in FlushOf(j, i) <=> here
    BY DEF FlushOf
  <2>5. \A c \in LineOf(j, i) \cup HandOf(j, i) \cup HeldOf(j, i) \cup LostOf(j, i) : c # x
    BY DEF LineOf, HandOf, HeldOf, LostOf
  <2>6. Single(B)
    BY DEF ReportInv, CountsOK
  <2>7. B = LineOf(j, i) \cup HandOf(j, i) \cup FlushOf(j, i) \cup HeldOf(j, i) \cup LostOf(j, i)
    BY PlacesAre
  <2> HIDE DEF B, C, x, y, here
  <2>8. Moved(B, C, x, y)
    BY <2>1, <2>2, <2>3, <2>4, <2>5, <2>7 DEF Moved
  <2>9. Single(C)
    BY <2>6, <2>8, OneMoves
  <2> QED
    BY <2>9 DEF C
<1>9. CountsOK'
  BY <1>1, <1>8 DEF CountsOK, Log!Kinds
<1> QED
  BY <1>5, <1>6, <1>7, <1>9 DEF ReportInv

(* The handing over of t's line, to the journal or to where it is lost. *)
LEMMA LogHandsOver ==
    ASSUME ReportInv, NEW t \in Log!Writers, j_busy = "nobody",
           NEW j \in Log!Kinds, NEW i \in 1 .. j_noted[j], NEW y, NEW C,
           C = LineOf(j, i) \cup (HandOf(j, i) \ {<<"writer", t>>}) \cup FlushOf(j, i)
               \cup HeldOf(j, i) \cup LostOf(j, i)
               \cup IF j_emitting[t].kind = j /\ i \in j_emitting[t].of THEN {y} ELSE {}
    PROVE  Single(C)
<1> DEFINE B == Log!Bearers(j, i)
           x == <<"writer", t>>
           here == j_emitting[t].kind = j /\ i \in j_emitting[t].of
<1>1. x \in HandOf(j, i) <=> here
  BY NobodyIsNoWriter DEF HandOf
<1>2. \A c \in LineOf(j, i) \cup FlushOf(j, i) \cup HeldOf(j, i) \cup LostOf(j, i) : c # x
  BY DEF LineOf, FlushOf, HeldOf, LostOf
<1>3. Single(B)
  BY DEF ReportInv, CountsOK
<1>4. B = LineOf(j, i) \cup HandOf(j, i) \cup FlushOf(j, i) \cup HeldOf(j, i) \cup LostOf(j, i)
  BY PlacesAre
<1>5. C = LineOf(j, i) \cup (HandOf(j, i) \ {x}) \cup FlushOf(j, i)
          \cup HeldOf(j, i) \cup LostOf(j, i) \cup IF here THEN {y} ELSE {}
  OBVIOUS
<1> HIDE DEF B, x, here
<1>6. Moved(B, C, x, y)
  BY <1>1, <1>2, <1>4, <1>5 DEF Moved
<1> QED
  BY <1>3, <1>6, OneMoves

(* A line that finds the log closed is counted as lost. *)
LEMMA LogDropped ==
    ASSUME ReportInv, NEW t \in Log!Writers, Log!WriteLine(t), j_closing = "closed"
    PROVE  ReportInv'
<1> DEFINE l == j_emitting[t]
<1>1. /\ l # Log!NoLine /\ j_busy = "nobody"
      /\ j_lost' = [j_lost EXCEPT ![l.kind] = @ \cup l.of]
      /\ j_emitting' = [j_emitting EXCEPT ![t] = Log!NoLine]
      /\ UNCHANGED <<j_noted, j_fresh, j_held, j_flushing, j_closing, j_busy, j_lines>>
  BY DEF Log!WriteLine, Log!Idle
<1>2. l \in Log!Lines /\ l.kind \in Log!Kinds /\ l.of \in SUBSET Nat
  BY DEF ReportInv, ReportTyped, Log!Lines
<1>3. \A k \in Log!Kinds : j_lost'[k] = IF k = l.kind THEN j_lost[k] \cup l.of ELSE j_lost[k]
  BY <1>1 DEF ReportInv, ReportTyped
<1>4. \A w \in Log!Writers : j_emitting'[w] = IF w = t THEN Log!NoLine ELSE j_emitting[w]
  BY <1>1 DEF ReportInv, ReportTyped
<1>5. Log!NoLine \in Log!Lines /\ Log!NoLine.of = {}
  BY DEF Log!NoLine, Log!Lines, Log!Kinds
<1>6. ReportTyped'
  BY <1>1, <1>2, <1>5 DEF ReportInv, ReportTyped, Log!Writers, Log!Kinds, Log!Lines
<1>7. l.of \subseteq 1 .. j_noted[l.kind]
  BY DEF ReportInv, Numbered
<1> HIDE DEF l
<1>8. Numbered'
  <2>1. \A w \in Log!Writers : j_emitting'[w].of \subseteq 1 .. j_noted[j_emitting'[w].kind]
    BY <1>4, <1>5 DEF ReportInv, Numbered
  <2>2. \A k \in Log!Kinds : j_lost'[k] \subseteq 1 .. j_noted[k]
    BY <1>3, <1>7 DEF ReportInv, Numbered
  <2> QED
    BY <1>1, <2>1, <2>2 DEF ReportInv, Numbered, Log!Writers, Log!Kinds
<1>9. HandsOK'
  BY <1>1, NobodyIsNoWriter DEF ReportInv, HandsOK, Log!Writers, Log!NoLine, Log!Kinds
<1>10. ASSUME NEW j \in Log!Kinds, NEW i \in 1 .. j_noted[j]
       PROVE  Single(Log!Bearers(j, i)')
  <2>1. Log!Bearers(j, i)' = LineOf(j, i) \cup HandOf(j, i)' \cup FlushOf(j, i) \cup HeldOf(j, i)
                             \cup LostOf(j, i)'
    BY <1>1, PlacesAre, PlacesStay
  <2>2. HandOf(j, i)' = HandOf(j, i) \ {<<"writer", t>>}
    BY <1>1, <1>4, <1>5 DEF HandOf, Log!Writers
  <2>3. LostOf(j, i)' = LostOf(j, i) \cup
           IF l.kind = j /\ i \in l.of THEN {<<"lost", j>>} ELSE {}
    BY <1>3 DEF LostOf
  <2> DEFINE C == Log!Bearers(j, i)'
             y == <<"lost", j>>
  <2>4. C = LineOf(j, i) \cup (HandOf(j, i) \ {<<"writer", t>>}) \cup FlushOf(j, i)
            \cup HeldOf(j, i) \cup LostOf(j, i)
            \cup IF j_emitting[t].kind = j /\ i \in j_emitting[t].of THEN {y} ELSE {}
    BY <2>1, <2>2, <2>3 DEF l
  <2> HIDE DEF C, y
  <2>5. Single(C)
    BY <1>1, <2>4, LogHandsOver
  <2> QED
    BY <2>5 DEF C
<1>11. CountsOK'
  BY <1>1, <1>10 DEF CountsOK, Log!Kinds
<1> QED
  BY <1>6, <1>8, <1>9, <1>11 DEF ReportInv

(* A line is appended, and its writer is in the middle of it. *)
LEMMA LogWritten ==
    ASSUME ReportInv, NEW t \in Log!Writers, Log!WriteLine(t), j_closing # "closed"
    PROVE  ReportInv'
<1> DEFINE l == j_emitting[t]
           n == Len(j_lines) + 1
<1>1. /\ l # Log!NoLine /\ j_busy = "nobody" /\ j_busy' = t
      /\ j_lines' = Append(j_lines, l)
      /\ UNCHANGED <<j_noted, j_fresh, j_held, j_emitting, j_flushing, j_closing, j_lost>>
  BY DEF Log!WriteLine, Log!Idle
<1>2. l \in Log!Lines /\ l.kind \in Log!Kinds /\ l.of \subseteq 1 .. j_noted[l.kind]
  BY DEF ReportInv, ReportTyped, Numbered, Log!Lines
<1> HIDE DEF l
<1>3. j_lines \in Seq(Log!Lines) /\ Len(j_lines) \in Nat
  BY DEF ReportInv, ReportTyped
<1>4. /\ j_lines' \in Seq(Log!Lines) /\ Len(j_lines') = n /\ j_lines'[n] = l
      /\ DOMAIN j_lines' = 1 .. n /\ DOMAIN j_lines = 1 .. Len(j_lines)
      /\ \A m \in 1 .. Len(j_lines) : j_lines'[m] = j_lines[m]
  BY <1>1, <1>2, <1>3
<1>5. \A m : m \in 1 .. n <=> m \in 1 .. Len(j_lines) \/ m = n
  BY <1>3
<1> HIDE DEF n
<1>6. ReportTyped'
  BY <1>1, <1>4 DEF ReportInv, ReportTyped, Log!Writers, Log!Kinds, Log!Lines
<1>7. Numbered'
  <2>1. \A m \in 1 .. n : j_lines'[m].of \subseteq 1 .. j_noted[j_lines'[m].kind]
    BY <1>2, <1>4, <1>5 DEF ReportInv, Numbered
  <2> QED
    BY <1>1, <1>4, <2>1 DEF ReportInv, Numbered, Log!Writers, Log!Kinds
<1>8. HandsOK'
  <2>1. Len(j_lines') > 0
    BY <1>3, <1>4 DEF n
  <2> QED
    BY <1>1, <2>1 DEF l, ReportInv, HandsOK, Log!Writers, Log!NoLine, Log!Kinds
<1>9. ASSUME NEW j \in Log!Kinds, NEW i \in 1 .. j_noted[j]
      PROVE  Single(Log!Bearers(j, i)')
  <2>1. Log!Bearers(j, i)' = LineOf(j, i)' \cup HandOf(j, i)' \cup FlushOf(j, i) \cup HeldOf(j, i)
                             \cup LostOf(j, i)
    BY <1>1, PlacesAre, PlacesStay
  <2>2. HandOf(j, i)' = HandOf(j, i) \ {<<"writer", t>>}
    <3>1. \A w \in Log!Writers : j_busy' # w <=> w # t
      BY <1>1
    <3>2. \A w \in Log!Writers : j_busy # w
      BY <1>1, NobodyIsNoWriter
    <3> QED
      BY <1>1, <3>1, <3>2 DEF HandOf, Log!Writers
  <2>3. LineOf(j, i)' = LineOf(j, i) \cup
           IF l.kind = j /\ i \in l.of THEN {<<"line", n>>} ELSE {}
    BY <1>4, <1>5 DEF LineOf
  <2> DEFINE C == Log!Bearers(j, i)'
             y == <<"line", n>>
  <2>4. C = LineOf(j, i) \cup (HandOf(j, i) \ {<<"writer", t>>}) \cup FlushOf(j, i)
            \cup HeldOf(j, i) \cup LostOf(j, i)
            \cup IF j_emitting[t].kind = j /\ i \in j_emitting[t].of THEN {y} ELSE {}
    BY <2>1, <2>2, <2>3 DEF l
  <2> HIDE DEF C, y
  <2>5. Single(C)
    BY <1>1, <2>4, LogHandsOver
  <2> QED
    BY <2>5 DEF C
<1>10. CountsOK'
  BY <1>1, <1>9 DEF CountsOK, Log!Kinds
<1> QED
  BY <1>6, <1>7, <1>8, <1>10 DEF ReportInv

(* The append is over; the line remains in the journal. *)
LEMMA LogLineWritten ==
    ASSUME ReportInv, NEW t \in Log!Writers, Log!LineWritten(t)
    PROVE  ReportInv'
<1>1. /\ j_busy = t /\ j_busy' = "nobody"
      /\ j_emitting' = [j_emitting EXCEPT ![t] = Log!NoLine]
      /\ UNCHANGED <<j_noted, j_fresh, j_held, j_flushing, j_closing, j_lines, j_lost>>
  BY DEF Log!LineWritten
<1>2. \A w \in Log!Writers : j_emitting'[w] = IF w = t THEN Log!NoLine ELSE j_emitting[w]
  BY <1>1 DEF ReportInv, ReportTyped
<1>3. Log!NoLine \in Log!Lines /\ Log!NoLine.of = {}
  BY DEF Log!NoLine, Log!Lines, Log!Kinds
<1>4. ReportTyped'
  BY <1>1, <1>3 DEF ReportInv, ReportTyped, Log!Writers, Log!Kinds, Log!Lines
<1>5. Numbered'
  <2>1. \A w \in Log!Writers : j_emitting'[w].of \subseteq 1 .. j_noted[j_emitting'[w].kind]
    BY <1>2, <1>3 DEF ReportInv, Numbered
  <2> QED
    BY <1>1, <2>1 DEF ReportInv, Numbered, Log!Writers, Log!Kinds
<1>6. HandsOK'
  BY <1>1, NobodyIsNoWriter DEF ReportInv, HandsOK, Log!Writers, Log!NoLine, Log!Kinds
<1>7. ASSUME NEW j \in Log!Kinds, NEW i \in 1 .. j_noted[j]
      PROVE  Single(Log!Bearers(j, i)')
  <2>1. HandOf(j, i)' = HandOf(j, i)
    <3>1. \A w \in Log!Writers : w # t => j_busy # w
      BY <1>1
    <3>2. \A w \in Log!Writers : j_busy' # w
      BY <1>1, NobodyIsNoWriter
    <3> QED
      BY <1>1, <1>2, <1>3, <3>1, <3>2 DEF HandOf, Log!Writers
  <2>2. Log!Bearers(j, i)' = Log!Bearers(j, i)
    BY <1>1, <2>1, PlacesAre, PlacesStay
  <2> QED
    BY <2>2 DEF ReportInv, CountsOK
<1>8. CountsOK'
  BY <1>1, <1>7 DEF CountsOK, Log!Kinds
<1> QED
  BY <1>4, <1>5, <1>6, <1>8 DEF ReportInv

(* What is in the file, or was read from it: in the order in which it was  *)
(* written, and written already.                                           *)
End(n) == <<n, "newline">>
Written(b) ==
    /\ b \in AnyByte /\ 1 <= b[1] /\ b[1] <= Len(j_lines)
    /\ j_busy = "nobody" \/ b # End(Len(j_lines))

(* All that x and p hold comes before b. *)
Behind(x, p, b) ==
    /\ \A i \in 1 .. Len(x) : Before(End(x[i]), b)
    /\ \A i \in 1 .. Len(p) : Before(p[i], b)

(* Lines shown and bytes kept for the next time, in their order. *)
InStep(x, p) ==
    /\ x \in Seq(Nat) /\ Increasing(x) /\ \A i \in 1 .. Len(x) : Written(End(x[i]))
    /\ p \in Seq(AnyByte) /\ Sorted(p) /\ \A i \in 1 .. Len(p) : Written(p[i])
    /\ \A i \in 1 .. Len(x), k \in 1 .. Len(p) : Before(End(x[i]), p[k])

FileOK == j_file \in Seq(AnyByte) /\ Sorted(j_file) /\ \A i \in 1 .. Len(j_file) : Written(j_file[i])

Follows == [pc : {"off", "wait", "read"}, offset : Nat, size : Nat, start : Nat,
            pending : Seq(AnyByte)]

ReadOK ==
    /\ j_follow \in Follows
    /\ InStep(j_shown, j_follow.pending)
    /\ \A k \in 1 .. Len(j_file) : k > j_follow.offset \/ Len(j_file) < j_follow.offset =>
          Behind(j_shown, j_follow.pending, j_file[k])

ReadInv == FileOK /\ ReadOK

(* A part of a sequence, place by place ... *)
LEMMA PartOf ==
    ASSUME NEW S, NEW b \in Seq(S), NEW m \in 1 .. Len(b) + 1, NEW n \in m - 1 .. Len(b)
    PROVE  /\ SubSeq(b, m, n) \in Seq(S) /\ Len(SubSeq(b, m, n)) = n - m + 1
           /\ \A i \in 1 .. n - m + 1 : SubSeq(b, m, n)[i] = b[m + i - 1] /\ m + i - 1 \in 1 .. Len(b)
<1>1. Len(b) \in Nat /\ \A i \in 1 .. Len(b) : b[i] \in S
  OBVIOUS
<1>2. m \in Int /\ n \in Int /\ \A i \in m .. n : i \in 1 .. Len(b)
  BY <1>1
<1>3. \A i \in m .. n : b[i] \in S
  BY <1>1, <1>2
<1>4. /\ SubSeq(b, m, n) \in Seq(S)
      /\ Len(SubSeq(b, m, n)) = IF m <= n THEN n - m + 1 ELSE 0
      /\ \A i \in 1 .. n - m + 1 : SubSeq(b, m, n)[i] = b[m + i - 1]
  BY <1>2, <1>3, SubSeqProperties
<1>5. \A i \in 1 .. n - m + 1 : m + i - 1 \in 1 .. Len(b)
  BY <1>1
<1>6. Len(SubSeq(b, m, n)) = n - m + 1
  BY <1>1, <1>4
<1> QED
  BY <1>4, <1>5, <1>6

(* ... the part after the first o ... *)
LEMMA Middle ==
    ASSUME NEW S, NEW b \in Seq(S), NEW o \in Nat, NEW n \in Nat, o <= n, n <= Len(b)
    PROVE  /\ SubSeq(b, o + 1, n) \in Seq(S) /\ Len(SubSeq(b, o + 1, n)) = n - o
           /\ \A i \in 1 .. n - o : SubSeq(b, o + 1, n)[i] = b[o + i] /\ o + i \in 1 .. Len(b)
<1> DEFINE d == o + 1
           t == SubSeq(b, d, n)
<1>1. Len(b) \in Nat /\ d = o + 1
  OBVIOUS
<1>2. d \in 1 .. Len(b) + 1 /\ n \in d - 1 .. Len(b)
  BY <1>1
<1> HIDE DEF d
<1>3. /\ t \in Seq(S) /\ Len(t) = n - d + 1
      /\ \A i \in 1 .. n - d + 1 : t[i] = b[d + i - 1] /\ d + i - 1 \in 1 .. Len(b)
  BY <1>2, PartOf
<1> HIDE DEF t
<1>4. n - d + 1 = n - o /\ \A i \in Int : d + i - 1 = o + i
  BY <1>1
<1>5. Len(t) = n - o /\ \A i \in 1 .. n - o : t[i] = b[o + i] /\ o + i \in 1 .. Len(b)
  BY <1>1, <1>3, <1>4
<1> QED
  BY <1>3, <1>5 DEF t, d

(* ... and both parts of one that is cut after c. *)
LEMMA CutInTwo ==
    ASSUME NEW S, NEW b \in Seq(S), NEW c \in 0 .. Len(b)
    PROVE  /\ SubSeq(b, 1, c) \in Seq(S) /\ Len(SubSeq(b, 1, c)) = c
           /\ \A i \in 1 .. c : SubSeq(b, 1, c)[i] = b[i] /\ i \in 1 .. Len(b)
           /\ SubSeq(b, c + 1, Len(b)) \in Seq(S) /\ Len(SubSeq(b, c + 1, Len(b))) = Len(b) - c
           /\ \A i \in 1 .. Len(b) - c :
                 SubSeq(b, c + 1, Len(b))[i] = b[c + i] /\ c + i \in 1 .. Len(b)
<1> DEFINE n == Len(b)
           s == SubSeq(b, 1, c)
           t == SubSeq(b, c + 1, n)
<1>1. n \in Nat /\ c \in Nat /\ c <= n
  OBVIOUS
<1>2. /\ t \in Seq(S) /\ Len(t) = n - c
      /\ \A i \in 1 .. n - c : t[i] = b[c + i] /\ c + i \in 1 .. n
  BY <1>1, Middle
<1>3. 1 \in 1 .. n + 1 /\ c \in 1 - 1 .. n
  BY <1>1
<1>4. /\ s \in Seq(S) /\ Len(s) = c - 1 + 1
      /\ \A i \in 1 .. c - 1 + 1 : s[i] = b[1 + i - 1] /\ 1 + i - 1 \in 1 .. n
  BY <1>3, PartOf
<1> HIDE DEF s, t, n
<1>5. c - 1 + 1 = c /\ \A i \in Int : 1 + i - 1 = i
  BY <1>1
<1>6. Len(s) = c /\ \A i \in 1 .. c : s[i] = b[i] /\ i \in 1 .. n
  BY <1>1, <1>4, <1>5
<1> QED
  BY <1>2, <1>4, <1>6 DEF s, t, n

(* A read: the complete lines are shown after those already shown, the     *)
(* rest is kept, and what was behind all of it still is.                   *)
LEMMA Reads ==
    ASSUME NEW x, NEW b, InStep(x, b), NEW r \in BOOLEAN
    PROVE  LET cut == Log!Cut(b)
               y   == x \o Log!Matching(Log!ReadEntries(SubSeq(b, 1, cut), r))
               p   == SubSeq(b, cut + 1, Len(b))
           IN  /\ Log!Matching(Log!ReadEntries(SubSeq(b, 1, cut), r)) \in Seq(Nat)
               /\ InStep(y, p)
               /\ \A c \in AnyByte : Behind(x, b, c) => Behind(y, p, c)
<1> DEFINE cut == Log!Cut(b)
           a   == SubSeq(b, 1, cut)
           K   == Kept(a, r)
           z   == Log!InOrder(K)
           y   == x \o z
           p   == SubSeq(b, cut + 1, Len(b))
<1>1. /\ x \in Seq(Nat) /\ Increasing(x) /\ \A i \in 1 .. Len(x) : Written(End(x[i]))
      /\ b \in Seq(AnyByte) /\ Sorted(b) /\ \A i \in 1 .. Len(b) : Written(b[i])
      /\ \A i \in 1 .. Len(x), k \in 1 .. Len(b) : Before(End(x[i]), b[k])
      /\ Len(x) \in Nat /\ Len(b) \in Nat
  BY DEF InStep
<1>2. cut \in 0 .. Len(b)
  BY <1>1, Cutting
<1> HIDE DEF cut
<1>3. /\ a \in Seq(AnyByte) /\ Len(a) = cut
      /\ \A i \in 1 .. cut : a[i] = b[i] /\ i \in 1 .. Len(b)
  BY <1>1, <1>2, CutInTwo
<1>4. /\ p \in Seq(AnyByte) /\ Len(p) = Len(b) - cut
      /\ \A i \in 1 .. Len(b) - cut : p[i] = b[cut + i] /\ cut + i \in 1 .. Len(b)
  BY <1>1, <1>2, CutInTwo
<1> HIDE DEF a, p
<1>5. Sorted(a)
  BY <1>1, <1>3 DEF Sorted
<1>6. /\ IsFiniteSet(K) /\ K \in SUBSET Nat
      /\ Log!Matching(Log!ReadEntries(a, r)) = z
  BY <1>3, <1>5, Reading
<1>7. \A n \in K : \E i \in 1 .. cut : b[i] = End(n) /\ i \in 1 .. Len(b)
  <2>1. \A i \in Log!Decoded(a, r) : i \in 1 .. cut /\ a[i][2] = "newline"
    BY <1>3 DEF Log!Decoded, Log!Whole
  <2>2. ASSUME NEW i \in 1 .. cut, a[i][2] = "newline" PROVE a[i] = End(a[i][1])
    <3>1. a[i] \in AnyByte
      BY <1>3
    <3> QED
      BY <2>2, <3>1 DEF AnyByte, End
  <2>3. SUFFICES ASSUME NEW n \in K PROVE \E i \in 1 .. cut : b[i] = End(n) /\ i \in 1 .. Len(b)
    OBVIOUS
  <2>4. PICK i \in Log!Decoded(a, r) : n = a[i][1]
    BY <2>3 DEF Kept
  <2> QED
    BY <1>3, <2>1, <2>2, <2>4
<1> HIDE DEF K
<1>8. z \in Seq(K) /\ Increasing(z) /\ Elements(z) = K
  BY <1>6, Ordering
<1> HIDE DEF z
<1>9. z \in Seq(Nat) /\ Len(z) \in Nat
  <2>1. z \in Seq(Nat)
    BY <1>6, <1>8, SeqMonotonic
  <2> QED
    BY <2>1
<1>10. \A j \in 1 .. Len(z) : z[j] \in Nat /\ \E i \in 1 .. cut : b[i] = End(z[j]) /\ i \in 1 .. Len(b)
  <2>1. \A j \in 1 .. Len(z) : z[j] \in K
    BY <1>8
  <2> QED
    BY <1>7, <1>9, <2>1
<1>11. /\ y \in Seq(Nat) /\ Len(y) = Len(x) + Len(z)
       /\ \A i \in 1 .. Len(x) + Len(z) : y[i] = IF i <= Len(x) THEN x[i] ELSE z[i - Len(x)]
  BY <1>1, <1>9, ConcatProperties
<1> HIDE DEF y
<1>12. \A i \in 1 .. Len(y) :
          \/ i \in 1 .. Len(x) /\ y[i] = x[i]
          \/ i > Len(x) /\ i - Len(x) \in 1 .. Len(z) /\ y[i] = z[i - Len(x)]
  <2> SUFFICES ASSUME NEW i \in 1 .. Len(x) + Len(z)
               PROVE  \/ i \in 1 .. Len(x) /\ y[i] = x[i]
                      \/ i > Len(x) /\ i - Len(x) \in 1 .. Len(z) /\ y[i] = z[i - Len(x)]
    BY <1>11
  <2>1. i \in 1 .. Len(x) \/ (i > Len(x) /\ i - Len(x) \in 1 .. Len(z) /\ ~(i <= Len(x)))
    BY <1>1, <1>9
  <2> QED
    BY <1>11, <2>1
<1>13. \A i \in 1 .. Len(x) : x[i] \in Nat
  BY <1>1
<1>14. Increasing(y)
  <2> SUFFICES ASSUME NEW i \in 1 .. Len(y), NEW k \in 1 .. Len(y), i < k PROVE y[i] < y[k]
    BY DEF Increasing
  <2>1. CASE k \in 1 .. Len(x) /\ y[k] = x[k]
    <3>1. i \in 1 .. Len(x) /\ y[i] = x[i]
      BY <1>1, <1>12, <2>1
    <3> QED
      BY <1>1, <2>1, <3>1 DEF Increasing
  <2>2. CASE i \in 1 .. Len(x) /\ y[i] = x[i] /\ k - Len(x) \in 1 .. Len(z) /\ y[k] = z[k - Len(x)]
    <3>1. PICK m \in 1 .. Len(b) : b[m] = End(z[k - Len(x)])
      BY <1>10, <2>2
    <3>2. Before(End(x[i]), End(z[k - Len(x)]))
      BY <1>1, <2>2, <3>1
    <3> QED
      BY <2>2, <3>2 DEF Before, End
  <2>3. CASE /\ i - Len(x) \in 1 .. Len(z) /\ y[i] = z[i - Len(x)]
             /\ k - Len(x) \in 1 .. Len(z) /\ y[k] = z[k - Len(x)]
    <3>1. i - Len(x) < k - Len(x)
      BY <1>1, <1>11
    <3> QED
      BY <1>8, <2>3, <3>1 DEF Increasing
  <2> QED
    BY <1>12, <2>1, <2>2, <2>3
<1>15. \A i \in 1 .. Len(y) : Written(End(y[i]))
  BY <1>1, <1>10, <1>12
<1>16. Sorted(p) /\ \A i \in 1 .. Len(p) : Written(p[i])
  <2>1. \A i, k \in 1 .. Len(p) : i < k => cut + i < cut + k
    BY <1>1, <1>2, <1>4
  <2> QED
    BY <1>1, <1>4, <2>1 DEF Sorted
<1>17. \A i \in 1 .. Len(y), k \in 1 .. Len(p) : Before(End(y[i]), p[k])
  <2> SUFFICES ASSUME NEW i \in 1 .. Len(y), NEW k \in 1 .. Len(p) PROVE Before(End(y[i]), p[k])
    OBVIOUS
  <2>1. p[k] = b[cut + k] /\ cut + k \in 1 .. Len(b)
    BY <1>4
  <2>2. \A m \in 1 .. cut : m < cut + k
    BY <1>1, <1>2, <1>4
  <2> QED
    BY <1>1, <1>10, <1>12, <2>1, <2>2 DEF Sorted
<1>18. ASSUME NEW c \in AnyByte, Behind(x, b, c) PROVE Behind(y, p, c)
  <2>1. /\ \A i \in 1 .. Len(x) : Before(End(x[i]), c)
        /\ \A i \in 1 .. Len(b) : Before(b[i], c)
    BY <1>18 DEF Behind
  <2>2. \A i \in 1 .. Len(z) : Before(End(z[i]), c)
    BY <1>10, <2>1
  <2>3. \A i \in 1 .. Len(y) : Before(End(y[i]), c)
    BY <1>12, <2>1, <2>2
  <2>4. \A i \in 1 .. Len(p) : Before(p[i], c)
    BY <1>4, <2>1
  <2> QED
    BY <2>3, <2>4 DEF Behind
<1> QED
  BY <1>4, <1>6, <1>9, <1>11, <1>14, <1>15, <1>16, <1>17, <1>18 DEF InStep, y, p, a, cut

(* The fields of the reader's state. *)
LEMMA FollowTyped ==
    ASSUME ReadInv
    PROVE  /\ j_follow.pc \in {"off", "wait", "read"} /\ j_follow.offset \in Nat
           /\ j_follow.size \in Nat /\ j_follow.start \in Nat /\ j_follow.pending \in Seq(AnyByte)
  BY DEF ReadInv, ReadOK, Follows

(* A step that touches neither file nor reader. *)
LEMMA ReadStays ==
    ASSUME ReadInv, UNCHANGED <<j_lines, j_busy, j_file, j_shown, j_follow>>
    PROVE  ReadInv'
  BY DEF ReadInv, FileOK, ReadOK, InStep, Behind, Written, Sorted, Increasing, Before, End

(* Written, after the step. *)
NowWritten(b) ==
    /\ b \in AnyByte /\ 1 <= b[1] /\ b[1] <= Len(j_lines')
    /\ j_busy' = "nobody" \/ b # End(Len(j_lines'))

(* A byte is appended that comes after all that has been written. *)
LEMMA FileGrows ==
    ASSUME ReadInv, NEW b \in AnyByte, j_file' = Append(j_file, b),
           UNCHANGED <<j_shown, j_follow>>, NowWritten(b),
           \A c : Written(c) => NowWritten(c) /\ Before(c, b)
    PROVE  ReadInv'
<1> DEFINE n == Len(j_file)
           f == j_file'
<1>1. j_file \in Seq(AnyByte) /\ n \in Nat
  BY DEF ReadInv, FileOK
<1>2. /\ f \in Seq(AnyByte) /\ Len(f) = n + 1 /\ f[n + 1] = b
      /\ \A i \in 1 .. n : f[i] = j_file[i]
  BY <1>1
<1> HIDE DEF f
<1>3. \A i \in 1 .. Len(f) : i = n + 1 \/ i \in 1 .. n
  BY <1>1, <1>2
<1> HIDE DEF n
<1>4. FileOK'
  <2>1. Sorted(f)
    <3> SUFFICES ASSUME NEW i \in 1 .. Len(f), NEW k \in 1 .. Len(f), i < k
                 PROVE  Before(f[i], f[k])
      BY DEF Sorted
    <3>1. i \in 1 .. n
      BY <1>1, <1>2, <1>3
    <3>2. CASE k = n + 1
      <4>1. Written(j_file[i])
        BY <3>1 DEF ReadInv, FileOK, n
      <4> QED
        BY <1>2, <3>1, <3>2, <4>1
    <3>3. CASE k \in 1 .. n
      <4>1. Before(j_file[i], j_file[k])
        BY <3>1, <3>3 DEF ReadInv, FileOK, Sorted, n
      <4> QED
        BY <1>2, <3>1, <3>3, <4>1
    <3> QED
      BY <1>3, <3>2, <3>3
  <2>2. \A i \in 1 .. Len(f) : NowWritten(f[i])
    <3> SUFFICES ASSUME NEW i \in 1 .. Len(f) PROVE NowWritten(f[i])
      OBVIOUS
    <3>1. CASE i = n + 1
      BY <1>2, <3>1
    <3>2. CASE i \in 1 .. n
      <4>1. Written(j_file[i]) /\ f[i] = j_file[i]
        BY <1>2, <3>2 DEF ReadInv, FileOK, n
      <4> QED
        BY <4>1
    <3> QED
      BY <1>3, <3>1, <3>2
  <2> QED
    BY <1>2, <2>1, <2>2 DEF FileOK, Sorted, Before, f, Written, NowWritten, End
<1>6. InStep(j_shown, j_follow.pending)'
  <2>1. InStep(j_shown, j_follow.pending)
    BY DEF ReadInv, ReadOK
  <2>2. /\ \A i \in 1 .. Len(j_shown) : Written(End(j_shown[i]))
        /\ \A i \in 1 .. Len(j_follow.pending) : Written(j_follow.pending[i])
    BY <2>1 DEF InStep
  <2>3. /\ \A i \in 1 .. Len(j_shown) : NowWritten(End(j_shown[i]))
        /\ \A i \in 1 .. Len(j_follow.pending) : NowWritten(j_follow.pending[i])
    BY <2>2
  <2> QED
    BY <2>1, <2>3 DEF InStep, Sorted, Increasing, Before, End, Written, NowWritten
<1>7. ASSUME NEW k \in 1 .. Len(f), k > j_follow.offset \/ Len(f) < j_follow.offset
      PROVE  Behind(j_shown, j_follow.pending, f[k])
  <2>1. CASE k = n + 1
    <3>1. /\ \A i \in 1 .. Len(j_shown) : Written(End(j_shown[i]))
          /\ \A i \in 1 .. Len(j_follow.pending) : Written(j_follow.pending[i])
      BY DEF ReadInv, ReadOK, InStep
    <3> QED
      BY <1>2, <2>1, <3>1 DEF Behind
  <2>2. CASE k \in 1 .. n
    <3>1. k > j_follow.offset \/ n < j_follow.offset
      BY <1>1, <1>2, <1>7, FollowTyped
    <3>2. Behind(j_shown, j_follow.pending, j_file[k])
      BY <2>2, <3>1 DEF ReadInv, ReadOK, n
    <3> QED
      BY <1>2, <2>2, <3>2
  <2> QED
    BY <1>3, <2>1, <2>2
<1>8. ReadOK'
  <2>1. j_follow' \in Follows
    BY DEF ReadInv, ReadOK
  <2>2. \A k \in 1 .. Len(j_file') : k > j_follow'.offset \/ Len(j_file') < j_follow'.offset =>
           Behind(j_shown, j_follow.pending, j_file[k])'
    BY <1>7 DEF Behind, Before, End, f
  <2> QED
    BY <1>6, <2>1, <2>2 DEF ReadOK, Follows
<1> QED
  BY <1>4, <1>8 DEF ReadInv

(* The text of a new line comes after all that was written ... *)
LEMMA LogWriteText ==
    ASSUME ReportInv, ReadInv, NEW t \in Log!Writers, Log!WriteLine(t)
    PROVE  ReadInv'
<1>1. CASE j_closing = "closed"
  BY <1>1, ReadStays DEF Log!WriteLine
<1>2. CASE j_closing # "closed"
  <2> DEFINE n == Len(j_lines)
             b == <<n + 1, "text">>
  <2>1. /\ j_busy = "nobody" /\ j_busy' = t
        /\ j_lines' = Append(j_lines, j_emitting[t])
        /\ j_file' = Append(j_file, <<Len(j_lines'), "text">>)
        /\ UNCHANGED <<j_shown, j_follow>>
    BY <1>2 DEF Log!WriteLine
  <2>2. Len(j_lines') = n + 1 /\ n \in Nat
    <3>1. j_lines \in Seq(Log!Lines) /\ j_emitting[t] \in Log!Lines
      BY DEF ReportInv, ReportTyped
    <3> QED
      BY <2>1, <3>1
  <2>3. j_file' = Append(j_file, b) /\ b \in AnyByte /\ NowWritten(b)
    BY <2>1, <2>2 DEF AnyByte, NowWritten, End
  <2> HIDE DEF n
  <2>4. ASSUME NEW c, Written(c) PROVE NowWritten(c) /\ Before(c, b)
    <3>1. c \in AnyByte /\ 1 <= c[1] /\ c[1] <= n /\ c[1] \in Nat
      BY <2>4 DEF Written, AnyByte, n
    <3>2. c # End(n + 1) /\ c[1] <= n + 1 /\ c[1] < n + 1
      BY <2>2, <3>1 DEF End
    <3> QED
      BY <2>2, <3>1, <3>2 DEF NowWritten, Before, End, b
  <2> HIDE DEF b
  <2> QED
    BY <2>1, <2>3, <2>4, FileGrows
<1> QED
  BY <1>1, <1>2

(* ... and so does its newline. *)
LEMMA LogWriteNewline ==
    ASSUME ReportInv, ReadInv, NEW t \in Log!Writers, Log!LineWritten(t)
    PROVE  ReadInv'
<1> DEFINE n == Len(j_lines)
           b == End(n)
<1>1. /\ j_busy = t /\ j_busy' = "nobody" /\ j_busy # "nobody" /\ j_lines' = j_lines
      /\ j_file' = Append(j_file, b)
      /\ UNCHANGED <<j_shown, j_follow>>
  BY NobodyIsNoWriter DEF Log!LineWritten, End
<1>2. n \in Nat /\ n > 0
  BY <1>1, LinesTyped DEF ReportInv, HandsOK
<1>3. b \in AnyByte /\ NowWritten(b)
  BY <1>1, <1>2 DEF AnyByte, NowWritten, End
<1> HIDE DEF n
<1>4. ASSUME NEW c, Written(c) PROVE NowWritten(c) /\ Before(c, b)
  <2>1. c \in AnyByte /\ 1 <= c[1] /\ c[1] <= n /\ c[1] \in Nat /\ c # <<n, "newline">>
    BY <1>1, <1>4 DEF Written, AnyByte, n, End
  <2>2. c[2] \in {"text", "newline"} /\ c = <<c[1], c[2]>>
    BY <2>1 DEF AnyByte
  <2>3. c[1] < n \/ (c[1] = n /\ c[2] = "text")
    BY <1>2, <2>1, <2>2
  <2> QED
    BY <1>1, <2>1, <2>3 DEF NowWritten, Before, End, n
<1> HIDE DEF b
<1> QED
  BY <1>1, <1>3, <1>4, FileGrows

(* An empty file holds nothing out of order. *)
LEMMA LogTruncate ==
    ASSUME ReadInv, Log!Truncate
    PROVE  ReadInv'
<1>1. /\ j_file' = <<>>
      /\ UNCHANGED <<j_lines, j_busy, j_shown, j_follow>>
  BY DEF Log!Truncate, Log!reporting
<1>2. j_file' \in Seq(AnyByte) /\ Len(j_file') = 0 /\ \A i \in 1 .. Len(j_file') : FALSE
  BY <1>1
<1>3. FileOK'
  BY <1>2 DEF FileOK, Sorted
<1>4. ReadOK'
  BY <1>1, <1>2 DEF ReadInv, ReadOK, InStep, Written, Sorted, Increasing, Before, End, Follows
<1> QED
  BY <1>3, <1>4 DEF ReadInv

(* The tail of what is shown is in step as well. *)
LEMMA LastInStep ==
    ASSUME NEW x, NEW p, InStep(x, p)
    PROVE  InStep(Log!LastOf(x), p)
<1>1. x \in Seq(Nat) /\ Len(x) \in Nat
  BY DEF InStep
<1>2. CASE ~(LastOnly > 0 /\ Len(x) > LastOnly)
  BY <1>2 DEF Log!LastOf
<1>3. CASE LastOnly > 0 /\ Len(x) > LastOnly
  <2> DEFINE c == Len(x) - LastOnly
             y == SubSeq(x, c + 1, Len(x))
  <2>1. Log!LastOf(x) = y
    BY <1>3 DEF Log!LastOf
  <2>2. c \in 0 .. Len(x) /\ c \in Nat
    BY <1>1, <1>3, JournalAssumption
  <2> HIDE DEF c
  <2>3. /\ y \in Seq(Nat) /\ Len(y) = Len(x) - c
        /\ \A i \in 1 .. Len(x) - c : y[i] = x[c + i] /\ c + i \in 1 .. Len(x)
    BY <1>1, <2>2, CutInTwo
  <2> HIDE DEF y
  <2>4. \A i, k \in 1 .. Len(y) : i < k => c + i < c + k
    BY <1>1, <2>2, <2>3
  <2>5. InStep(y, p)
    BY <2>3, <2>4 DEF InStep, Increasing
  <2> QED
    BY <2>1, <2>5
<1> QED
  BY <1>2, <1>3

(* The first read, of the whole file. *)
LEMMA LogSnapshot ==
    ASSUME ReadInv, j_shown = <<>>, Log!Complete \in Nat, Log!Snapshot
    PROVE  ReadInv'
<1> DEFINE cut == Log!Cut(j_file)
           M == Log!Matching(Log!ReadEntries(SubSeq(j_file, 1, cut), TRUE))
           p == SubSeq(j_file, cut + 1, Len(j_file))
           x == Log!LastOf(M)
<1>1. /\ j_shown' = x
      /\ j_follow' = [pc |-> "wait", offset |-> Len(j_file), size |-> 0,
                      start |-> Log!Complete, pending |-> p]
      /\ UNCHANGED <<j_lines, j_busy, j_file>>
  BY DEF Log!Snapshot, Log!reporting
<1>2. InStep(<<>>, j_file)
  BY EmptySeq DEF ReadInv, FileOK, InStep, Increasing
<1>3. M \in Seq(Nat) /\ InStep(<<>> \o M, p)
  BY <1>2, Reads
<1>4. <<>> \o M = M
  BY <1>3, ConcatEmptySeq
<1> HIDE DEF M, p
<1>5. InStep(x, p)
  BY <1>3, <1>4, LastInStep
<1> HIDE DEF x
<1>6. j_follow'.offset = Len(j_file') /\ j_follow'.pending = p /\ Len(j_file) \in Nat
  BY <1>1 DEF ReadInv, FileOK
<1>7. j_follow' \in Follows
  BY <1>1, <1>5, <1>6 DEF Follows, InStep
<1>8. InStep(j_shown, j_follow.pending)'
  BY <1>1, <1>5, <1>6 DEF InStep, Written, Sorted, Increasing, Before, End
<1>9. FileOK'
  BY <1>1 DEF ReadInv, FileOK, Written, Sorted, Before, End
<1>10. \A k \in 1 .. Len(j_file') : ~(k > j_follow'.offset \/ Len(j_file') < j_follow'.offset)
  BY <1>1, <1>6
<1> QED
  BY <1>7, <1>8, <1>9, <1>10 DEF ReadInv, ReadOK, Follows

(* Poll keeps what was read, or starts anew on a file that shrank. *)
LEMMA LogPoll ==
    ASSUME ReadInv, Log!Poll \/ Log!ReadFails
    PROVE  ReadInv'
<1>1. UNCHANGED <<j_lines, j_busy, j_file, j_shown>>
  BY DEF Log!Poll, Log!ReadFails, Log!reporting
<1>2. j_follow \in Follows /\ Len(j_file) \in Nat /\ j_follow.offset \in Nat
  BY FollowTyped DEF ReadInv, ReadOK, FileOK
<1>3. FileOK'
  BY <1>1 DEF ReadInv, FileOK, Written, Sorted, Before, End
<1>4. CASE Log!Poll /\ Len(j_file) < j_follow.offset
  <2>1. j_follow' = [j_follow EXCEPT !.pc = "read", !.size = Len(j_file), !.offset = 0,
                                     !.pending = <<>>]
    BY <1>4 DEF Log!Poll
  <2>2. <<>> \in Seq(AnyByte) /\ Len(<<>>) = 0
    BY EmptySeq
  <2>3. j_follow' \in Follows /\ j_follow'.offset = 0 /\ j_follow'.pending = <<>>
    BY <1>2, <2>1, <2>2 DEF Follows
  <2>4. \A k \in 1 .. Len(j_file) : Behind(j_shown, <<>>, j_file[k])
    BY <1>4, <2>2 DEF ReadInv, ReadOK, Behind
  <2>5. InStep(j_shown, <<>>)
    BY <2>2 DEF ReadInv, ReadOK, InStep, Sorted
  <2>6. InStep(j_shown, j_follow.pending)'
    BY <1>1, <2>3, <2>5 DEF InStep, Written, Sorted, Increasing, Before, End
  <2>7. \A k \in 1 .. Len(j_file') : Behind(j_shown, j_follow.pending, j_file[k])'
    BY <1>1, <2>3, <2>4 DEF Behind, Before, End
  <2> QED
    BY <1>3, <2>3, <2>6, <2>7 DEF ReadInv, ReadOK, Follows
<1>5. CASE ~(Log!Poll /\ Len(j_file) < j_follow.offset)
  <2>1. \/ j_follow' = [j_follow EXCEPT !.pc = "read", !.size = Len(j_file)]
        \/ j_follow' = [j_follow EXCEPT !.pc = "wait"]
    BY <1>5 DEF Log!Poll, Log!ReadFails
  <2>2. /\ j_follow' \in Follows
        /\ j_follow'.offset = j_follow.offset /\ j_follow'.pending = j_follow.pending
    BY <1>2, <2>1 DEF Follows
  <2>3. InStep(j_shown, j_follow.pending)'
    BY <1>1, <2>2 DEF ReadInv, ReadOK, InStep, Written, Sorted, Increasing, Before, End
  <2>4. \A k \in 1 .. Len(j_file') : k > j_follow'.offset \/ Len(j_file') < j_follow'.offset =>
           Behind(j_shown, j_follow.pending, j_file[k])'
    BY <1>1, <2>2 DEF ReadInv, ReadOK, Behind, Before, End
  <2> QED
    BY <1>3, <2>2, <2>3, <2>4 DEF ReadInv, ReadOK, Follows
<1> QED
  BY <1>4, <1>5

(* What readFileRange returns. *)
LEMMA Chunk ==
    ASSUME ReadInv
    PROVE  LET n == Log!Min({j_follow.size, Len(j_file)})
               chunk == SubSeq(j_file, j_follow.offset + 1, n)
           IN  /\ chunk \in Seq(AnyByte)
               /\ \A i \in 1 .. Len(chunk) :
                     chunk[i] = j_file[j_follow.offset + i] /\ j_follow.offset + i \in 1 .. Len(j_file)
               /\ Len(chunk) = 0 \/ j_follow.offset + Len(chunk) <= Len(j_file)
               /\ j_follow.size <= Len(j_file) => n = j_follow.size
<1> DEFINE N == Len(j_file)
           o == j_follow.offset
           z == j_follow.size
           n == Log!Min({z, N})
           chunk == SubSeq(j_file, o + 1, n)
<1>1. j_file \in Seq(AnyByte) /\ N \in Nat /\ o \in Nat /\ z \in Nat
  BY FollowTyped DEF ReadInv, FileOK
<1>2. n = IF z <= N THEN z ELSE N
  <2>1. n = CHOOSE a \in {z, N} : \A b \in {z, N} : a <= b
    BY DEF Log!Min
  <2>2. \A a \in {z, N} : (\A b \in {z, N} : a <= b) => a = IF z <= N THEN z ELSE N
    BY <1>1
  <2>3. \E a \in {z, N} : \A b \in {z, N} : a <= b
    BY <1>1
  <2> HIDE DEF n, z, N
  <2> QED
    BY <2>1, <2>2, <2>3
<1> HIDE DEF n
<1>3. n \in Nat /\ n <= N
  BY <1>1, <1>2
<1>4. CASE n < o + 1
  <2>1. chunk = <<>>
    BY <1>1, <1>3, <1>4, SubSeqEmpty
  <2>2. chunk \in Seq(AnyByte) /\ Len(chunk) = 0
    BY <2>1, EmptySeq
  <2> HIDE DEF chunk
  <2>3. \A i \in 1 .. Len(chunk) : FALSE
    BY <2>2
  <2>4. z <= N => n = z
    BY <1>2
  <2> QED
    BY <2>2, <2>3, <2>4 DEF chunk, n
<1>5. CASE o + 1 <= n
  <2>1. o <= n
    BY <1>1, <1>3, <1>5
  <2>2. /\ chunk \in Seq(AnyByte) /\ Len(chunk) = n - o
        /\ \A i \in 1 .. n - o : chunk[i] = j_file[o + i] /\ o + i \in 1 .. N
    BY <1>1, <1>3, <2>1, Middle
  <2> HIDE DEF chunk
  <2>5. o + Len(chunk) <= N
    BY <1>1, <1>3, <2>1, <2>2
  <2> QED
    BY <1>2, <2>2, <2>5 DEF chunk, n
<1>6. n < o + 1 \/ o + 1 <= n
  BY <1>1, <1>3
<1> QED
  BY <1>4, <1>5, <1>6

(* ReadRange shows and keeps only what lies behind. *)
LEMMA LogRead ==
    ASSUME ReadInv, NEW r \in BOOLEAN, Log!ReadRange(r)
    PROVE  ReadInv'
<1> DEFINE o == j_follow.offset
           q == j_follow.pending
           chunk == SubSeq(j_file, o + 1, Log!Min({j_follow.size, Len(j_file)}))
           b == q \o chunk
           cut == Log!Cut(b)
           x == j_shown \o Log!Matching(Log!ReadEntries(SubSeq(b, 1, cut), r))
           p == SubSeq(b, cut + 1, Len(b))
<1>1. /\ j_shown' = x
      /\ j_follow' = [j_follow EXCEPT !.pc = "wait", !.offset = @ + Len(chunk), !.pending = p]
      /\ UNCHANGED <<j_lines, j_busy, j_file>>
  BY DEF Log!ReadRange, Log!reporting
<1>2. /\ j_follow \in Follows /\ o \in Nat /\ Len(j_file) \in Nat /\ j_file \in Seq(AnyByte)
      /\ InStep(j_shown, q)
      /\ q \in Seq(AnyByte) /\ Len(q) \in Nat
  BY FollowTyped DEF ReadInv, ReadOK, FileOK
<1>3. /\ chunk \in Seq(AnyByte) /\ Len(chunk) \in Nat
      /\ \A i \in 1 .. Len(chunk) : chunk[i] = j_file[o + i] /\ o + i \in 1 .. Len(j_file)
      /\ Len(chunk) = 0 \/ o + Len(chunk) <= Len(j_file)
  <2>1. /\ chunk \in Seq(AnyByte)
        /\ \A i \in 1 .. Len(chunk) : chunk[i] = j_file[o + i] /\ o + i \in 1 .. Len(j_file)
        /\ Len(chunk) = 0 \/ o + Len(chunk) <= Len(j_file)
    BY Chunk
  <2> HIDE DEF chunk
  <2> QED
    BY <2>1
<1> HIDE DEF chunk
<1>4. /\ b \in Seq(AnyByte) /\ Len(b) = Len(q) + Len(chunk)
      /\ \A i \in 1 .. Len(q) + Len(chunk) : b[i] = IF i <= Len(q) THEN q[i] ELSE chunk[i - Len(q)]
  BY <1>2, <1>3, ConcatProperties
<1> HIDE DEF b
<1>5. ASSUME NEW i \in 1 .. Len(b)
      PROVE  \/ i \in 1 .. Len(q) /\ b[i] = q[i]
             \/ /\ i > Len(q) /\ i - Len(q) \in 1 .. Len(chunk)
                /\ b[i] = j_file[o + (i - Len(q))] /\ o + (i - Len(q)) \in 1 .. Len(j_file)
                /\ o + (i - Len(q)) > o
  <2>1. \/ i \in 1 .. Len(q) /\ i <= Len(q)
        \/ i > Len(q) /\ ~(i <= Len(q)) /\ i - Len(q) \in 1 .. Len(chunk)
    BY <1>2, <1>3, <1>4
  <2>2. CASE i \in 1 .. Len(q) /\ i <= Len(q)
    BY <1>4, <2>2
  <2>3. CASE i > Len(q) /\ ~(i <= Len(q)) /\ i - Len(q) \in 1 .. Len(chunk)
    <3>1. b[i] = chunk[i - Len(q)]
      BY <1>4, <2>3
    <3>2. chunk[i - Len(q)] = j_file[o + (i - Len(q))] /\ o + (i - Len(q)) \in 1 .. Len(j_file)
      BY <1>3, <2>3
    <3>3. o + (i - Len(q)) > o
      BY <1>2, <1>3, <2>3
    <3> QED
      BY <2>3, <3>1, <3>2, <3>3
  <2> QED
    BY <2>1, <2>2, <2>3
<1>6. \A k \in 1 .. Len(j_file) : k > o \/ Len(j_file) < o => Behind(j_shown, q, j_file[k])
  BY DEF ReadInv, ReadOK
<1>7. InStep(j_shown, b)
  <2>1. Sorted(b)
    <3> SUFFICES ASSUME NEW i \in 1 .. Len(b), NEW k \in 1 .. Len(b), i < k
                 PROVE  Before(b[i], b[k])
      BY DEF Sorted
    <3>1. CASE k \in 1 .. Len(q) /\ b[k] = q[k]
      <4>1. i \in 1 .. Len(q) /\ b[i] = q[i]
        BY <1>2, <1>5, <3>1
      <4> QED
        BY <1>2, <3>1, <4>1 DEF InStep, Sorted
    <3>2. CASE ~(k \in 1 .. Len(q) /\ b[k] = q[k]) /\ i \in 1 .. Len(q) /\ b[i] = q[i]
      BY <1>5, <1>6, <3>2 DEF Behind
    <3>3. CASE ~(k \in 1 .. Len(q) /\ b[k] = q[k]) /\ ~(i \in 1 .. Len(q) /\ b[i] = q[i])
      <4>1. /\ b[i] = j_file[o + (i - Len(q))] /\ o + (i - Len(q)) \in 1 .. Len(j_file)
            /\ b[k] = j_file[o + (k - Len(q))] /\ o + (k - Len(q)) \in 1 .. Len(j_file)
        BY <1>5, <3>3
      <4>2. o + (i - Len(q)) < o + (k - Len(q))
        BY <1>2, <1>4
      <4> QED
        BY <4>1, <4>2 DEF ReadInv, FileOK, Sorted
    <3> QED
      BY <3>1, <3>2, <3>3
  <2>2. \A i \in 1 .. Len(b) : Written(b[i])
    BY <1>2, <1>5 DEF InStep, ReadInv, FileOK
  <2>3. \A i \in 1 .. Len(j_shown), k \in 1 .. Len(b) : Before(End(j_shown[i]), b[k])
    BY <1>2, <1>5, <1>6 DEF InStep, Behind
  <2> QED
    BY <1>2, <1>4, <2>1, <2>2, <2>3 DEF InStep
<1>8. InStep(x, p) /\ \A c \in AnyByte : Behind(j_shown, b, c) => Behind(x, p, c)
  BY <1>7, Reads
<1> HIDE DEF x, p
<1>9. /\ j_follow'.offset = o + Len(chunk) /\ j_follow'.pending = p
      /\ j_follow' \in Follows
  <2>1. p \in Seq(AnyByte) /\ o + Len(chunk) \in Nat
    BY <1>2, <1>3, <1>8 DEF InStep
  <2> QED
    BY <1>1, <1>2, <2>1 DEF Follows
<1>10. FileOK'
  BY <1>1 DEF ReadInv, FileOK, Written, Sorted, Before, End
<1>11. InStep(j_shown, j_follow.pending)'
  BY <1>1, <1>8, <1>9 DEF InStep, Written, Sorted, Increasing, Before, End
<1>12. ASSUME NEW k \in 1 .. Len(j_file), k > o + Len(chunk) \/ Len(j_file) < o + Len(chunk)
       PROVE  Behind(x, p, j_file[k])
  <2>1. k > o \/ Len(j_file) < o
    BY <1>2, <1>3, <1>12
  <2>2. Behind(j_shown, q, j_file[k]) /\ j_file[k] \in AnyByte
    BY <1>2, <1>6, <2>1
  <2>3. ASSUME NEW i \in 1 .. Len(b) PROVE Before(b[i], j_file[k])
    <3>1. CASE i \in 1 .. Len(q) /\ b[i] = q[i]
      BY <2>2, <3>1 DEF Behind
    <3>2. CASE ~(i \in 1 .. Len(q) /\ b[i] = q[i])
      <4>1. /\ i - Len(q) \in 1 .. Len(chunk)
            /\ b[i] = j_file[o + (i - Len(q))] /\ o + (i - Len(q)) \in 1 .. Len(j_file)
        BY <1>5, <3>2
      <4>2. o \in Nat /\ Len(chunk) \in Nat /\ k \in Nat /\ Len(j_file) \in Nat
        BY <1>2, <1>3
      <4>3. o + (i - Len(q)) < k
        <5> DEFINE g == i - Len(q)
        <5>1. g \in 1 .. Len(chunk) /\ Len(chunk) # 0
          BY <4>1, <4>2
        <5>2. o + Len(chunk) <= Len(j_file)
          BY <1>3, <5>1
        <5>3. k > o + Len(chunk)
          BY <1>12, <4>2, <5>2
        <5> HIDE DEF g
        <5>4. o + g < k
          BY <4>2, <5>1, <5>3
        <5> QED
          BY <5>4 DEF g
      <4> QED
        BY <4>1, <4>3 DEF ReadInv, FileOK, Sorted
    <3> QED
      BY <3>1, <3>2
  <2> QED
    BY <1>8, <2>2, <2>3 DEF Behind
<1>13. \A k \in 1 .. Len(j_file') : k > j_follow'.offset \/ Len(j_file') < j_follow'.offset =>
          Behind(j_shown, j_follow.pending, j_file[k])'
  BY <1>1, <1>9, <1>12 DEF Behind, Before, End
<1> QED
  BY <1>9, <1>10, <1>11, <1>13 DEF ReadInv, ReadOK, Follows

(* While nobody truncates it, the file is every line that was written, the *)
(* last one perhaps without its newline, and what was read is a prefix.    *)
WholeFile ==
    /\ Len(j_file) = Len(j_lines) + Log!Complete
    /\ \A i \in 1 .. Len(j_file) :
          i = 2 * j_file[i][1] - (IF j_file[i][2] = "text" THEN 1 ELSE 0)

Wanting(a, b) == {n \in a + 1 .. b : j_lines[n].kind \in Wanted}

ReadUpTo(e) ==
    /\ 2 * e <= j_follow.offset /\ j_follow.offset <= 2 * e + 1
    /\ j_follow.offset <= Len(j_file) /\ j_follow.start <= e
    /\ j_follow.pc = "read" => j_follow.offset <= j_follow.size /\ j_follow.size <= Len(j_file)
    /\ j_follow.pending = SubSeq(j_file, 2 * e + 1, j_follow.offset)
    /\ j_shown = Log!LastOf(Log!InOrder(Wanting(0, j_follow.start)))
                     \o Log!InOrder(Wanting(j_follow.start, e))

WholeOK ==
    /\ j_truncations \in 0 .. MaxTruncations
    /\ j_follow.pc = "off" => j_shown = <<>>
    /\ j_truncations = 0 => WholeFile
    /\ j_truncations = 0 /\ j_follow.pc # "off" => \E e \in Nat : ReadUpTo(e)

LogInv == ReportInv /\ ReadInv /\ WholeOK

(* Every number is twice another, or one more. *)
LEMMA Halves ==
    ASSUME NEW n \in Nat
    PROVE  \E c \in Nat : 2 * c <= n /\ n <= 2 * c + 1
<1> DEFINE T == {m \in Nat : n <= 2 * m + 1}
<1>1. n \in T
  OBVIOUS
<1>2. PICK c \in T : \A m \in T : c <= m
  BY <1>1, Least
<1>3. CASE c = 0
  BY <1>2, <1>3
<1>4. CASE c # 0
  <2>1. c - 1 \in Nat /\ c - 1 \notin T
    BY <1>2, <1>4
  <2>2. ~(n <= 2 * (c - 1) + 1)
    BY <2>1
  <2> QED
    BY <1>2, <2>2
<1> QED
  BY <1>3, <1>4

(* Which byte stands where. *)
LEMMA WholeBytes ==
    ASSUME ReadInv, WholeFile, NEW i \in 1 .. Len(j_file), NEW m \in Int
    PROVE  /\ i = 2 * m => j_file[i] = End(m)
           /\ i = 2 * m - 1 => j_file[i] = <<m, "text">>
<1>1. /\ j_file[i] = <<j_file[i][1], j_file[i][2]>>
      /\ j_file[i][1] \in Nat /\ j_file[i][2] \in {"text", "newline"}
  <2>1. j_file[i] \in AnyByte
    BY DEF ReadInv, FileOK
  <2> QED
    BY <2>1 DEF AnyByte
<1>2. ASSUME i = 2 * m PROVE j_file[i] = End(m)
  <2> DEFINE x == j_file[i][1]
             y == j_file[i][2]
  <2>1. i = 2 * x - (IF y = "text" THEN 1 ELSE 0)
    BY DEF WholeFile
  <2>2. x \in Nat /\ y \in {"text", "newline"} /\ j_file[i] = <<x, y>>
    BY <1>1
  <2> HIDE DEF x, y
  <2>3. x = m /\ y = "newline"
    BY <1>2, <2>1, <2>2
  <2> QED
    BY <2>2, <2>3 DEF End
<1>3. ASSUME i = 2 * m - 1 PROVE j_file[i] = <<m, "text">>
  <2> DEFINE x == j_file[i][1]
             y == j_file[i][2]
  <2>1. i = 2 * x - (IF y = "text" THEN 1 ELSE 0)
    BY DEF WholeFile
  <2>2. x \in Nat /\ y \in {"text", "newline"} /\ j_file[i] = <<x, y>>
    BY <1>1
  <2> HIDE DEF x, y
  <2>3. x = m /\ y = "text"
    BY <1>3, <2>1, <2>2
  <2> QED
    BY <2>2, <2>3
<1> QED
  BY <1>2, <1>3

(* The wanted ones of finitely many lines. *)
LEMMA WantingIsFinite ==
    ASSUME NEW a \in Nat, NEW b \in Nat
    PROVE  IsFiniteSet(Wanting(a, b)) /\ Wanting(a, b) \in SUBSET Nat
<1>1. a + 1 \in Int /\ b \in Int
  OBVIOUS
<1>2. IsFiniteSet(a + 1 .. b)
  BY <1>1, FS_Interval
<1>3. Wanting(a, b) \subseteq a + 1 .. b
  BY DEF Wanting
<1> QED
  BY <1>2, <1>3, FS_Subset

(* A read of the whole file from the end of line e, up to z which is in    *)
(* the line after f.                                                       *)
FileAfter(e, z) == SubSeq(j_file, 2 * e + 1, z)
RestOf(b)       == SubSeq(b, Log!Cut(b) + 1, Len(b))
Stretch(b, e, f, z) ==
    /\ e \in Nat /\ f \in Nat /\ z \in Nat
    /\ e <= f /\ 2 * f <= z /\ z <= 2 * f + 1 /\ z <= Len(j_file)
    /\ b = FileAfter(e, z)

(* Such a read ends after line f, and prints the wanted lines up to it. *)
LEMMA ReadsWhole ==
    ASSUME ReadInv, WholeFile, NEW e, NEW f, NEW z, NEW b, Stretch(b, e, f, z)
    PROVE  LET cut == Log!Cut(b)
           IN  /\ cut = 2 * (f - e)
               /\ RestOf(b) = FileAfter(f, z)
               /\ \A r \in BOOLEAN :
                     Log!Matching(Log!ReadEntries(SubSeq(b, 1, cut), r)) = Log!InOrder(Wanting(e, f))
<1> DEFINE cut == Log!Cut(b)
           d == 2 * (f - e)
           N == Len(j_file)
           a == SubSeq(b, 1, d)
           p == SubSeq(b, d + 1, Len(b))
           t == SubSeq(j_file, 2 * f + 1, z)
<1>1. /\ j_file \in Seq(AnyByte) /\ N \in Nat
      /\ Sorted(j_file)
  BY DEF ReadInv, FileOK
<1>0. /\ e \in Nat /\ f \in Nat /\ z \in Nat
      /\ e <= f /\ 2 * f <= z /\ z <= 2 * f + 1 /\ z <= N
      /\ b = SubSeq(j_file, 2 * e + 1, z)
  BY DEF Stretch, FileAfter
<1>2. 2 * e \in Nat /\ 2 * f \in Nat /\ 2 * e <= z /\ d \in Nat /\ 2 * e + d = 2 * f
  BY <1>0
<1>3. /\ b \in Seq(AnyByte) /\ Len(b) = z - 2 * e
      /\ \A i \in 1 .. z - 2 * e : b[i] = j_file[2 * e + i] /\ 2 * e + i \in 1 .. N
  BY <1>0, <1>1, <1>2, Middle
<1>4. /\ t \in Seq(AnyByte) /\ Len(t) = z - 2 * f
      /\ \A i \in 1 .. z - 2 * f : t[i] = j_file[2 * f + i] /\ 2 * f + i \in 1 .. N
  BY <1>0, <1>1, <1>2, Middle
<1>5. \A i \in 1 .. N, m \in Int : /\ i = 2 * m => j_file[i] = End(m)
                                   /\ i = 2 * m - 1 => j_file[i] = <<m, "text">>
  BY WholeBytes
<1>6. d \in 0 .. Len(b) /\ Len(b) \in Nat /\ Len(b) <= d + 1
  BY <1>0, <1>2, <1>3
<1>7. /\ cut \in 0 .. Len(b)
      /\ \A i \in 1 .. Len(b) : i > cut => b[i][2] = "text"
      /\ cut # 0 => b[cut][2] = "newline"
  BY <1>3, Cutting
<1> HIDE DEF N, t, cut
<1>8. cut = d
  <2>1. ASSUME d > cut PROVE FALSE
    <3> DEFINE i == 2 * e + d
    <3>1. d \in 1 .. Len(b) /\ i = 2 * f /\ f \in Int
      BY <1>0, <1>2, <1>6, <1>7, <2>1
    <3>2. b[d] = j_file[i] /\ i \in 1 .. N
      BY <1>3, <3>1
    <3> HIDE DEF i, d
    <3>3. b[d] = End(f)
      BY <1>5, <3>1, <3>2
    <3>4. End(f)[2] = "newline"
      BY DEF End
    <3> QED
      BY <1>7, <2>1, <3>1, <3>3, <3>4
  <2>2. ASSUME cut > d PROVE FALSE
    <3> DEFINE i == 2 * e + cut
               m == f + 1
    <3>1. cut \in 1 .. Len(b) /\ cut # 0 /\ i = 2 * m - 1 /\ m \in Int
      BY <1>0, <1>2, <1>6, <1>7, <2>2
    <3>2. b[cut] = j_file[i] /\ i \in 1 .. N
      BY <1>3, <3>1
    <3> HIDE DEF i, m
    <3>3. b[cut] = <<m, "text">>
      BY <1>5, <3>1, <3>2
    <3> QED
      BY <1>7, <3>1, <3>3
  <2> QED
    BY <1>6, <1>7, <2>1, <2>2
<1>9. /\ a \in Seq(AnyByte) /\ Len(a) = d
      /\ \A i \in 1 .. d : a[i] = b[i] /\ i \in 1 .. Len(b)
      /\ p \in Seq(AnyByte) /\ Len(p) = Len(b) - d
      /\ \A i \in 1 .. Len(b) - d : p[i] = b[d + i] /\ d + i \in 1 .. Len(b)
  <2> HIDE DEF d
  <2> QED
    BY <1>3, <1>6, CutInTwo
<1> HIDE DEF a, p
<1>10. p = t
  <2>1. Len(p) = Len(t) /\ Len(b) - d = z - 2 * f
    BY <1>0, <1>2, <1>3, <1>4, <1>9
  <2>2. ASSUME NEW i \in 1 .. Len(p) PROVE p[i] = t[i]
    <3>1. p[i] = b[d + i] /\ d + i \in 1 .. z - 2 * e
      BY <1>3, <1>9
    <3>2. p[i] = j_file[2 * e + (d + i)] /\ 2 * e + (d + i) = 2 * f + i
      BY <1>0, <1>2, <1>3, <3>1
    <3> QED
      BY <1>4, <2>1, <1>9, <3>2
  <2> QED
    BY <1>4, <1>9, <2>1, <2>2, SeqEqual
<1>11. \A i \in 1 .. d : a[i] = j_file[2 * e + i] /\ 2 * e + i \in 1 .. N
  BY <1>3, <1>9
<1> HIDE DEF d
<1>12. ASSUME NEW i \in 1 .. d, a[i][2] = "newline"
       PROVE  \E n \in e + 1 .. f : i = 2 * (n - e) /\ a[i] = End(n) /\ Log!Whole(a, i)
  <2>1. a[i] = j_file[2 * e + i] /\ 2 * e + i \in 1 .. N /\ a[i] \in AnyByte
    BY <1>9, <1>11
  <2> DEFINE n == a[i][1]
  <2>2. n \in Nat /\ 2 * e + i = 2 * n
    BY <1>12, <2>1 DEF WholeFile, AnyByte, N
  <2> HIDE DEF n
  <2>3. n \in e + 1 .. f /\ i = 2 * (n - e)
    BY <1>0, <1>2, <2>2 DEF d
  <2>4. a[i] = End(n)
    BY <1>5, <2>1, <2>2
  <2>5. i > 1 /\ i - 1 \in 1 .. d /\ 2 * e + (i - 1) = 2 * n - 1
    BY <1>0, <1>2, <2>2, <2>3
  <2>6. a[i - 1] = <<n, "text">>
    <3> DEFINE k == 2 * e + (i - 1)
    <3>1. a[i - 1] = j_file[k] /\ k \in 1 .. N /\ k = 2 * n - 1 /\ n \in Int
      BY <1>11, <2>2, <2>5
    <3> HIDE DEF k
    <3> QED
      BY <1>5, <3>1
  <2>7. Log!Whole(a, i)
    BY <2>4, <2>5, <2>6 DEF Log!Whole, End
  <2> QED
    BY <2>3, <2>4, <2>7
<1>13. ASSUME NEW n \in e + 1 .. f
       PROVE  \E i \in 1 .. d : a[i] = End(n)
  <2>1. 2 * (n - e) \in 1 .. d /\ 2 * e + 2 * (n - e) = 2 * n /\ n \in Int
    BY <1>0, <1>2 DEF d
  <2>2. a[2 * (n - e)] = j_file[2 * n] /\ 2 * n \in 1 .. N
    BY <1>11, <2>1
  <2> QED
    BY <1>5, <2>1, <2>2
<1>14. DOMAIN a = 1 .. d
  BY <1>9
<1>15. ASSUME NEW r \in BOOLEAN
       PROVE  Log!Matching(Log!ReadEntries(a, r)) = Log!InOrder(Wanting(e, f))
  <2>1. \A i : i \in Log!Decoded(a, r) <=> i \in 1 .. d /\ a[i][2] = "newline"
    <3>1. \A i \in 1 .. d : a[i][2] = "newline" => Log!Whole(a, i)
      BY <1>12
    <3>2. \A i \in 1 .. d : \A j \in 1 .. i : j \in 1 .. d
      BY <1>6
    <3>3. \A i \in 1 .. d : \A j \in 1 .. i : ~Log!Broken(a, j)
      BY <3>1, <3>2 DEF Log!Broken
    <3>4. \A i \in 1 .. d : Log!Whole(a, i) => a[i][2] = "newline"
      BY DEF Log!Whole
    <3> QED
      BY <1>14, <3>1, <3>3, <3>4 DEF Log!Decoded
  <2>2. Kept(a, r) = Wanting(e, f)
    <3>1. ASSUME NEW n \in Kept(a, r) PROVE n \in Wanting(e, f)
      <4>1. PICK i \in Log!Decoded(a, r) : n = a[i][1] /\ j_lines[n].kind \in Wanted
        BY <3>1 DEF Kept
      <4>2. n \in e + 1 .. f
        BY <1>12, <2>1, <4>1 DEF End
      <4> QED
        BY <4>1, <4>2 DEF Wanting
    <3>2. ASSUME NEW n \in Wanting(e, f) PROVE n \in Kept(a, r)
      <4>1. n \in e + 1 .. f /\ j_lines[n].kind \in Wanted
        BY <3>2 DEF Wanting
      <4>2. PICK i \in 1 .. d : a[i] = End(n)
        BY <1>13, <4>1
      <4>3. i \in Log!Decoded(a, r) /\ a[i][1] = n
        BY <2>1, <4>2 DEF End
      <4> QED
        BY <4>1, <4>3 DEF Kept
    <3> QED
      BY <3>1, <3>2
  <2>3. Sorted(a)
    <3>1. \A i, k \in 1 .. d : i < k => 2 * e + i < 2 * e + k
      BY <1>0, <1>2, <1>6
    <3> QED
      BY <1>1, <1>9, <1>11, <3>1 DEF Sorted, N
  <2>4. Log!Matching(Log!ReadEntries(a, r)) = Log!InOrder(Wanting(e, f))
    BY <1>9, <2>2, <2>3, Reading
  <2> QED
    BY <2>4
<1> QED
  BY <1>8, <1>10, <1>15 DEF cut, a, p, t, d, RestOf, FileAfter

(* A step that touches neither lines, file nor reader. *)
LEMMA WholeStays ==
    ASSUME WholeOK, UNCHANGED <<j_busy, j_lines, j_file, j_truncations, j_shown, j_follow>>
    PROVE  WholeOK'
<1>1. WholeFile' <=> WholeFile
  BY DEF WholeFile, Log!Complete
<1>2. \A e : ReadUpTo(e)' <=> ReadUpTo(e)
  BY DEF ReadUpTo, Wanting
<1> QED
  BY <1>1, <1>2 DEF WholeOK

(* All lines are complete but perhaps the last. *)
LEMMA CompleteIs ==
    ASSUME ReportInv
    PROVE  /\ Log!Complete \in Nat /\ Len(j_lines) \in Nat
           /\ Log!Complete <= Len(j_lines) /\ Len(j_lines) <= Log!Complete + 1
<1>1. j_busy # "nobody" => Len(j_lines) > 0
  BY DEF ReportInv, HandsOK
<1> QED
  BY <1>1, LinesTyped DEF Log!Complete

(* The next byte of a line does not touch what was read. *)
LEMMA WholeGrows ==
    ASSUME LogInv, NEW b \in AnyByte, j_file' = Append(j_file, b),
           UNCHANGED <<j_truncations, j_shown, j_follow>>,
           Len(j_lines) <= Len(j_lines'),
           \A n \in 1 .. Len(j_lines) : j_lines'[n] = j_lines[n],
           WholeFile => /\ Len(j_file) + 1 = Len(j_lines') + Log!Complete'
                        /\ Len(j_file) + 1 = 2 * b[1] - (IF b[2] = "text" THEN 1 ELSE 0)
    PROVE  WholeOK'
<1> DEFINE N == Len(j_file)
           f == j_file'
           n == Len(j_lines)
<1>1. j_file \in Seq(AnyByte) /\ N \in Nat
  BY DEF LogInv, ReadInv, FileOK
<1>2. /\ f \in Seq(AnyByte) /\ Len(f) = N + 1 /\ f[N + 1] = b
      /\ \A i \in 1 .. N : f[i] = j_file[i]
  BY <1>1
<1>3. n \in Nat /\ Log!Complete <= n /\ Log!Complete \in Nat
  BY CompleteIs DEF LogInv
<1> HIDE DEF f
<1>4. \A i \in 1 .. N + 1 : i = N + 1 \/ i \in 1 .. N
  BY <1>1
<1>5. WholeFile => WholeFile'
  <2> SUFFICES ASSUME WholeFile PROVE WholeFile'
    OBVIOUS
  <2>1. \A i \in 1 .. Len(f) : i = 2 * f[i][1] - (IF f[i][2] = "text" THEN 1 ELSE 0)
    BY <1>2, <1>4 DEF WholeFile
  <2> QED
    BY <1>2, <2>1 DEF WholeFile, f
<1>6. ASSUME WholeFile, NEW e \in Nat, ReadUpTo(e) PROVE ReadUpTo(e)'
  <2> DEFINE o == j_follow.offset
             s == j_follow.start
  <2>1. o \in Nat /\ s \in Nat
    BY FollowTyped DEF LogInv
  <2>2. /\ 2 * e <= o /\ o <= 2 * e + 1 /\ o <= N /\ s <= e
        /\ N = n + Log!Complete
    BY <1>6 DEF ReadUpTo, WholeFile
  <2>3. e <= n
    BY <1>1, <1>3, <2>1, <2>2
  <2>4. SubSeq(f, 2 * e + 1, o) = SubSeq(j_file, 2 * e + 1, o)
    <3>1. 2 * e \in Nat /\ o <= Len(f)
      BY <1>1, <1>2, <2>1, <2>2
    <3>2. /\ SubSeq(j_file, 2 * e + 1, o) \in Seq(AnyByte)
          /\ Len(SubSeq(j_file, 2 * e + 1, o)) = o - 2 * e
          /\ \A i \in 1 .. o - 2 * e : /\ SubSeq(j_file, 2 * e + 1, o)[i] = j_file[2 * e + i]
                                       /\ 2 * e + i \in 1 .. N
      BY <1>1, <2>1, <2>2, <3>1, Middle
    <3>3. /\ SubSeq(f, 2 * e + 1, o) \in Seq(AnyByte)
          /\ Len(SubSeq(f, 2 * e + 1, o)) = o - 2 * e
          /\ \A i \in 1 .. o - 2 * e : SubSeq(f, 2 * e + 1, o)[i] = f[2 * e + i]
      BY <1>2, <2>1, <2>2, <3>1, Middle
    <3> DEFINE u == SubSeq(j_file, 2 * e + 1, o)
               v == SubSeq(f, 2 * e + 1, o)
    <3> HIDE DEF u, v, N, o
    <3>4. \A i \in 1 .. Len(v) : v[i] = u[i]
      BY <1>2, <3>2, <3>3 DEF u, v
    <3>5. v = u
      BY <3>2, <3>3, <3>4, SeqEqual DEF u, v
    <3> QED
      BY <3>5 DEF u, v
  <2>5. ASSUME NEW a \in Nat, NEW c \in Nat, c <= n PROVE Wanting(a, c)' = Wanting(a, c)
    <3>1. \A m \in a + 1 .. c : m \in 1 .. n
      BY <1>3, <2>5
    <3> QED
      BY <3>1 DEF Wanting
  <2>6. Wanting(0, s)' = Wanting(0, s) /\ Wanting(s, e)' = Wanting(s, e)
    <3>1. s <= n /\ 0 \in Nat
      BY <1>3, <2>1, <2>2, <2>3
    <3> QED
      BY <2>1, <2>3, <2>5, <3>1
  <2>7. Wanting(0, j_follow.start)' = Wanting(0, j_follow.start)
        /\ Wanting(j_follow.start, e)' = Wanting(j_follow.start, e)
    BY <2>6 DEF Wanting
  <2>8. j_follow.pc = "read" => j_follow.size <= Len(f)
    BY <1>1, <1>2, <1>6, FollowTyped DEF ReadUpTo, LogInv
  <2>9. o <= Len(f)
    BY <1>1, <1>2, <2>1, <2>2
  <2> QED
    BY <1>6, <2>4, <2>7, <2>8, <2>9 DEF ReadUpTo, f
<1> QED
  BY <1>5, <1>6 DEF LogInv, WholeOK

(* The text of a line, and ... *)
LEMMA WholeText ==
    ASSUME LogInv, NEW t \in Log!Writers, Log!WriteLine(t)
    PROVE  WholeOK'
<1>1. CASE j_closing = "closed"
  BY <1>1, WholeStays DEF Log!WriteLine, LogInv
<1>2. CASE j_closing # "closed"
  <2> DEFINE n == Len(j_lines)
             b == <<n + 1, "text">>
  <2>1. /\ j_busy = "nobody" /\ j_busy' = t /\ j_busy' # "nobody"
        /\ j_lines' = Append(j_lines, j_emitting[t])
        /\ j_file' = Append(j_file, <<Len(j_lines'), "text">>)
        /\ UNCHANGED <<j_truncations, j_shown, j_follow>>
    BY <1>2, NobodyIsNoWriter DEF Log!WriteLine
  <2>2. Len(j_lines') = n + 1 /\ n \in Nat /\ \A m \in 1 .. n : j_lines'[m] = j_lines[m]
    <3>1. j_lines \in Seq(Log!Lines) /\ j_emitting[t] \in Log!Lines
      BY DEF LogInv, ReportInv, ReportTyped
    <3> QED
      BY <2>1, <3>1
  <2>3. j_file' = Append(j_file, b) /\ b \in AnyByte /\ b[1] = n + 1 /\ b[2] = "text"
    BY <2>1, <2>2 DEF AnyByte
  <2>4. Log!Complete = n /\ Log!Complete' = n + 1 - 1 /\ n <= Len(j_lines')
    BY <2>1, <2>2 DEF Log!Complete
  <2>5. WholeFile => /\ Len(j_file) + 1 = Len(j_lines') + Log!Complete'
                     /\ Len(j_file) + 1 = 2 * b[1] - (IF b[2] = "text" THEN 1 ELSE 0)
    BY <2>2, <2>3, <2>4 DEF WholeFile
  <2> HIDE DEF b
  <2> QED
    BY <2>1, <2>2, <2>3, <2>4, <2>5, WholeGrows
<1> QED
  BY <1>1, <1>2

(* ... its newline. *)
LEMMA WholeNewline ==
    ASSUME LogInv, NEW t \in Log!Writers, Log!LineWritten(t)
    PROVE  WholeOK'
<1> DEFINE n == Len(j_lines)
           b == <<n, "newline">>
<1>1. /\ j_busy' = "nobody" /\ j_busy # "nobody" /\ j_lines' = j_lines
      /\ j_file' = Append(j_file, b)
      /\ UNCHANGED <<j_truncations, j_shown, j_follow>>
  BY NobodyIsNoWriter DEF Log!LineWritten
<1>2. n \in Nat /\ n > 0
  BY <1>1, LinesTyped DEF LogInv, ReportInv, HandsOK
<1>3. b \in AnyByte /\ b[1] = n /\ b[2] = "newline"
  BY <1>2 DEF AnyByte
<1>4. Log!Complete = n - 1 /\ Log!Complete' = n /\ Len(j_lines') = n /\ n <= n
  BY <1>1, <1>2 DEF Log!Complete
<1>5. WholeFile => /\ Len(j_file) + 1 = Len(j_lines') + Log!Complete'
                   /\ Len(j_file) + 1 = 2 * b[1] - (IF b[2] = "text" THEN 1 ELSE 0)
  BY <1>2, <1>3, <1>4 DEF WholeFile
<1> HIDE DEF b
<1> QED
  BY <1>1, <1>3, <1>4, <1>5, WholeGrows

(* After a truncation nothing is claimed of the whole file. *)
LEMMA WholeTruncated ==
    ASSUME LogInv, Log!Truncate
    PROVE  WholeOK'
<1>1. /\ j_truncations' = j_truncations + 1 /\ j_truncations < MaxTruncations
      /\ j_truncations \in 0 .. MaxTruncations
      /\ UNCHANGED <<j_shown, j_follow>>
  BY DEF Log!Truncate, LogInv, WholeOK
<1>2. j_truncations' \in 0 .. MaxTruncations /\ j_truncations' # 0
  BY <1>1, JournalAssumption
<1> QED
  BY <1>1, <1>2 DEF LogInv, WholeOK

(* No lines, none wanted. *)
LEMMA NothingWanted ==
    ASSUME NEW a \in Nat
    PROVE  Log!InOrder(Wanting(a, a)) = <<>>
<1>1. Wanting(a, a) = {}
  BY DEF Wanting
<1>2. {} \in SUBSET Nat /\ IsFiniteSet({}) /\ Cardinality({}) = 0
  BY FS_EmptySet
<1>3. Log!InOrder({}) \in Seq({}) /\ Len(Log!InOrder({})) = 0
  BY <1>2, Ordering
<1> QED
  BY <1>1, <1>3

(* The tail of line numbers is line numbers. *)
LEMMA LastTyped ==
    ASSUME NEW x \in Seq(Nat)
    PROVE  Log!LastOf(x) \in Seq(Nat)
<1>1. CASE ~(LastOnly > 0 /\ Len(x) > LastOnly)
  BY <1>1 DEF Log!LastOf
<1>2. CASE LastOnly > 0 /\ Len(x) > LastOnly
  <2> DEFINE c == Len(x) - LastOnly
  <2>1. c \in 0 .. Len(x)
    BY <1>2, JournalAssumption
  <2>2. Log!LastOf(x) = SubSeq(x, c + 1, Len(x))
    BY <1>2 DEF Log!LastOf
  <2> HIDE DEF c
  <2> QED
    BY <2>1, <2>2, CutInTwo
<1> QED
  BY <1>1, <1>2

(* The wanted lines in order are line numbers. *)
LEMMA WantingInOrder ==
    ASSUME NEW a \in Nat, NEW b \in Nat
    PROVE  Log!InOrder(Wanting(a, b)) \in Seq(Nat)
<1>1. IsFiniteSet(Wanting(a, b)) /\ Wanting(a, b) \in SUBSET Nat
  BY WantingIsFinite
<1>2. Log!InOrder(Wanting(a, b)) \in Seq(Wanting(a, b))
  BY <1>1, Ordering
<1> QED
  BY <1>1, <1>2, SeqMonotonic

(* The first read shows the tail of the complete lines. *)
LEMMA WholeSnapshot ==
    ASSUME LogInv, Log!Snapshot
    PROVE  WholeOK'
<1> DEFINE N == Len(j_file)
           cut == Log!Cut(j_file)
           M == Log!Matching(Log!ReadEntries(SubSeq(j_file, 1, cut), TRUE))
           p == SubSeq(j_file, cut + 1, N)
<1>1. /\ j_shown' = Log!LastOf(M)
      /\ j_follow' = [pc |-> "wait", offset |-> N, size |-> 0, start |-> Log!Complete,
                      pending |-> p]
      /\ UNCHANGED <<j_lines, j_busy, j_file, j_truncations>>
  BY DEF Log!Snapshot, Log!reporting
<1>2. PICK f \in Nat : /\ f = Log!Complete /\ Len(j_lines) \in Nat
                       /\ f <= Len(j_lines) /\ Len(j_lines) <= f + 1
  BY CompleteIs DEF LogInv
<1>3. j_file \in Seq(AnyByte) /\ N \in Nat
  BY DEF LogInv, ReadInv, FileOK
<1>4. j_follow'.pc # "off" /\ j_follow'.pc # "read" /\ j_follow'.offset = N
      /\ j_follow'.start = f /\ j_follow'.pending = p
  BY <1>1, <1>2
<1>5. WholeFile' <=> WholeFile
  BY <1>1 DEF WholeFile, Log!Complete
<1>6. ASSUME WholeFile PROVE ReadUpTo(f)'
  <2> DEFINE W == Log!InOrder(Wanting(0, f))
  <2>1. N = Len(j_lines) + f
    BY <1>2, <1>6 DEF WholeFile
  <2>2. 0 <= f /\ 2 * f <= N /\ N <= 2 * f + 1 /\ N <= Len(j_file) /\ 0 \in Nat
    BY <1>2, <1>3, <2>1
  <2>3. j_file = SubSeq(j_file, 1, N) /\ 2 * 0 + 1 = 1
    BY <1>3, SubSeqFull
  <2>4. j_file = SubSeq(j_file, 2 * 0 + 1, N)
    BY <2>3
  <2>5. p = SubSeq(j_file, 2 * f + 1, N) /\ M = W
    <3>1. ReadInv /\ WholeFile
      BY <1>6 DEF LogInv
    <3>2. Stretch(j_file, 0, f, N)
      BY <1>2, <1>3, <2>2, <2>4 DEF Stretch, FileAfter
    <3>3. M = W
      BY <3>1, <3>2, ReadsWhole
    <3>4. RestOf(j_file) = FileAfter(f, N)
      BY <3>1, <3>2, ReadsWhole
    <3> QED
      BY <3>3, <3>4 DEF RestOf, FileAfter
  <2> HIDE DEF M, p, W
  <2>6. W \in Seq(Nat)
    BY <1>2, WantingInOrder DEF W
  <2>7. Log!LastOf(W) = Log!LastOf(W) \o Log!InOrder(Wanting(f, f))
    BY <1>2, <2>6, LastTyped, NothingWanted, ConcatEmptySeq
  <2>8. Wanting(0, f)' = Wanting(0, f) /\ Wanting(f, f)' = Wanting(f, f)
    BY <1>1 DEF Wanting
  <2>9. j_shown' = Log!LastOf(Log!InOrder(Wanting(0, f)')) \o Log!InOrder(Wanting(f, f)')
    BY <1>1, <2>5, <2>7, <2>8 DEF W
  <2> QED
    BY <1>1, <1>2, <1>3, <1>4, <2>2, <2>5, <2>9 DEF ReadUpTo
<1> QED
  BY <1>1, <1>2, <1>4, <1>5, <1>6 DEF LogInv, WholeOK

(* Poll takes the size of a file that only grows; a read that fails moves  *)
(* nothing.                                                                *)
LEMMA WholePolled ==
    ASSUME LogInv, Log!Poll \/ Log!ReadFails
    PROVE  WholeOK'
<1>1. UNCHANGED <<j_lines, j_busy, j_file, j_truncations, j_shown>>
  BY DEF Log!Poll, Log!ReadFails, Log!reporting
<1>2. j_follow \in Follows /\ Len(j_file) \in Nat /\ j_follow.offset \in Nat
  BY FollowTyped DEF LogInv, ReadInv, ReadOK, FileOK
<1>3. j_follow.pc # "off"
  BY DEF Log!Poll, Log!ReadFails
<1>4. j_follow'.pc # "off"
  BY <1>2 DEF Log!Poll, Log!ReadFails, Follows
<1>5. WholeFile' <=> WholeFile
  BY <1>1 DEF WholeFile, Log!Complete
<1>6. ASSUME NEW e \in Nat, ReadUpTo(e) PROVE ReadUpTo(e)'
  <2>1. j_follow.offset <= Len(j_file)
    BY <1>6 DEF ReadUpTo
  <2>2. \/ j_follow' = [j_follow EXCEPT !.pc = "read", !.size = Len(j_file)]
        \/ j_follow' = [j_follow EXCEPT !.pc = "wait"]
    BY <1>2, <2>1 DEF Log!Poll, Log!ReadFails
  <2>3. /\ j_follow'.offset = j_follow.offset /\ j_follow'.pending = j_follow.pending
        /\ j_follow'.start = j_follow.start
        /\ j_follow'.pc = "read" => j_follow'.size = Len(j_file)
    BY <1>2, <2>2 DEF Follows
  <2>4. \A a, c : Wanting(a, c)' = Wanting(a, c)
    BY <1>1 DEF Wanting
  <2>5. j_follow'.pc = "read" => j_follow'.offset <= j_follow'.size /\ j_follow'.size <= Len(j_file)
    BY <1>2, <2>1, <2>3
  <2>6. Wanting(0, j_follow.start)' = Wanting(0, j_follow.start)
        /\ Wanting(j_follow.start, e)' = Wanting(j_follow.start, e)
    BY <1>1, <2>3 DEF Wanting
  <2> QED
    BY <1>1, <1>6, <2>3, <2>5, <2>6 DEF ReadUpTo
<1> QED
  BY <1>1, <1>3, <1>4, <1>5, <1>6 DEF LogInv, WholeOK

(* More lines, wanted and in order, behind those that were shown. *)
LEMMA WantingMore ==
    ASSUME NEW a \in Nat, NEW b \in Nat, NEW c \in Nat, a <= b, b <= c, NEW x \in Seq(Nat)
    PROVE  (x \o Log!InOrder(Wanting(a, b))) \o Log!InOrder(Wanting(b, c))
               = x \o Log!InOrder(Wanting(a, c))
<1> DEFINE S == Wanting(a, b)
           T == Wanting(b, c)
<1>1. IsFiniteSet(S) /\ S \in SUBSET Nat /\ IsFiniteSet(T) /\ T \in SUBSET Nat
  BY WantingIsFinite
<1>2. \A m \in S, n \in T : m < n
  BY DEF Wanting
<1>3. S \cup T = Wanting(a, c)
  BY DEF Wanting
<1>4. Log!InOrder(S) \in Seq(Nat) /\ Log!InOrder(T) \in Seq(Nat)
  BY WantingInOrder
<1> HIDE DEF S, T
<1>5. Log!InOrder(S) \o Log!InOrder(T) = Log!InOrder(S \cup T)
  BY <1>1, <1>2, OrderedUnion
<1>6. (x \o Log!InOrder(S)) \o Log!InOrder(T) = x \o (Log!InOrder(S) \o Log!InOrder(T))
  <2> DEFINE u == Log!InOrder(S)
             v == Log!InOrder(T)
  <2>1. u \in Seq(Nat) /\ v \in Seq(Nat)
    BY <1>4
  <2> HIDE DEF u, v
  <2>2. (x \o u) \o v = x \o (u \o v)
    BY <2>1, SMTT(30)
  <2> QED
    BY <2>2 DEF u, v
<1> QED
  BY <1>3, <1>5, <1>6 DEF S, T

(* A read goes on from the last complete line to the next. *)
LEMMA WholeRead ==
    ASSUME LogInv, NEW r \in BOOLEAN, Log!ReadRange(r)
    PROVE  WholeOK'
<1> DEFINE o == j_follow.offset
           z == j_follow.size
           s == j_follow.start
           q == j_follow.pending
           chunk == SubSeq(j_file, o + 1, Log!Min({z, Len(j_file)}))
           b == q \o chunk
           cut == Log!Cut(b)
           M == Log!Matching(Log!ReadEntries(SubSeq(b, 1, cut), r))
           p == SubSeq(b, cut + 1, Len(b))
<1>1. /\ j_shown' = j_shown \o M
      /\ j_follow' = [j_follow EXCEPT !.pc = "wait", !.offset = @ + Len(chunk), !.pending = p]
      /\ UNCHANGED <<j_lines, j_busy, j_file, j_truncations>>
      /\ j_follow.pc = "read"
  BY DEF Log!ReadRange, Log!reporting
<1>2. /\ o \in Nat /\ z \in Nat /\ s \in Nat /\ Len(j_file) \in Nat /\ j_file \in Seq(AnyByte)
      /\ j_follow \in Follows
  BY FollowTyped DEF LogInv, ReadInv, ReadOK, FileOK
<1>3. z <= Len(j_file) => chunk = SubSeq(j_file, o + 1, z)
  <2>1. z <= Len(j_file) => Log!Min({z, Len(j_file)}) = z
    BY Chunk DEF LogInv
  <2> QED
    BY <2>1
<1> HIDE DEF chunk
<1>4. /\ j_follow'.pc = "wait" /\ j_follow'.offset = o + Len(chunk) /\ j_follow'.start = s
      /\ j_follow'.pending = p
  BY <1>1, <1>2 DEF Follows
<1>5. WholeFile' <=> WholeFile
  BY <1>1 DEF WholeFile, Log!Complete
<1>6. ASSUME WholeFile, NEW e \in Nat, ReadUpTo(e) PROVE \E f \in Nat : ReadUpTo(f)'
  <2>1. /\ 2 * e <= o /\ o <= 2 * e + 1 /\ o <= Len(j_file) /\ s <= e
        /\ o <= z /\ z <= Len(j_file)
        /\ q = SubSeq(j_file, 2 * e + 1, o)
        /\ j_shown = Log!LastOf(Log!InOrder(Wanting(0, s))) \o Log!InOrder(Wanting(s, e))
    BY <1>1, <1>6 DEF ReadUpTo
  <2>2. PICK f \in Nat : 2 * f <= z /\ z <= 2 * f + 1
    BY <1>2, Halves
  <2>3. e <= f
    BY <1>2, <2>1, <2>2
  <2>4. chunk = SubSeq(j_file, o + 1, z) /\ Len(chunk) = z - o /\ o + (z - o) = z
    <3>1. chunk = SubSeq(j_file, o + 1, z)
      BY <1>3, <2>1
    <3>2. Len(SubSeq(j_file, o + 1, z)) = z - o
      BY <1>2, <2>1, Middle
    <3> QED
      BY <1>2, <3>1, <3>2
  <2>5. b = SubSeq(j_file, 2 * e + 1, z)
    <3> DEFINE m == 2 * e + 1
    <3>1. m \in 1 .. Len(j_file) + 1 /\ o \in m - 1 .. Len(j_file) /\ z \in o .. Len(j_file)
      BY <1>2, <2>1
    <3> HIDE DEF m
    <3>2. SubSeq(j_file, m, o) \o SubSeq(j_file, o + 1, z) = SubSeq(j_file, m, z)
      BY <1>2, <3>1, ConcatAdjacentSubSeq
    <3> QED
      BY <2>1, <2>4, <3>2 DEF m
  <2> HIDE DEF b
  <2>6. p = SubSeq(j_file, 2 * f + 1, z) /\ M = Log!InOrder(Wanting(e, f))
    <3>1. ReadInv
      BY DEF LogInv
    <3>2. Stretch(b, e, f, z)
      BY <1>2, <2>1, <2>2, <2>3, <2>5 DEF Stretch, FileAfter
    <3>3. RestOf(b) = FileAfter(f, z) /\ M = Log!InOrder(Wanting(e, f))
      BY <1>6, <3>1, <3>2, ReadsWhole
    <3> QED
      BY <3>3 DEF RestOf, FileAfter
  <2> HIDE DEF M, p
  <2>7. j_shown \o M = Log!LastOf(Log!InOrder(Wanting(0, s))) \o Log!InOrder(Wanting(s, f))
    <3> DEFINE first == Log!LastOf(Log!InOrder(Wanting(0, s)))
    <3>1. first \in Seq(Nat)
      BY <1>2, WantingInOrder, LastTyped
    <3>2. j_shown = first \o Log!InOrder(Wanting(s, e)) /\ M = Log!InOrder(Wanting(e, f))
      BY <2>1, <2>6
    <3>3. s \in Nat /\ e \in Nat /\ f \in Nat /\ s <= e /\ e <= f
      BY <1>2, <2>1, <2>2, <2>3
    <3> HIDE DEF first
    <3>4. (first \o Log!InOrder(Wanting(s, e))) \o Log!InOrder(Wanting(e, f))
             = first \o Log!InOrder(Wanting(s, f))
      BY <3>1, <3>3, WantingMore
    <3> QED
      BY <3>2, <3>4 DEF first
  <2>8. Wanting(0, j_follow.start)' = Wanting(0, s) /\ Wanting(j_follow.start, f)' = Wanting(s, f)
    BY <1>1, <1>4 DEF Wanting
  <2>9. ReadUpTo(f)'
    <3>1. s <= f
      BY <1>2, <2>1, <2>3
    <3>2. j_follow'.offset = z
      BY <1>4, <2>4
    <3> QED
      BY <1>1, <1>4, <2>1, <2>2, <2>6, <2>7, <2>8, <3>1, <3>2 DEF ReadUpTo
  <2> QED
    BY <2>2, <2>9
<1> QED
  BY <1>1, <1>4, <1>5, <1>6 DEF LogInv, WholeOK

(* Nothing has been reported, written or read at first. *)
LEMMA LogStart == Log!Init => LogInv
<1> SUFFICES ASSUME Log!Init PROVE LogInv
  OBVIOUS
<1>1. /\ j_lines = <<>> /\ j_file = <<>> /\ j_shown = <<>> /\ j_busy = "nobody"
      /\ j_follow = [pc |-> "off", offset |-> 0, size |-> 0, start |-> 0, pending |-> <<>>]
      /\ j_noted = [k \in Log!Kinds |-> 0] /\ j_lost = [k \in Log!Kinds |-> {}]
      /\ j_fresh = {} /\ j_held = [k \in Keys |-> {}]
      /\ j_emitting = [t \in Log!Writers |-> Log!NoLine] /\ j_flushing = {}
      /\ j_closing = "no" /\ j_truncations = 0
  BY DEF Log!Init
<1>2. /\ <<>> \in Seq(Nat) /\ <<>> \in Seq(AnyByte) /\ <<>> \in Seq(Log!Lines) /\ Len(<<>>) = 0
      /\ \A i \in 1 .. Len(<<>>) : FALSE
  BY EmptySeq
<1>3. Log!NoLine \in Log!Lines /\ Log!NoLine.of = {}
  BY DEF Log!NoLine, Log!Lines, Log!Kinds
<1>4. ReportTyped
  BY <1>1, <1>2, <1>3 DEF ReportTyped
<1>5. Numbered
  <2>1. \A t \in Log!Writers : j_emitting[t].of = {}
    BY <1>1, <1>3
  <2> QED
    BY <1>1, <1>2, <2>1 DEF Numbered
<1>6. HandsOK
  BY <1>1, NobodyIsNoWriter DEF HandsOK
<1>7. CountsOK
  BY <1>1 DEF CountsOK
<1>8. FileOK
  BY <1>1, <1>2 DEF FileOK, Sorted
<1>9. ReadOK
  <2>1. j_follow \in Follows /\ j_follow.pending = <<>>
    BY <1>1, <1>2 DEF Follows
  <2>2. InStep(<<>>, <<>>)
    BY <1>2 DEF InStep, Sorted, Increasing
  <2> QED
    BY <1>1, <1>2, <2>1, <2>2 DEF ReadOK
<1>10. WholeOK
  <2>1. WholeFile
    BY <1>1, <1>2 DEF WholeFile, Log!Complete
  <2>2. 0 \in 0 .. MaxTruncations
    BY JournalAssumption
  <2> QED
    BY <1>1, <2>1, <2>2 DEF WholeOK
<1> QED
  BY <1>4, <1>5, <1>6, <1>7, <1>8, <1>9, <1>10 DEF LogInv, ReportInv, ReadInv

(* Every step of the journal keeps its invariant. *)
LEMMA LogPreserved ==
    ASSUME LogInv, Log!Next \/ UNCHANGED logVars
    PROVE  LogInv'
<1> USE DEF LogInv
<1>1. ASSUME NEW t \in Threads, NEW k \in Keys, NEW n \in 1 .. MaxNotes,
             Log!NoteThrottled(t, k, n)
      PROVE  LogInv'
  <2>1. UNCHANGED <<j_busy, j_lines, j_file, j_truncations, j_shown, j_follow>>
    BY <1>1 DEF Log!NoteThrottled
  <2> QED
    BY <1>1, <2>1, LogNote, ReadStays, WholeStays
<1>2. ASSUME NEW t \in Threads, Log!Audit(t) PROVE LogInv'
  <2>1. UNCHANGED <<j_busy, j_lines, j_file, j_truncations, j_shown, j_follow>>
    BY <1>2 DEF Log!Audit
  <2> QED
    BY <1>2, <2>1, LogAudit, ReadStays, WholeStays
<1>3. CASE Log!FlushEvents
  <2>1. UNCHANGED <<j_busy, j_lines, j_file, j_truncations, j_shown, j_follow>>
    BY <1>3 DEF Log!FlushEvents
  <2> QED
    BY <1>3, <2>1, LogFlush, ReadStays, WholeStays
<1>4. ASSUME NEW l \in j_flushing, Log!FlushNext(l) PROVE LogInv'
  <2>1. UNCHANGED <<j_busy, j_lines, j_file, j_truncations, j_shown, j_follow>>
    BY <1>4 DEF Log!FlushNext
  <2> QED
    BY <1>4, <2>1, LogFlushNext, ReadStays, WholeStays
<1>5. CASE (\E k \in Keys : Log!WindowPasses(k)) \/ Log!Flushed \/ Log!CloseLog
           \/ UNCHANGED logVars
  <2>1. UNCHANGED <<j_busy, j_lines, j_file, j_truncations, j_shown, j_follow>>
    BY <1>5 DEF Log!WindowPasses, Log!Flushed, Log!CloseLog, logVars
  <2>2. UNCHANGED <<j_noted, j_held, j_emitting, j_flushing, j_busy, j_lines, j_lost>>
    BY <1>5 DEF Log!WindowPasses, Log!Flushed, Log!CloseLog, logVars
  <2>3. j_fresh' \subseteq Keys
    BY <1>5 DEF Log!WindowPasses, Log!Flushed, Log!CloseLog, logVars, ReportInv, ReportTyped
  <2>4. \/ j_closing' = j_closing
        \/ j_closing = "flushing" /\ j_closing' = "flushed"
        \/ j_closing = "flushed" /\ j_closing' = "closed"
    BY <1>5 DEF Log!WindowPasses, Log!Flushed, Log!CloseLog, logVars
  <2> QED
    BY <2>1, <2>2, <2>3, <2>4, LogReportStays, ReadStays, WholeStays
<1>6. ASSUME NEW t \in Log!Writers, Log!WriteLine(t) PROVE LogInv'
  BY <1>6, LogDropped, LogWritten, LogWriteText, WholeText
<1>7. ASSUME NEW t \in Log!Writers, Log!LineWritten(t) PROVE LogInv'
  BY <1>7, LogLineWritten, LogWriteNewline, WholeNewline
<1>8. ASSUME UNCHANGED Log!reporting PROVE ReportInv'
  <2>1. /\ UNCHANGED <<j_noted, j_held, j_emitting, j_flushing, j_busy, j_lines, j_lost>>
        /\ j_fresh' \subseteq Keys /\ j_closing' = j_closing
    BY <1>8 DEF Log!reporting, ReportInv, ReportTyped
  <2> QED
    BY <2>1, LogReportStays
<1>9. CASE Log!Truncate
  <2>1. UNCHANGED Log!reporting
    BY <1>9 DEF Log!Truncate
  <2> QED
    BY <1>8, <1>9, <2>1, LogTruncate, WholeTruncated
<1>10. CASE Log!Snapshot
  <2>1. UNCHANGED Log!reporting /\ j_shown = <<>> /\ Log!Complete \in Nat
    BY <1>10, CompleteIs DEF Log!Snapshot, WholeOK
  <2> QED
    BY <1>8, <1>10, <2>1, LogSnapshot, WholeSnapshot
<1>11. CASE Log!Poll \/ Log!ReadFails
  <2>1. UNCHANGED Log!reporting
    BY <1>11 DEF Log!Poll, Log!ReadFails
  <2> QED
    BY <1>8, <1>11, <2>1, LogPoll, WholePolled
<1>12. ASSUME NEW r \in BOOLEAN, Log!ReadRange(r) PROVE LogInv'
  <2>1. UNCHANGED Log!reporting
    BY <1>12 DEF Log!ReadRange
  <2> QED
    BY <1>8, <1>12, <2>1, LogRead, WholeRead
<1> QED
  BY <1>1, <1>2, <1>3, <1>4, <1>5, <1>6, <1>7, <1>9, <1>10, <1>11, <1>12 DEF Log!Next

(* A step of Parts is one of the journal, or leaves it alone. *)
LEMMA LogGoes ==
    ASSUME [Log!Next]_(Log!vars)
    PROVE  Log!Next \/ UNCHANGED logVars
  BY DEF Log!vars, Log!reporting, logVars

(* The wanted ones of a run of lines. *)
LEMMA MatchingRun ==
    ASSUME NEW a \in Nat, NEW b \in Nat, a <= b, NEW s,
           s = [i \in 1 .. b - a |-> i + a]
    PROVE  Log!Matching(s) = Log!InOrder(Wanting(a, b))
<1> DEFINE P == {i \in DOMAIN s : j_lines[s[i]].kind \in Wanted}
           S == {s[i] : i \in P}
<1>1. b - a \in Nat
  OBVIOUS
<1>2. s \in Seq(Nat) /\ Len(s) = b - a /\ DOMAIN s = 1 .. b - a
      /\ \A i \in 1 .. b - a : s[i] = i + a
  BY <1>1
<1>3. P \in SUBSET (1 .. Len(s)) /\ \A i, k \in P : i < k => s[i] < s[k]
  BY <1>2
<1>4. Log!Matching(s) = Log!Select(s, P)
  BY DEF Log!Matching
<1>5. S = Wanting(a, b)
  <2>1. ASSUME NEW n \in S PROVE n \in Wanting(a, b)
    <3>1. PICK i \in 1 .. b - a : n = i + a /\ j_lines[n].kind \in Wanted
      BY <1>2, <2>1
    <3>2. n \in a + 1 .. b
      BY <3>1
    <3> QED
      BY <3>1, <3>2 DEF Wanting
  <2>2. ASSUME NEW n \in Wanting(a, b) PROVE n \in S
    <3>1. n \in a + 1 .. b /\ j_lines[n].kind \in Wanted
      BY <2>2 DEF Wanting
    <3> DEFINE i == n - a
    <3>2. i \in 1 .. b - a /\ i + a = n
      BY <3>1
    <3> HIDE DEF i
    <3>3. s[i] = n
      BY <1>2, <3>2
    <3>4. i \in P
      BY <1>2, <3>1, <3>2, <3>3
    <3> QED
      BY <3>3, <3>4
  <2> QED
    BY <2>1, <2>2
<1> HIDE DEF P
<1>6. Log!Select(s, P) = Log!InOrder(S)
  BY <1>2, <1>3, Selected
<1> QED
  BY <1>4, <1>5, <1>6

(* The reader's invariant says what FollowIsFaithful promises. *)
LEMMA FollowingIsFaithful ==
    ASSUME LogInv
    PROVE  Log!FollowIsFaithful
<1>1. \A i, j \in DOMAIN j_shown : i < j => j_shown[i] < j_shown[j]
  BY DEF LogInv, ReadInv, ReadOK, InStep, Increasing
<1>2. ASSUME j_follow.pc = "wait", j_truncations = 0
      PROVE  LET end == Log!Cut(SubSeq(j_file, 1, j_follow.offset)) \div 2
             IN  j_shown = Log!LastOf(Log!Matching([i \in 1 .. j_follow.start |-> i]))
                              \o Log!Matching([i \in 1 .. end - j_follow.start |-> i + j_follow.start])
  <2> DEFINE s == j_follow.start
             o == j_follow.offset
             b == SubSeq(j_file, 1, o)
  <2>1. PICK e \in Nat : ReadUpTo(e)
    BY <1>2 DEF LogInv, WholeOK
  <2>2. WholeFile /\ ReadInv
    BY <1>2 DEF LogInv, WholeOK
  <2>3. s \in Nat /\ o \in Nat
    BY <2>2, FollowTyped
  <2>4. /\ 2 * e <= o /\ o <= 2 * e + 1 /\ o <= Len(j_file) /\ s <= e
        /\ j_shown = Log!LastOf(Log!InOrder(Wanting(0, s))) \o Log!InOrder(Wanting(s, e))
    BY <2>1 DEF ReadUpTo
  <2>5. b = SubSeq(j_file, 2 * 0 + 1, o)
    <3>1. 2 * 0 + 1 = 1
      OBVIOUS
    <3> QED
      BY <3>1
  <2>6. Stretch(b, 0, e, o)
    BY <2>3, <2>4, <2>5 DEF Stretch, FileAfter
  <2>7. Log!Cut(b) = 2 * (e - 0)
    BY <2>2, <2>6, ReadsWhole
  <2> HIDE DEF b
  <2>8. Log!Cut(b) \div 2 = e
    BY <2>7
  <2>9. Log!Matching([i \in 1 .. s |-> i]) = Log!InOrder(Wanting(0, s))
    <3> DEFINE u == [i \in 1 .. s |-> i]
    <3>1. s - 0 = s /\ \A i \in 1 .. s : i = i + 0
      BY <2>3
    <3>2. u = [i \in 1 .. s - 0 |-> i + 0]
      BY <3>1
    <3> HIDE DEF u
    <3>3. 0 \in Nat /\ 0 <= s
      BY <2>3
    <3>4. Log!Matching(u) = Log!InOrder(Wanting(0, s))
      BY <2>3, <3>2, <3>3, MatchingRun
    <3> QED
      BY <3>4 DEF u
  <2>10. Log!Matching([i \in 1 .. e - s |-> i + s]) = Log!InOrder(Wanting(s, e))
    <3> DEFINE u == [i \in 1 .. e - s |-> i + s]
    <3>1. u = [i \in 1 .. e - s |-> i + s]
      OBVIOUS
    <3> HIDE DEF u
    <3>2. Log!Matching(u) = Log!InOrder(Wanting(s, e))
      BY <2>3, <2>4, <3>1, MatchingRun
    <3> QED
      BY <3>2 DEF u
  <2> QED
    BY <2>4, <2>8, <2>9, <2>10 DEF b
<1> QED
  BY <1>1, <1>2 DEF Log!FollowIsFaithful

(* Throttled or not, every occurrence of an event is counted in exactly    *)
(* one place until the log closes, however reports, flush and close cross; *)
(* and follow shows lines in the order in which they were written, none    *)
(* twice, and while nobody truncates the file all that it should           *)
(* (noteThrottled, flushEvents, writeLine, followLog).                     *)
THEOREM JournalAlone == Log!Safety => []JournalIsFaithful
<1>1. LogInv => JournalIsFaithful
  <2> SUFFICES ASSUME LogInv PROVE Log!CountsAddUp /\ Log!FollowIsFaithful
    BY DEF JournalIsFaithful
  <2>1. Log!CountsAddUp
    BY DEF LogInv, ReportInv, CountsOK, HandsOK, Single, Log!CountsAddUp
  <2> QED
    BY <2>1, FollowingIsFaithful
<1>2. LogInv /\ [Log!Next]_(Log!vars) => LogInv'
  BY LogGoes, LogPreserved
<1> QED
  BY <1>1, <1>2, LogStart, PTL DEF Log!Safety

(* ... and so it is beside the other components. *)
THEOREM JournalAddsUp == PartsSpec => []JournalIsFaithful
  BY JournalAlone, PartsRun

-----------------------------------------------------------------------------
(* Types. *)

(* The change detector's state, and what it may become by an observation.  *)
Stamps(n)    == 0 .. n
Detectors(n) == [applied : Stamps(n), pending : Stamps(n), firing : Stamps(n)]
Polls(n)     == [pc : {"wait", "load", "reload"}, loaded : Stamps(n)]
Sigs(n)      == [pc : {"wait", "reload", "retry"}, loaded : Stamps(n), tries : 0 .. MaxRetries]

(* An observation leaves stamps of saves that were made, and so does a     *)
(* verdict (observe, settle).                                              *)
LEMMA DetectorsStay ==
    ASSUME NEW n \in Nat, NEW d \in Detectors(n), NEW s \in Stamps(n)
    PROVE  Config!Observe(d, s) \in Detectors(n) /\ Config!Settle(d) \in Detectors(n)
<1>1. /\ d.applied \in Stamps(n) /\ d.pending \in Stamps(n) /\ d.firing \in Stamps(n)
      /\ 0 \in Stamps(n)
  BY DEF Detectors, Stamps
<1>2. ASSUME NEW e \in Detectors(n), NEW a \in Stamps(n)
      PROVE  /\ [e EXCEPT !.applied = a] \in Detectors(n)
             /\ [e EXCEPT !.pending = a] \in Detectors(n)
             /\ [e EXCEPT !.firing = a] \in Detectors(n)
  BY <1>2 DEF Detectors
<1>3. /\ [[d EXCEPT !.pending = 0] EXCEPT !.firing = 0] \in Detectors(n)
      /\ [[d EXCEPT !.pending = 0] EXCEPT !.firing = s] \in Detectors(n)
      /\ [[d EXCEPT !.pending = s] EXCEPT !.firing = 0] \in Detectors(n)
      /\ [[d EXCEPT !.applied = d.firing] EXCEPT !.firing = 0] \in Detectors(n)
  BY <1>1, <1>2
<1>4. \/ Config!Observe(d, s) = d
      \/ Config!Observe(d, s) = [[d EXCEPT !.pending = 0] EXCEPT !.firing = 0]
      \/ Config!Observe(d, s) = [[d EXCEPT !.pending = 0] EXCEPT !.firing = s]
      \/ Config!Observe(d, s) = [[d EXCEPT !.pending = s] EXCEPT !.firing = 0]
  BY DEF Config!Observe
<1>5. \/ Config!Settle(d) = d
      \/ Config!Settle(d) = [[d EXCEPT !.applied = d.firing] EXCEPT !.firing = 0]
  BY DEF Config!Settle
<1> QED
  BY <1>3, <1>4, <1>5

(* A save more: what was a save still is. *)
LEMMA StampsGrow ==
    ASSUME NEW n \in Nat, NEW m \in Nat, n <= m
    PROVE  /\ Stamps(n) \subseteq Stamps(m) /\ Detectors(n) \subseteq Detectors(m)
           /\ Polls(n) \subseteq Polls(m) /\ Sigs(n) \subseteq Sigs(m) /\ 1 .. n \subseteq 1 .. m
<1>1. Stamps(n) \subseteq Stamps(m) /\ 1 .. n \subseteq 1 .. m
  BY DEF Stamps
<1> QED
  BY <1>1 DEF Detectors, Polls, Sigs

ConfigTyped ==
    /\ c_contents \in [Config!Saves -> Config!Kinds] /\ c_saves \in Config!Saves
    /\ c_present \in BOOLEAN
    /\ c_boot \in {"stat", "load", "serving", "failed"}
    /\ c_registry \in {"new", "running", "closing"}
    /\ c_inForce \in Stamps(c_saves) /\ c_judged \subseteq 1 .. c_saves
    /\ c_det \in Detectors(c_saves) /\ c_poll \in Polls(c_saves)
    /\ c_hup \in BOOLEAN /\ c_signals \in 0 .. MaxSignals
    /\ c_sig \in Sigs(c_saves)

(* These are ConfigReload's types. *)
LEMMA ConfigTypedIs == ConfigTyped => Config!TypeOK
  BY DEF ConfigTyped, Config!TypeOK, Stamps, Detectors, Polls, Sigs

(* They hold before the file is first looked at ... *)
LEMMA ConfigStart == Config!Init => ConfigTyped
<1> SUFFICES ASSUME Config!Init PROVE ConfigTyped
  OBVIOUS
<1>1. /\ [applied |-> 0, pending |-> 0, firing |-> 0] \in Detectors(1)
      /\ [pc |-> "wait", loaded |-> 0] \in Polls(1)
  BY DEF Stamps, Detectors, Polls
<1>2. [pc |-> "wait", loaded |-> 0, tries |-> 0] \in Sigs(1)
  BY ConfigAssumption DEF Stamps, Sigs
<1>3. 1 \in Config!Saves /\ 0 \in 0 .. MaxSignals /\ 0 \in Stamps(1)
  BY ConfigAssumption DEF Config!Saves, Stamps
<1>4. c_saves = 1 /\ c_det \in Detectors(1) /\ c_poll \in Polls(1) /\ c_sig \in Sigs(1)
  BY <1>1, <1>2 DEF Config!Init
<1> QED
  BY <1>3, <1>4, Zenon DEF Config!Init, ConfigTyped

(* ... and after every save, load, observation, signal and retry. *)
LEMMA ConfigPreserved ==
    ASSUME ConfigTyped, Config!Next \/ UNCHANGED configVars
    PROVE  ConfigTyped'
<1> USE DEF Config!fileVars
<1>1. /\ c_saves \in Nat /\ c_saves \in 1 .. c_saves /\ c_saves \in Stamps(c_saves) /\ 0 \in Stamps(c_saves)
      /\ Config!Stat \in Stamps(c_saves)
      /\ \A s \in Stamps(c_saves) : s = 0 \/ s \in 1 .. c_saves
  BY ConfigAssumption DEF ConfigTyped, Config!Saves, Config!Stat, Stamps
<1>2. CASE UNCHANGED configVars
  BY <1>2 DEF configVars, ConfigTyped
<1>3. CASE Config!Save
  <2>1. /\ c_saves' = c_saves + 1 /\ c_saves' \in Config!Saves /\ c_saves' \in Nat /\ c_saves <= c_saves'
    BY <1>1, <1>3, ConfigAssumption DEF Config!Save, Config!Saves
  <2>2. /\ Stamps(c_saves) \subseteq Stamps(c_saves') /\ Detectors(c_saves) \subseteq Detectors(c_saves')
        /\ Polls(c_saves) \subseteq Polls(c_saves') /\ Sigs(c_saves) \subseteq Sigs(c_saves')
        /\ 1 .. c_saves \subseteq 1 .. c_saves'
    BY <1>1, <2>1, StampsGrow
  <2> QED
    BY <1>3, <2>1, <2>2 DEF Config!Save, ConfigTyped
<1>4. CASE Config!MoveAway \/ Config!StartRegistry \/ Config!CloseRegistry
  BY <1>4 DEF Config!MoveAway, Config!StartRegistry, Config!CloseRegistry, ConfigTyped
<1>5. CASE Config!Hangup
  BY <1>5, ConfigAssumption DEF Config!Hangup, ConfigTyped
<1>6. CASE Config!StatBase
  <2>1. [c_det EXCEPT !.applied = Config!Stat] \in Detectors(c_saves)
    BY <1>1 DEF ConfigTyped, Detectors
  <2> QED
    BY <1>6, <2>1 DEF Config!StatBase, ConfigTyped
<1>7. CASE Config!FirstLoad
  BY <1>1, <1>7 DEF Config!FirstLoad, ConfigTyped
<1>8. ASSUME NEW s \in Stamps(c_saves), Config!Verdict(s) PROVE c_judged' \subseteq 1 .. c_saves
  BY <1>1, <1>8 DEF Config!Verdict, ConfigTyped
<1>9. /\ Config!Settle(c_det) \in Detectors(c_saves)
      /\ Config!Observe(c_det, Config!Stat) \in Detectors(c_saves)
  BY <1>1, DetectorsStay DEF ConfigTyped
<1>10. /\ c_poll.loaded \in Stamps(c_saves) /\ c_sig.loaded \in Stamps(c_saves)
       /\ c_sig.tries \in 0 .. MaxRetries
  BY DEF ConfigTyped, Polls, Sigs
<1>11. CASE Config!Tick
  <2>1. \A x \in {"wait", "load", "reload"} : [c_poll EXCEPT !.pc = x] \in Polls(c_saves)
    BY DEF ConfigTyped, Polls
  <2> QED
    BY <1>9, <1>11, <2>1 DEF Config!Tick, ConfigTyped
<1>12. /\ [pc |-> "wait", loaded |-> 0] \in Polls(c_saves)
       /\ [pc |-> "reload", loaded |-> c_saves] \in Polls(c_saves)
       /\ Config!SigIdle \in Sigs(c_saves)
       /\ [Config!SigIdle EXCEPT !.pc = "reload", !.loaded = c_saves] \in Sigs(c_saves)
  <2>1. 0 \in 0 .. MaxRetries
    BY ConfigAssumption
  <2>2. Config!SigIdle \in Sigs(c_saves)
    BY <1>1, <2>1 DEF Sigs, Config!SigIdle
  <2>3. [[Config!SigIdle EXCEPT !.pc = "reload"] EXCEPT !.loaded = c_saves] \in Sigs(c_saves)
    BY <1>1, <2>1 DEF Sigs, Config!SigIdle
  <2> QED
    BY <1>1, <2>2, <2>3 DEF Polls
<1>13. CASE Config!PollLoad
  <2>1. c_judged' \subseteq 1 .. c_saves
    BY <1>1, <1>8, <1>13 DEF Config!PollLoad, ConfigTyped
  <2>2. c_det' \in Detectors(c_saves) /\ c_poll' \in Polls(c_saves)
    BY <1>9, <1>12, <1>13 DEF Config!PollLoad, ConfigTyped
  <2> QED
    BY <1>13, <2>1, <2>2 DEF Config!PollLoad, ConfigTyped
<1>14. CASE Config!PollReload
  <2>1. c_judged' \subseteq 1 .. c_saves
    BY <1>8, <1>10, <1>14 DEF Config!PollReload, ConfigTyped
  <2>2. c_det' \in Detectors(c_saves) /\ c_poll' \in Polls(c_saves) /\ c_inForce' \in Stamps(c_saves)
    BY <1>9, <1>10, <1>12, <1>14 DEF Config!PollReload, ConfigTyped
  <2> QED
    BY <1>14, <2>1, <2>2 DEF Config!PollReload, ConfigTyped
<1>15. CASE Config!SigLoad
  <2>1. c_judged' \subseteq 1 .. c_saves
    BY <1>1, <1>8, <1>15 DEF Config!SigLoad, ConfigTyped
  <2>2. c_sig' \in Sigs(c_saves)
    BY <1>12, <1>15 DEF Config!SigLoad, ConfigTyped
  <2> QED
    BY <1>15, <2>1, <2>2 DEF Config!SigLoad, ConfigTyped
<1>16. CASE Config!SigReload
  <2>1. c_judged' \subseteq 1 .. c_saves /\ c_inForce' \in Stamps(c_saves)
    BY <1>8, <1>10, <1>16 DEF Config!SigReload, ConfigTyped
  <2>2. c_sig.tries # MaxRetries =>
            [c_sig EXCEPT !.pc = "retry", !.tries = @ + 1] \in Sigs(c_saves)
    <3> SUFFICES ASSUME c_sig.tries # MaxRetries
                 PROVE  [[c_sig EXCEPT !.pc = "retry"] EXCEPT !.tries = c_sig.tries + 1] \in Sigs(c_saves)
      BY DEF ConfigTyped, Sigs
    <3>1. c_sig.tries + 1 \in 0 .. MaxRetries
      BY <1>10, ConfigAssumption
    <3>2. c_sig \in Sigs(c_saves)
      BY DEF ConfigTyped
    <3> QED
      BY <3>1, <3>2 DEF Sigs
  <2>3. c_sig' \in Sigs(c_saves)
    BY <1>12, <1>16, <2>2 DEF Config!SigReload
  <2> QED
    BY <1>16, <2>1, <2>3 DEF Config!SigReload, ConfigTyped
<1> QED
  BY <1>2, <1>3, <1>4, <1>5, <1>6, <1>7, <1>11, <1>13, <1>14, <1>15, <1>16
     DEF Config!Next, Config!Booting, Config!Polling, Config!Signalled

(* A step of Parts is one of the reload, or leaves it alone. *)
LEMMA ConfigGoes ==
    ASSUME [Config!Next]_(Config!vars)
    PROVE  Config!Next \/ UNCHANGED configVars
  BY DEF Config!vars, Config!fileVars, configVars

(* What EditIsJudged rests on, short of fairness: while the gateway        *)
(* serves, the detector takes no save for applied that nobody has read, so *)
(* the next tick sees the difference, however the load at boot, a removal  *)
(* of the file, a load that fails and a reload before Start cross; and the *)
(* configuration in force is one that was read and parsed (statConfig,     *)
(* settle, applyReload).                                                   *)
NoEditForgotten ==
    c_boot = "serving" =>
        /\ c_inForce \in c_judged /\ c_contents[c_inForce] # "broken"
        /\ c_present /\ c_det.applied = c_saves => c_saves \in c_judged

(* What is loaded to be reloaded can be, and is no older than the stamp    *)
(* the detector fired for.                                                 *)
Sound(k) == k \in 1 .. c_saves /\ c_contents[k] = "good"
LoadsOK ==
    /\ c_poll.pc = "reload" => Sound(c_poll.loaded) /\ c_det.firing <= c_poll.loaded
    /\ c_sig.pc # "wait" => Sound(c_sig.loaded)

(* Nothing but the environment changes the file. *)
LEMMA FileStays ==
    ASSUME ConfigTyped, Config!Next \/ UNCHANGED configVars
    PROVE  /\ c_contents' = c_contents /\ c_saves \in Nat /\ c_saves <= c_saves'
           /\ c_saves' = c_saves \/ (c_saves' = c_saves + 1 /\ UNCHANGED <<c_boot, c_inForce, c_judged, c_det, c_poll, c_sig>>)
           /\ \A k : Sound(k) => Sound(k)'
<1>1. c_saves \in Nat
  BY ConfigAssumption DEF ConfigTyped, Config!Saves
<1>2. /\ c_contents' = c_contents
      /\ c_saves' = c_saves \/ (c_saves' = c_saves + 1 /\ UNCHANGED <<c_boot, c_inForce, c_judged, c_det, c_poll, c_sig>>)
  BY DEF Config!Next, Config!Booting, Config!Polling, Config!Signalled, Config!Save,
         Config!MoveAway, Config!Hangup, Config!StartRegistry, Config!CloseRegistry,
         Config!StatBase, Config!FirstLoad, Config!Tick, Config!PollLoad, Config!PollReload,
         Config!SigLoad, Config!SigReload, Config!fileVars, configVars
<1>3. c_saves <= c_saves'
  BY <1>1, <1>2
<1> QED
  BY <1>1, <1>2, <1>3 DEF Sound

(* What a stamp that the detector gives up or settles becomes. *)
LEMMA DetectorMoves ==
    ASSUME ConfigTyped
    PROVE  /\ c_det.applied \in 0 .. c_saves /\ c_det.firing \in 0 .. c_saves
           /\ Config!Observe(c_det, Config!Stat).applied = c_det.applied
           /\ Config!Settle(c_det).applied \in {c_det.applied, c_det.firing}
           /\ Config!Settle(c_det).applied = c_det.applied \/ c_det.firing # 0
<1>1. c_det \in [applied : 0 .. c_saves, pending : 0 .. c_saves, firing : 0 .. c_saves]
  BY DEF ConfigTyped, Detectors, Stamps
<1>2. \/ Config!Settle(c_det) = c_det
      \/ c_det.firing # 0 /\ Config!Settle(c_det) = [[c_det EXCEPT !.applied = c_det.firing] EXCEPT !.firing = 0]
  BY DEF Config!Settle
<1>3. Config!Settle(c_det).applied = c_det.applied
      \/ (c_det.firing # 0 /\ Config!Settle(c_det).applied = c_det.firing)
  BY <1>1, <1>2
<1>4. \/ Config!Observe(c_det, Config!Stat) = c_det
      \/ \E x, y : Config!Observe(c_det, Config!Stat) = [[c_det EXCEPT !.pending = x] EXCEPT !.firing = y]
  BY DEF Config!Observe
<1>5. Config!Observe(c_det, Config!Stat).applied = c_det.applied
  BY <1>1, <1>4
<1> QED
  BY <1>1, <1>3, <1>5

LEMMA LoadsStay ==
    ASSUME ConfigTyped, LoadsOK, Config!Next \/ UNCHANGED configVars
    PROVE  LoadsOK'
<1>1. /\ c_saves \in Nat /\ c_det.firing \in 0 .. c_saves
      /\ \A k : Sound(k) => Sound(k)'
  BY FileStays, DetectorMoves
<1>2. Config!Applicable => Sound(c_saves)
  BY <1>1, ConfigAssumption DEF ConfigTyped, Config!Saves, Config!Applicable, Config!Readable, Sound
<1>3. CASE Config!Save \/ Config!MoveAway \/ Config!Hangup \/ Config!StartRegistry
           \/ Config!CloseRegistry \/ Config!FirstLoad \/ UNCHANGED configVars
  <2>1. UNCHANGED <<c_det, c_poll, c_sig>>
    BY <1>3 DEF Config!Save, Config!MoveAway, Config!Hangup, Config!StartRegistry,
                Config!CloseRegistry, Config!FirstLoad, configVars
  <2> QED
    BY <1>1, <2>1 DEF LoadsOK
<1>4. CASE Config!StatBase
  <2>1. c_det'.firing = c_det.firing /\ UNCHANGED <<c_poll, c_sig>>
    BY <1>4 DEF Config!StatBase, ConfigTyped, Detectors
  <2> QED
    BY <1>1, <2>1 DEF LoadsOK
<1>5. CASE Config!Tick
  <2>1. c_poll'.pc # "reload" /\ UNCHANGED c_sig
    BY <1>5 DEF Config!Tick, ConfigTyped, Polls
  <2> QED
    BY <1>1, <2>1 DEF LoadsOK
<1>6. CASE Config!PollLoad
  <2>1. CASE Config!Applicable
    <3>1. /\ c_poll' = [pc |-> "reload", loaded |-> c_saves]
          /\ UNCHANGED <<c_det, c_sig, c_saves, c_contents>>
      BY <1>6, <2>1 DEF Config!PollLoad, Config!fileVars
    <3>2. c_poll'.loaded = c_saves
      BY <3>1
    <3>3. Sound(c_saves) /\ c_det.firing <= c_saves
      BY <1>1, <1>2, <2>1
    <3>4. Sound(c_poll.loaded)' /\ c_det'.firing <= c_poll'.loaded
      BY <3>1, <3>2, <3>3 DEF Sound
    <3>5. c_sig'.pc # "wait" => Sound(c_sig.loaded)'
      BY <3>1 DEF LoadsOK, Sound
    <3> QED
      BY <3>4, <3>5 DEF LoadsOK
  <2>2. CASE ~Config!Applicable
    <3>1. c_poll'.pc = "wait" /\ UNCHANGED c_sig
      BY <1>6, <2>2 DEF Config!PollLoad
    <3> QED
      BY <1>1, <3>1 DEF LoadsOK
  <2> QED
    BY <2>1, <2>2
<1>7. CASE Config!PollReload
  <2>1. c_poll'.pc = "wait" /\ UNCHANGED c_sig
    BY <1>7 DEF Config!PollReload
  <2> QED
    BY <1>1, <2>1 DEF LoadsOK
<1>8. CASE Config!SigLoad
  <2>1. UNCHANGED <<c_det, c_poll, c_saves, c_contents>>
    BY <1>8 DEF Config!SigLoad, Config!fileVars
  <2>2. c_sig' = c_sig \/ (Config!Applicable /\ c_sig'.loaded = c_saves)
    BY <1>8 DEF Config!SigLoad, Config!SigIdle
  <2> QED
    BY <1>2, <2>1, <2>2 DEF LoadsOK, Sound
<1>9. CASE Config!SigReload
  <2>1. UNCHANGED <<c_det, c_poll>> /\ c_sig.pc # "wait"
    BY <1>9 DEF Config!SigReload
  <2>2. c_sig'.pc = "wait" \/ c_sig'.loaded = c_sig.loaded
    <3>1. \/ c_sig' = Config!SigIdle
          \/ c_sig' = [[c_sig EXCEPT !.pc = "retry"] EXCEPT !.tries = c_sig.tries + 1]
      BY <1>9 DEF Config!SigReload, ConfigTyped, Sigs
    <3>2. Config!SigIdle.pc = "wait"
      BY DEF Config!SigIdle
    <3>3. [[c_sig EXCEPT !.pc = "retry"] EXCEPT !.tries = c_sig.tries + 1].loaded = c_sig.loaded
      <4>1. c_sig \in [pc : {"wait", "reload", "retry"}, loaded : Stamps(c_saves), tries : 0 .. MaxRetries]
        BY DEF ConfigTyped, Sigs
      <4> QED
        BY <4>1
    <3> QED
      BY <3>1, <3>2, <3>3
  <2> QED
    BY <1>1, <2>1, <2>2 DEF LoadsOK
<1> QED
  BY <1>3, <1>4, <1>5, <1>6, <1>7, <1>8, <1>9
     DEF Config!Next, Config!Booting, Config!Polling, Config!Signalled

LEMMA NoneForgotten ==
    ASSUME ConfigTyped, LoadsOK, NoEditForgotten, Config!Next \/ UNCHANGED configVars
    PROVE  NoEditForgotten'
<1>1. /\ c_saves \in Nat /\ c_saves >= 1 /\ c_contents' = c_contents
      /\ c_det.applied \in 0 .. c_saves /\ c_det.firing \in 0 .. c_saves
  BY FileStays, DetectorMoves, ConfigAssumption DEF ConfigTyped, Config!Saves
<1>2. CASE Config!Save
  <2>1. c_saves' = c_saves + 1 /\ UNCHANGED <<c_boot, c_inForce, c_judged, c_det>>
    BY <1>2 DEF Config!Save
  <2> QED
    BY <1>1, <2>1 DEF NoEditForgotten
<1>3. CASE Config!MoveAway \/ Config!Hangup \/ Config!StartRegistry \/ Config!CloseRegistry
           \/ UNCHANGED configVars
  <2>1. /\ UNCHANGED <<c_saves, c_boot, c_inForce, c_judged, c_det>>
        /\ c_present' => c_present
    BY <1>3 DEF Config!MoveAway, Config!Hangup, Config!StartRegistry, Config!CloseRegistry,
                Config!fileVars, configVars
  <2> QED
    BY <1>1, <2>1 DEF NoEditForgotten
<1>4. CASE Config!StatBase
  BY <1>4 DEF Config!StatBase, NoEditForgotten
<1>5. CASE Config!FirstLoad
  BY <1>1, <1>5 DEF Config!FirstLoad, Config!Readable, Config!fileVars, NoEditForgotten
<1>6. CASE Config!Tick
  <2>1. /\ c_det'.applied = c_det.applied
        /\ UNCHANGED <<c_saves, c_present, c_boot, c_inForce, c_judged>>
    BY <1>6, DetectorMoves DEF Config!Tick, Config!fileVars
  <2> QED
    BY <1>1, <2>1 DEF NoEditForgotten
<1>7. CASE Config!PollLoad
  <2>1. UNCHANGED <<c_saves, c_present, c_boot, c_inForce>>
    BY <1>7 DEF Config!PollLoad, Config!fileVars
  <2>2. CASE Config!Applicable
    <3>1. UNCHANGED <<c_det, c_judged>>
      BY <1>7, <2>2 DEF Config!PollLoad
    <3> QED
      BY <1>1, <2>1, <3>1 DEF NoEditForgotten
  <2>3. CASE ~Config!Applicable
    <3>1. c_judged \subseteq c_judged' /\ (c_present => c_saves \in c_judged')
      BY <1>1, <1>7, <2>3 DEF Config!PollLoad, Config!Verdict, Config!Stat
    <3> QED
      BY <1>1, <2>1, <3>1 DEF NoEditForgotten
  <2> QED
    BY <2>2, <2>3
<1>8. CASE Config!PollReload
  <2>1. /\ UNCHANGED <<c_saves, c_present, c_boot>>
        /\ c_poll.pc = "reload" /\ c_inForce' \in {c_inForce, c_poll.loaded}
    BY <1>8 DEF Config!PollReload, Config!fileVars
  <2>2. c_poll.loaded \in 1 .. c_saves /\ c_contents[c_poll.loaded] = "good" /\ c_det.firing <= c_poll.loaded
    BY <2>1 DEF LoadsOK, Sound
  <2>3. CASE c_registry = "new"
    <3>1. UNCHANGED <<c_det, c_judged, c_inForce>>
      BY <1>8, <2>3 DEF Config!PollReload
    <3> QED
      BY <1>1, <2>1, <3>1 DEF NoEditForgotten
  <2>4. CASE c_registry # "new"
    <3>1. c_judged' = c_judged \cup {c_poll.loaded} /\ c_det' = Config!Settle(c_det)
      BY <1>8, <2>2, <2>4 DEF Config!PollReload, Config!Verdict
    <3>2. c_det'.applied \in {c_det.applied, c_det.firing}
      BY <3>1, DetectorMoves
    <3>3. c_det.firing = c_saves => c_poll.loaded = c_saves
      BY <1>1, <2>2
    <3> QED
      BY <1>1, <2>1, <2>2, <3>1, <3>2, <3>3 DEF NoEditForgotten
  <2> QED
    BY <2>3, <2>4
<1>9. CASE Config!SigLoad
  <2>1. /\ UNCHANGED <<c_saves, c_present, c_boot, c_inForce, c_det>>
        /\ c_judged \subseteq c_judged'
    BY <1>9 DEF Config!SigLoad, Config!Verdict, Config!fileVars
  <2> QED
    BY <1>1, <2>1 DEF NoEditForgotten
<1>10. CASE Config!SigReload
  <2>1. /\ UNCHANGED <<c_saves, c_present, c_boot, c_det>> /\ c_sig.pc # "wait"
    BY <1>10 DEF Config!SigReload, Config!fileVars
  <2>2. c_sig.loaded \in 1 .. c_saves /\ c_contents[c_sig.loaded] = "good"
    BY <2>1 DEF LoadsOK, Sound
  <2>3. \/ UNCHANGED <<c_judged, c_inForce>>
        \/ c_judged' = c_judged \cup {c_sig.loaded} /\ c_inForce' \in {c_inForce, c_sig.loaded}
    BY <1>1, <1>10, <2>2 DEF Config!SigReload, Config!Verdict
  <2> QED
    BY <1>1, <2>1, <2>2, <2>3 DEF NoEditForgotten
<1> QED
  BY <1>2, <1>3, <1>4, <1>5, <1>6, <1>7, <1>8, <1>9, <1>10
     DEF Config!Next, Config!Booting, Config!Polling, Config!Signalled

(* No edit is lost to the load at boot, to a half-written file or to an    *)
(* attempt that came before Start: the poll still has it before it.        *)
THEOREM EditsAreRemembered == Config!Safety => []NoEditForgotten
<1>1. Config!Init => LoadsOK /\ NoEditForgotten
  BY DEF Config!Init, LoadsOK, NoEditForgotten
<1>2. ConfigTyped /\ LoadsOK /\ NoEditForgotten /\ [Config!Next]_(Config!vars)
         => (ConfigTyped /\ LoadsOK /\ NoEditForgotten)'
  BY ConfigGoes, ConfigPreserved, LoadsStay, NoneForgotten
<1> QED
  BY <1>1, <1>2, ConfigStart, PTL DEF Config!Safety

-----------------------------------------------------------------------------
(* The stdio transport: what HandshakeFirst's invariant leaves open.       *)
ClientTyped == s_hungUp \in BOOLEAN /\ s_stalled \in BOOLEAN /\ s_ctx \in {"live", "cancelled"}
FlagsTyped ==
    /\ s_initialized \in BOOLEAN /\ s_pendingListChanged \in BOOLEAN /\ s_started \in BOOLEAN
    /\ s_signal \in BOOLEAN /\ s_clientCaps \in BOOLEAN /\ s_declared \in BOOLEAN
    /\ s_greeted \in BOOLEAN /\ s_early \in BOOLEAN /\ s_untold \in BOOLEAN
Outs == {Stdio!Nothing, <<"change">>, <<"note">>, <<"failure">>}
            \cup ({"reply"} \X Stdio!Frames) \cup ({"ask"} \X Stdio!Questions)
LoopTyped == s_loop \in {"select", "start", "write", "ended"} /\ s_out \in Outs
Pushed == {"change", "note", "ask"}
Answers == {"no", "queued", "shown", "refused", "answered"}
QueuesTyped ==
    /\ s_notifs \in 0 .. NotifBuf /\ s_asking \in Seq(Stdio!Questions)
    /\ s_asked \in [Stdio!Questions -> Answers]
    /\ s_pushes \in [Pushed -> 0 .. MaxPushes]
CallsTyped == \A i \in s_running : s_sent[i].kind = "call"
StdioTyped == ClientTyped /\ FlagsTyped /\ LoopTyped /\ QueuesTyped /\ CallsTyped

(* Together these are StdioServe's types. *)
LEMMA StdioTypedIs == StdioInv /\ StdioTyped => Stdio!TypeOK
<1> SUFFICES ASSUME StdioInv, StdioTyped PROVE Stdio!TypeOK
  OBVIOUS
<1>1. s_replies \in [Stdio!Frames -> 0 .. 2]
  BY DEF StdioInv, FramesTyped, RepliesOK
<1>2. s_running \subseteq {i \in 1 .. s_read : s_sent[i].kind = "call"}
  BY DEF StdioInv, FramesTyped, StdioTyped, CallsTyped
<1>3. s_sent \in Seq(ClientFrames) /\ Len(s_sent) <= MaxFrames /\ s_read \in 0 .. Len(s_sent)
  BY DEF StdioInv, FramesTyped
<1> QED
  BY <1>1, <1>2, <1>3, Zenon
     DEF StdioTyped, ClientTyped, FlagsTyped, LoopTyped, Outs, QueuesTyped, Pushed, Answers, Stdio!TypeOK

(* They hold before the first frame ... *)
LEMMA StdioTypedStart == Stdio!Init => StdioTyped
<1> SUFFICES ASSUME Stdio!Init PROVE StdioTyped
  OBVIOUS
<1>1. QueuesTyped
  BY EmptySeq, StdioAssumption DEF Stdio!Init, QueuesTyped, Pushed, Answers
<1>2. ClientTyped /\ LoopTyped /\ CallsTyped
  BY DEF Stdio!Init, ClientTyped, LoopTyped, CallsTyped, Outs
<1>3. FlagsTyped
  BY DEF Stdio!Init, FlagsTyped
<1> QED
  BY <1>1, <1>2, <1>3 DEF StdioTyped

(* One more push. *)
LEMMA Counted ==
    ASSUME QueuesTyped, NEW k \in Pushed, Stdio!Count(k)
    PROVE  /\ s_pushes' \in [Pushed -> 0 .. MaxPushes]
           /\ s_pushes[k] + 1 \in Stdio!Questions
<1>1. s_pushes[k] \in 0 .. MaxPushes /\ s_pushes[k] < MaxPushes
  BY DEF Stdio!Count, QueuesTyped
<1>2. s_pushes[k] + 1 \in 0 .. MaxPushes /\ s_pushes[k] + 1 \in Stdio!Questions
  BY <1>1, StdioAssumption DEF Stdio!Questions
<1> QED
  BY <1>2 DEF Stdio!Count, QueuesTyped

(* What a received message makes of the client's flags. *)
LEMMA ReceivedTyped ==
    ASSUME NEW m, Stdio!Received(m)
    PROVE  s_greeted' \in BOOLEAN /\ s_early' \in BOOLEAN /\ s_untold' \in BOOLEAN
  BY Zenon DEF Stdio!Received

(* The frame that is taken. *)
LEMMA HandledTyped ==
    ASSUME StdioInv, StdioTyped, NEW i \in 1 .. Len(s_sent), Stdio!Handle(i),
           s_started' \in BOOLEAN, s_declared' \in BOOLEAN
    PROVE  StdioTyped'
<1>1. s_sent[i] \in ClientFrames /\ s_sent[i].able \in BOOLEAN /\ i \in Stdio!Frames
  BY StdioAssumption DEF StdioInv, FramesTyped, Stdio!Frames
<1>2. ClientTyped'
  BY DEF Stdio!Handle, Stdio!client, StdioTyped, ClientTyped
<1>3. s_clientCaps' \in BOOLEAN
  BY <1>1 DEF Stdio!Handle, StdioTyped, FlagsTyped
<1>4. FlagsTyped'
  BY <1>3, Zenon DEF Stdio!Handle, Stdio!seen, StdioTyped, FlagsTyped
<1>5. LoopTyped'
  <2>1. <<"reply", i>> \in Outs /\ Stdio!Nothing \in Outs
    BY <1>1 DEF Outs
  <2> QED
    BY <2>1 DEF Stdio!Handle, Stdio!Write, Stdio!Select, LoopTyped
<1>6. QueuesTyped'
  <2>1. s_asked' \in [Stdio!Questions -> Answers]
    BY DEF Stdio!Handle, StdioTyped, QueuesTyped, Answers
  <2> QED
    BY <2>1 DEF Stdio!Handle, StdioTyped, QueuesTyped
<1>7. CallsTyped'
  BY DEF Stdio!Handle, Stdio!client, StdioTyped, CallsTyped
<1> QED
  BY <1>2, <1>4, <1>5, <1>6, <1>7 DEF StdioTyped

(* ... and after every step of the client, the registry and the loop. *)
LEMMA StdioTypedPreserved ==
    ASSUME StdioInv, StdioTyped, Stdio!Next \/ UNCHANGED stdioVars
    PROVE  StdioTyped'
<1> USE DEF Stdio!client, Stdio!gates, Stdio!registry, Stdio!seen
<1>1. ClientTyped /\ FlagsTyped /\ LoopTyped /\ QueuesTyped /\ CallsTyped
  BY DEF StdioTyped
<1>2. CASE UNCHANGED stdioVars
  BY <1>1, <1>2 DEF stdioVars, StdioTyped, ClientTyped, FlagsTyped, LoopTyped, QueuesTyped, CallsTyped
<1>3. ASSUME NEW f \in ClientFrames, Stdio!Send(f) PROVE StdioTyped'
  <2>1. CallsTyped'
    <3>1. \A i \in s_running : s_sent'[i] = s_sent[i]
      BY <1>3, Queueing DEF Stdio!Send, StdioInv, FramesTyped
    <3> QED
      BY <1>1, <1>3, <3>1 DEF Stdio!Send, CallsTyped
  <2>2. ClientTyped' /\ FlagsTyped' /\ LoopTyped' /\ QueuesTyped'
    BY <1>1, <1>3 DEF Stdio!Send, ClientTyped, FlagsTyped, LoopTyped, QueuesTyped
  <2> QED
    BY <2>1, <2>2 DEF StdioTyped
<1>4. CASE Stdio!HangUp \/ Stdio!Stall \/ Stdio!Terminate
  <2>1. ClientTyped'
    BY <1>1, <1>4 DEF Stdio!HangUp, Stdio!Stall, Stdio!Terminate, ClientTyped
  <2>2. FlagsTyped' /\ LoopTyped' /\ QueuesTyped' /\ CallsTyped'
    BY <1>1, <1>4 DEF Stdio!HangUp, Stdio!Stall, Stdio!Terminate, FlagsTyped, LoopTyped, QueuesTyped, CallsTyped
  <2> QED
    BY <2>1, <2>2 DEF StdioTyped
<1>5. CASE Stdio!ChangeCatalog
  <2>1. s_pushes' \in [Pushed -> 0 .. MaxPushes]
    BY <1>1, <1>5, Counted DEF Stdio!ChangeCatalog, Pushed
  <2>2. FlagsTyped'
    BY <1>1, <1>5 DEF Stdio!ChangeCatalog, FlagsTyped
  <2>3. ClientTyped' /\ LoopTyped' /\ QueuesTyped' /\ CallsTyped'
    BY <1>1, <1>5, <2>1 DEF Stdio!ChangeCatalog, ClientTyped, LoopTyped, QueuesTyped, CallsTyped
  <2> QED
    BY <2>2, <2>3 DEF StdioTyped
<1>6. CASE Stdio!Forward
  <2>1. s_pushes' \in [Pushed -> 0 .. MaxPushes]
    BY <1>1, <1>6, Counted DEF Stdio!Forward, Pushed
  <2>2. s_notifs' \in 0 .. NotifBuf
    BY <1>1, <1>6, StdioAssumption DEF Stdio!Forward, QueuesTyped
  <2>3. ClientTyped' /\ FlagsTyped' /\ LoopTyped' /\ QueuesTyped' /\ CallsTyped'
    BY <1>1, <1>6, <2>1, <2>2 DEF Stdio!Forward, ClientTyped, FlagsTyped, LoopTyped, QueuesTyped, CallsTyped
  <2> QED
    BY <2>3 DEF StdioTyped
<1>7. CASE Stdio!Ask
  <2>1. s_pushes' \in [Pushed -> 0 .. MaxPushes] /\ s_pushes["ask"] + 1 \in Stdio!Questions
    BY <1>1, <1>7, Counted DEF Stdio!Ask, Pushed
  <2>2. s_asked' \in [Stdio!Questions -> Answers]
    BY <1>1, <1>7, <2>1 DEF Stdio!Ask, QueuesTyped, Answers
  <2>3. s_asking' \in Seq(Stdio!Questions)
    <3>1. Append(s_asking, s_pushes["ask"] + 1) \in Seq(Stdio!Questions)
      BY <1>1, <2>1, AppendProperties DEF QueuesTyped
    <3>2. s_asking' = s_asking \/ s_asking' = Append(s_asking, s_pushes["ask"] + 1)
      BY <1>7 DEF Stdio!Ask
    <3> QED
      BY <1>1, <3>1, <3>2 DEF QueuesTyped
  <2>4. ClientTyped' /\ FlagsTyped' /\ LoopTyped' /\ QueuesTyped' /\ CallsTyped'
    BY <1>1, <1>7, <2>1, <2>2, <2>3 DEF Stdio!Ask, ClientTyped, FlagsTyped, LoopTyped, QueuesTyped, CallsTyped
  <2> QED
    BY <2>4 DEF StdioTyped
<1>8. {Stdio!Nothing, <<"change">>, <<"note">>, <<"failure">>} \subseteq Outs
  BY DEF Outs
<1>9. CASE Stdio!CtxDone \/ Stdio!Disconnected \/ Stdio!Bail
  <2>1. LoopTyped' /\ UNCHANGED <<s_sent, s_hungUp, s_stalled, s_ctx, s_running>>
    BY <1>8, <1>9 DEF Stdio!CtxDone, Stdio!Disconnected, Stdio!Bail, Stdio!End, LoopTyped
  <2>2. FlagsTyped' /\ QueuesTyped'
    BY <1>1, <1>9 DEF Stdio!CtxDone, Stdio!Disconnected, Stdio!Bail, FlagsTyped, QueuesTyped
  <2> QED
    BY <1>1, <2>1, <2>2 DEF StdioTyped, ClientTyped, CallsTyped
<1>10. CASE Stdio!CatalogChanged
  <2>1. LoopTyped'
    BY <1>1, <1>8, <1>10 DEF Stdio!CatalogChanged, Stdio!Write, LoopTyped
  <2>2. FlagsTyped'
    BY <1>1, <1>10 DEF Stdio!CatalogChanged, FlagsTyped
  <2>3. ClientTyped' /\ QueuesTyped' /\ CallsTyped'
    BY <1>1, <1>10 DEF Stdio!CatalogChanged, ClientTyped, QueuesTyped, CallsTyped
  <2> QED
    BY <2>1, <2>2, <2>3 DEF StdioTyped
<1>11. CASE Stdio!Notification
  <2>1. LoopTyped'
    BY <1>1, <1>8, <1>11 DEF Stdio!Notification, Stdio!Write, LoopTyped
  <2>2. s_notifs' \in 0 .. NotifBuf
    BY <1>1, <1>11, StdioAssumption DEF Stdio!Notification, QueuesTyped
  <2>3. ClientTyped' /\ FlagsTyped' /\ QueuesTyped' /\ CallsTyped'
    BY <1>1, <1>11, <2>2 DEF Stdio!Notification, ClientTyped, FlagsTyped, QueuesTyped, CallsTyped
  <2> QED
    BY <2>1, <2>3 DEF StdioTyped
<1>12. CASE Stdio!ServerReq
  <2>1. Head(s_asking) \in Stdio!Questions /\ Tail(s_asking) \in Seq(Stdio!Questions)
    BY <1>1, <1>12, HeadTailProperties DEF Stdio!ServerReq, QueuesTyped
  <2>2. LoopTyped'
    <3>1. <<"ask", Head(s_asking)>> \in Outs
      BY <2>1 DEF Outs
    <3> QED
      BY <1>1, <1>12, <3>1 DEF Stdio!ServerReq, Stdio!Write, LoopTyped
  <2>3. s_asked' \in [Stdio!Questions -> Answers]
    BY <1>1, <1>12, <2>1 DEF Stdio!ServerReq, QueuesTyped, Answers
  <2>4. ClientTyped' /\ FlagsTyped' /\ QueuesTyped' /\ CallsTyped'
    BY <1>1, <1>12, <2>1, <2>3 DEF Stdio!ServerReq, ClientTyped, FlagsTyped, QueuesTyped, CallsTyped
  <2> QED
    BY <2>2, <2>4 DEF StdioTyped
<1>13. s_read < Len(s_sent) => s_read + 1 \in 1 .. Len(s_sent)
  BY DEF StdioInv, FramesTyped
<1>14. CASE Stdio!Frame
  BY <1>1, <1>13, <1>14, HandledTyped DEF Stdio!Frame, FlagsTyped
<1>15. CASE Stdio!BeginStart
  <2>1. s_sent[s_read + 1] \in ClientFrames /\ s_sent[s_read + 1].able \in BOOLEAN
    BY <1>13, <1>15, StdioAssumption DEF Stdio!BeginStart, StdioInv, FramesTyped
  <2>2. ClientTyped' /\ FlagsTyped' /\ LoopTyped' /\ QueuesTyped' /\ CallsTyped'
    BY <1>1, <1>15, <2>1 DEF Stdio!BeginStart, ClientTyped, FlagsTyped, LoopTyped, QueuesTyped, CallsTyped
  <2> QED
    BY <2>2 DEF StdioTyped
<1>16. CASE Stdio!Started
  BY <1>1, <1>13, <1>16, HandledTyped DEF Stdio!Started, FlagsTyped, StdioInv, StartOK
<1>17. CASE Stdio!StartFails
  <2>1. LoopTyped'
    BY <1>8, <1>17 DEF Stdio!StartFails, Stdio!Write, LoopTyped
  <2>2. ClientTyped' /\ FlagsTyped' /\ QueuesTyped' /\ CallsTyped'
    BY <1>1, <1>17 DEF Stdio!StartFails, ClientTyped, FlagsTyped, QueuesTyped, CallsTyped
  <2> QED
    BY <2>1, <2>2 DEF StdioTyped
<1>18. CASE Stdio!Written
  <2>1. s_greeted' \in BOOLEAN /\ s_early' \in BOOLEAN /\ s_untold' \in BOOLEAN
    BY <1>18, ReceivedTyped DEF Stdio!Written
  <2>2. s_initialized' \in BOOLEAN /\ s_pendingListChanged' \in BOOLEAN
    BY <1>18, Zenon DEF Stdio!Written
  <2>3. FlagsTyped'
    BY <1>1, <1>18, <2>1, <2>2, Zenon DEF Stdio!Written, FlagsTyped
  <2>4. LoopTyped'
    BY <1>8, <1>18 DEF Stdio!Written, Stdio!Write, Stdio!Select, Stdio!End, LoopTyped
  <2>5. s_asked' \in [Stdio!Questions -> Answers]
    BY <1>1, <1>18 DEF Stdio!Written, QueuesTyped, Answers
  <2>6. ClientTyped' /\ QueuesTyped' /\ CallsTyped'
    BY <1>1, <1>18, <2>5 DEF Stdio!Written, ClientTyped, QueuesTyped, CallsTyped
  <2> QED
    BY <2>3, <2>4, <2>6 DEF StdioTyped
<1>19. ASSUME NEW i \in Stdio!Frames, Stdio!CallReplies(i) PROVE StdioTyped'
  <2>1. s_greeted' \in BOOLEAN /\ s_early' \in BOOLEAN /\ s_untold' \in BOOLEAN
    BY <1>19, ReceivedTyped DEF Stdio!CallReplies
  <2>2. FlagsTyped'
    BY <1>1, <1>19, <2>1, Zenon DEF Stdio!CallReplies, FlagsTyped
  <2>3. ClientTyped' /\ LoopTyped' /\ QueuesTyped' /\ CallsTyped'
    BY <1>1, <1>19 DEF Stdio!CallReplies, ClientTyped, LoopTyped, QueuesTyped, CallsTyped
  <2> QED
    BY <2>2, <2>3 DEF StdioTyped
<1> QED
  BY <1>2, <1>3, <1>4, <1>5, <1>6, <1>7, <1>9, <1>10, <1>11, <1>12, <1>14, <1>15, <1>16,
     <1>17, <1>18, <1>19 DEF Stdio!Next, Stdio!Loop

-----------------------------------------------------------------------------
(* What Serves rests on, short of fairness: nothing is owed to a client    *)
(* that nobody has at hand.                                                *)

Writing(m) == s_loop = "write" /\ s_out = m
Waits(q)   == \E k \in 1 .. Len(s_asking) : s_asking[k] = q

(* Every request that was read has its reply, or a goroutine at work, or   *)
(* is being replied to.                                                    *)
RequestsKept ==
    \A i \in 1 .. s_read : Stdio!IsRequest(s_sent[i]) =>
        \/ s_replies[i] = 1 \/ i \in s_running
        \/ Writing(<<"reply", i>>) \/ (Writing(<<"failure">>) /\ i = s_read)

(* Every question counted as queued is in the channel or being written. *)
QuestionsKept ==
    \A q \in Stdio!Questions : s_asked[q] = "queued" => Waits(q) \/ Writing(<<"ask", q>>)

(* A change that the client was not told of since is signalled, kept for   *)
(* its handshake, or being written; and a client that has its handshake's  *)
(* reply has the gate open.                                                *)
ChangesKept ==
    /\ s_untold => \/ s_signal \/ (s_pendingListChanged /\ ~s_initialized)
                   \/ Writing(<<"change">>)
    /\ s_greeted => s_initialized

(* While it serves, no request, question or change is forgotten, whatever  *)
(* the handshake, pushes, inline replies, calls and a failing Start        *)
(* interleave (Serve, handleFrame, writeOrBail).                           *)
NothingForgotten == s_loop # "ended" => RequestsKept /\ QuestionsKept /\ ChangesKept

(* The frame that is next, handled: a call runs, other requests get their  *)
(* reply now.                                                              *)
LEMMA HandledKeeps ==
    ASSUME StdioInv, StdioTyped, RequestsKept, QuestionsKept, ChangesKept,
           s_loop \in {"select", "start"}, s_read < Len(s_sent), Stdio!Handle(s_read + 1)
    PROVE  RequestsKept' /\ QuestionsKept' /\ ChangesKept'
<1> DEFINE i == s_read + 1
<1>1. /\ s_read' = i /\ UNCHANGED <<s_sent, s_replies, s_initialized, s_pendingListChanged,
                                   s_signal, s_untold, s_greeted, s_asking>>
      /\ s_read \in Nat /\ ~(s_loop = "write")
  BY DEF Stdio!Handle, Stdio!client, Stdio!seen, StdioInv, FramesTyped
<1>2. RequestsKept'
  <2>1. s_running \subseteq s_running'
    BY DEF Stdio!Handle
  <2>2. Stdio!IsRequest(s_sent[i]) => i \in s_running' \/ (s_loop' = "write" /\ s_out' = <<"reply", i>>)
    BY DEF Stdio!Handle, Stdio!Write
  <2>3. \A j \in 1 .. s_read : Stdio!IsRequest(s_sent[j]) => s_replies[j] = 1 \/ j \in s_running
    BY <1>1 DEF RequestsKept, Writing
  <2>4. \A j \in 1 .. i : j \in 1 .. s_read \/ j = i
    BY <1>1
  <2> HIDE DEF i
  <2> QED
    BY <1>1, <2>1, <2>2, <2>3, <2>4 DEF RequestsKept, Writing, Stdio!IsRequest
<1>3. QuestionsKept'
  <2>1. \A q \in Stdio!Questions : s_asked'[q] = "queued" => s_asked[q] = "queued"
    BY DEF Stdio!Handle, StdioTyped, QueuesTyped
  <2> QED
    BY <1>1, <2>1 DEF QuestionsKept, Writing, Waits
<1>4. ChangesKept'
  BY <1>1 DEF ChangesKept, Writing
<1> QED
  BY <1>2, <1>3, <1>4

(* A write that was received. *)
LEMMA WrittenKeeps ==
    ASSUME StdioInv, StdioTyped, RequestsKept, QuestionsKept, ChangesKept, Stdio!Written,
           s_loop' # "ended"
    PROVE  RequestsKept' /\ QuestionsKept' /\ ChangesKept'
<1>1. /\ s_loop = "write" /\ Stdio!Received(s_out)
      /\ UNCHANGED <<s_sent, s_running, s_read, s_signal, s_asking>>
  BY DEF Stdio!Written, Stdio!client
<1>2. ~(s_out = <<"failure">>)
  BY DEF Stdio!Written, Stdio!End
<1>3. /\ \A j \in Stdio!Frames : s_replies[j] <= 1
      /\ FramesTyped /\ 1 .. s_read \subseteq Stdio!Frames /\ s_read \in Nat
      /\ Failure \/ (\E i \in Stdio!Frames : Reply(i)) \/ Push
  BY <1>1, StdioAssumption DEF StdioInv, FramesTyped, RepliesOK, Stdio!Frames
<1>4. /\ \A i : s_out = <<"reply", i>> => s_out[1] = "reply" /\ s_out[2] = i
      /\ \A q : s_out = <<"ask", q>> => s_out[1] = "ask" /\ s_out[2] = q
      /\ s_out = <<"change">> => s_out[1] = "change"
  OBVIOUS
<1>5. RequestsKept'
  <2>1. ASSUME NEW i \in Stdio!Frames, Reply(i) PROVE RequestsKept'
    <3>1. s_out = <<"reply", i>> /\ i \in 1 .. s_read /\ i \notin s_running /\ s_replies[i] = 0
      BY <2>1 DEF Reply
    <3>2. s_replies' = [s_replies EXCEPT ![i] = @ + 1]
      BY <1>1, <1>4, <3>1 DEF Stdio!Received
    <3>3. s_replies'[i] = 1 /\ \A j \in Stdio!Frames \ {i} : s_replies'[j] = s_replies[j]
      BY <1>1, <1>3, <3>1, <3>2, StdioReplied
    <3>4. \A j : j # i => ~Writing(<<"reply", j>>)
      BY <3>1 DEF Writing
    <3>5. \A j \in 1 .. s_read : Stdio!IsRequest(s_sent[j]) => s_replies'[j] = 1 \/ j \in s_running
      BY <1>2, <1>3, <3>3, <3>4 DEF RequestsKept, Writing
    <3> QED
      BY <1>1, <3>5 DEF RequestsKept, Stdio!IsRequest
  <2>2. CASE Push
    <3>1. s_replies' = s_replies
      BY <1>1, <2>2 DEF Push, Stdio!Received
    <3>2. \A j : ~Writing(<<"reply", j>>)
      BY <1>4, <2>2 DEF Push, Writing
    <3>3. \A j \in 1 .. s_read : Stdio!IsRequest(s_sent[j]) => s_replies[j] = 1 \/ j \in s_running
      BY <1>2, <3>2 DEF RequestsKept, Writing
    <3> QED
      BY <1>1, <3>1, <3>3 DEF RequestsKept, Stdio!IsRequest
  <2> QED
    BY <1>2, <1>3, <2>1, <2>2 DEF Failure
<1>6. QuestionsKept'
  <2>1. ASSUME NEW q \in Stdio!Questions, s_asked'[q] = "queued"
        PROVE  s_asked[q] = "queued" /\ ~Writing(<<"ask", q>>)
    <3>1. s_asked \in [Stdio!Questions -> Answers]
      BY DEF StdioTyped, QueuesTyped
    <3>2. s_asked' = IF s_out[1] = "ask" THEN [s_asked EXCEPT ![s_out[2]] = "shown"] ELSE s_asked
      BY DEF Stdio!Written
    <3> QED
      BY <1>4, <2>1, <3>1, <3>2 DEF Writing
  <2> QED
    BY <1>1, <2>1 DEF QuestionsKept, Waits
<1>7. ChangesKept'
  <2> DEFINE opens == s_out[1] = "reply" /\ s_sent[s_out[2]].kind = "initialize"
  <2>1. /\ s_untold' => s_untold /\ ~Writing(<<"change">>)
        /\ s_greeted' => s_greeted \/ opens
    BY <1>1, <1>4, Zenon DEF Stdio!Received, Writing
  <2>2. /\ s_initialized' <=> (s_initialized \/ opens)
        /\ s_pendingListChanged' <=> (s_pendingListChanged /\ ~opens)
        /\ opens /\ s_pendingListChanged => Writing(<<"change">>)'
    <3>1. /\ s_initialized' = (s_initialized \/ opens)
          /\ s_pendingListChanged' = (s_pendingListChanged /\ ~opens)
      BY Zenon DEF Stdio!Written
    <3>2. ASSUME opens, s_pendingListChanged PROVE Writing(<<"change">>)'
      <4>1. s_out[1] # "failure"
        BY <3>2
      <4> QED
        BY <3>2, <4>1 DEF Stdio!Written, Stdio!Write, Writing
    <3> HIDE DEF opens
    <3> QED
      BY <3>1, <3>2
  <2> HIDE DEF opens
  <2> QED
    BY <1>1, <2>1, <2>2 DEF ChangesKept
<1> QED
  BY <1>5, <1>6, <1>7

(* A question is taken from the channel. *)
LEMMA TakingKeeps ==
    ASSUME StdioTyped, QuestionsKept, Stdio!ServerReq
    PROVE  QuestionsKept'
<1>1. /\ s_loop = "select" /\ s_asking # <<>> /\ s_asking' = Tail(s_asking)
      /\ s_asking \in Seq(Stdio!Questions) /\ s_asked \in [Stdio!Questions -> Answers]
  BY DEF Stdio!ServerReq, Stdio!Idle, StdioTyped, QueuesTyped
<1>2. \A q : Waits(q) => q = Head(s_asking) \/ Waits(q)'
  <2> SUFFICES ASSUME NEW q, NEW k \in 1 .. Len(s_asking), s_asking[k] = q, q # Head(s_asking)
               PROVE  Waits(q)'
    BY DEF Waits
  <2>1. /\ Len(Tail(s_asking)) = Len(s_asking) - 1 /\ Len(s_asking) \in Nat
        /\ \A j \in 1 .. Len(s_asking) - 1 : Tail(s_asking)[j] = s_asking[j + 1]
        /\ Head(s_asking) = s_asking[1]
    BY <1>1
  <2>2. k # 1 /\ k - 1 \in 1 .. Len(s_asking) - 1 /\ (k - 1) + 1 = k
    BY <2>1
  <2> QED
    BY <1>1, <2>1, <2>2 DEF Waits
<1>3. \A q : ~Writing(q)
  BY <1>1 DEF Writing
<1>4. Head(s_asking) \in Stdio!Questions
  BY <1>1
<1>5. CASE s_initialized
  <2>1. s_loop' = "write" /\ s_out' = <<"ask", Head(s_asking)>> /\ s_asked' = s_asked
    BY <1>5 DEF Stdio!ServerReq, Stdio!Write
  <2>2. \A q : q = Head(s_asking) => Writing(<<"ask", q>>)'
    BY <2>1 DEF Writing
  <2> QED
    BY <1>2, <1>3, <2>1, <2>2 DEF QuestionsKept
<1>6. CASE ~s_initialized
  <2>1. s_asked' = [s_asked EXCEPT ![Head(s_asking)] = "refused"]
    BY <1>6 DEF Stdio!ServerReq
  <2>2. \A q \in Stdio!Questions : s_asked'[q] = "queued" => s_asked[q] = "queued" /\ q # Head(s_asking)
    BY <1>1, <1>4, <2>1
  <2> QED
    BY <1>2, <1>3, <2>2 DEF QuestionsKept
<1> QED
  BY <1>5, <1>6

(* A question joins the channel. *)
LEMMA AskingKeeps ==
    ASSUME StdioTyped, QuestionsKept, Stdio!Ask
    PROVE  QuestionsKept'
<1> DEFINE q == s_pushes["ask"] + 1
<1>1. /\ UNCHANGED <<s_loop, s_out>>
      /\ s_asking \in Seq(Stdio!Questions) /\ s_asked \in [Stdio!Questions -> Answers]
  BY DEF Stdio!Ask, StdioTyped, QueuesTyped
<1>2. q \in Stdio!Questions
  BY Counted DEF Stdio!Ask, Pushed, StdioTyped
<1>3. \/ s_asked' = [s_asked EXCEPT ![q] = "queued"] /\ s_asking' = Append(s_asking, q)
      \/ s_asked' = [s_asked EXCEPT ![q] = "refused"] /\ s_asking' = s_asking
  BY DEF Stdio!Ask
<1> HIDE DEF q
<1>4. s_asking' = Append(s_asking, q) => \A x : Waits(x) \/ x = q => Waits(x)'
  <2>1. /\ Len(Append(s_asking, q)) = Len(s_asking) + 1 /\ Len(s_asking) \in Nat
        /\ Append(s_asking, q)[Len(s_asking) + 1] = q
        /\ \A k \in 1 .. Len(s_asking) : Append(s_asking, q)[k] = s_asking[k]
    BY <1>1, <1>2, Queueing
  <2>2. \A k \in 1 .. Len(s_asking) + 1 : k \in 1 .. Len(s_asking) \/ k = Len(s_asking) + 1
    BY <2>1
  <2>3. /\ 1 .. Len(s_asking) \subseteq 1 .. Len(s_asking) + 1
        /\ Len(s_asking) + 1 \in 1 .. Len(s_asking) + 1
    BY <2>1
  <2> QED
    BY <2>1, <2>3 DEF Waits
<1>5. s_asking' = s_asking => \A x : Waits(x) => Waits(x)'
  BY DEF Waits
<1>6. \A x : Writing(x) => Writing(x)'
  BY <1>1 DEF Writing
<1> QED
  BY <1>1, <1>2, <1>3, <1>4, <1>5, <1>6 DEF QuestionsKept

LEMMA NothingIsForgotten ==
    ASSUME StdioInv, StdioTyped, NothingForgotten, Stdio!Next \/ UNCHANGED stdioVars
    PROVE  NothingForgotten'
<1> SUFFICES ASSUME s_loop' # "ended" PROVE RequestsKept' /\ QuestionsKept' /\ ChangesKept'
  BY DEF NothingForgotten
<1> USE DEF Stdio!client, Stdio!gates, Stdio!registry, Stdio!seen
<1>1. s_loop # "ended"
  BY DEF Stdio!Next, Stdio!Loop, Stdio!Send, Stdio!HangUp, Stdio!Stall, Stdio!Terminate,
         Stdio!ChangeCatalog, Stdio!Forward, Stdio!Ask, Stdio!CtxDone, Stdio!CatalogChanged,
         Stdio!Notification, Stdio!ServerReq, Stdio!Disconnected, Stdio!Frame, Stdio!BeginStart,
         Stdio!Started, Stdio!StartFails, Stdio!Written, Stdio!Bail, Stdio!CallReplies,
         Stdio!Idle, stdioVars
<1>2. RequestsKept /\ QuestionsKept /\ ChangesKept
  BY <1>1 DEF NothingForgotten
<1>3. /\ s_read \in Nat /\ s_sent \in Seq(ClientFrames) /\ s_read <= Len(s_sent)
      /\ 1 .. s_read \subseteq 1 .. Len(s_sent) /\ 1 .. s_read \subseteq Stdio!Frames
  BY StdioAssumption DEF StdioInv, FramesTyped, Stdio!Frames
<1>4. ASSUME UNCHANGED <<s_replies, s_running, s_read, s_sent>>,
             s_loop = "select" \/ UNCHANGED <<s_loop, s_out>>
      PROVE  RequestsKept'
  BY <1>2, <1>4 DEF RequestsKept, Writing, Stdio!IsRequest
<1>5. ASSUME UNCHANGED <<s_asked, s_asking>>, s_loop = "select" \/ UNCHANGED <<s_loop, s_out>>
      PROVE  QuestionsKept'
  BY <1>2, <1>5 DEF QuestionsKept, Waits, Writing
<1>6. ASSUME UNCHANGED <<s_untold, s_signal, s_pendingListChanged, s_initialized, s_greeted>>,
             s_loop = "select" \/ UNCHANGED <<s_loop, s_out>>
      PROVE  ChangesKept'
  BY <1>2, <1>6 DEF ChangesKept, Writing
<1>7. ASSUME NEW f \in ClientFrames, Stdio!Send(f)
      PROVE  RequestsKept' /\ QuestionsKept' /\ ChangesKept'
  <2>1. /\ s_sent' = Append(s_sent, f)
        /\ UNCHANGED <<s_replies, s_running, s_read, s_loop, s_out, s_asked, s_asking, s_untold,
                       s_signal, s_pendingListChanged, s_initialized, s_greeted>>
    BY <1>7 DEF Stdio!Send
  <2>2. \A i \in 1 .. s_read : s_sent'[i] = s_sent[i]
    BY <1>3, <2>1, Queueing
  <2>3. RequestsKept'
    BY <1>2, <2>1, <2>2 DEF RequestsKept, Writing, Stdio!IsRequest
  <2> QED
    BY <1>5, <1>6, <2>1, <2>3
<1>8. CASE Stdio!HangUp \/ Stdio!Stall \/ Stdio!Terminate \/ Stdio!Forward \/ Stdio!Notification
           \/ UNCHANGED stdioVars
  <2>1. /\ UNCHANGED <<s_replies, s_running, s_read, s_sent, s_asked, s_asking, s_untold,
                       s_signal, s_pendingListChanged, s_initialized, s_greeted>>
        /\ s_loop = "select" \/ UNCHANGED <<s_loop, s_out>>
    BY <1>8 DEF Stdio!HangUp, Stdio!Stall, Stdio!Terminate, Stdio!Forward, Stdio!Notification,
                Stdio!Idle, stdioVars
  <2> QED
    BY <1>4, <1>5, <1>6, <2>1
<1>9. CASE Stdio!ChangeCatalog
  <2>1. /\ UNCHANGED <<s_replies, s_running, s_read, s_sent, s_loop, s_out, s_asked, s_asking,
                       s_pendingListChanged, s_initialized, s_greeted>>
        /\ s_signal' = TRUE
    BY <1>9 DEF Stdio!ChangeCatalog
  <2>2. ChangesKept'
    BY <1>2, <2>1 DEF ChangesKept
  <2> QED
    BY <1>4, <1>5, <2>1, <2>2
<1>10. CASE Stdio!Ask
  <2>1. UNCHANGED <<s_replies, s_running, s_read, s_sent, s_loop, s_out, s_untold,
                    s_signal, s_pendingListChanged, s_initialized, s_greeted>>
    BY <1>10 DEF Stdio!Ask
  <2> QED
    BY <1>2, <1>4, <1>6, <1>10, <2>1, AskingKeeps
<1>11. CASE Stdio!CtxDone \/ Stdio!Disconnected \/ Stdio!Bail
  BY <1>11 DEF Stdio!CtxDone, Stdio!Disconnected, Stdio!Bail, Stdio!End
<1>12. CASE Stdio!CatalogChanged
  <2>1. /\ s_loop = "select"
        /\ UNCHANGED <<s_replies, s_running, s_read, s_sent, s_asked, s_asking, s_initialized, s_greeted>>
        /\ \/ s_initialized /\ Writing(<<"change">>)'
           \/ ~s_initialized /\ s_pendingListChanged'
    BY <1>12 DEF Stdio!CatalogChanged, Stdio!Idle, Stdio!Write, Writing
  <2>2. ChangesKept'
    BY <1>2, <2>1 DEF ChangesKept
  <2> QED
    BY <1>4, <1>5, <2>1, <2>2
<1>13. CASE Stdio!ServerReq
  <2>1. /\ UNCHANGED <<s_replies, s_running, s_read, s_sent, s_untold, s_signal,
                       s_pendingListChanged, s_initialized, s_greeted>>
        /\ s_loop = "select"
    BY <1>13 DEF Stdio!ServerReq, Stdio!Idle
  <2> QED
    BY <1>2, <1>4, <1>6, <1>13, <2>1, TakingKeeps
<1>14. CASE Stdio!Frame
  BY <1>2, <1>14, HandledKeeps DEF Stdio!Frame, Stdio!Idle
<1>15. CASE Stdio!BeginStart
  <2>1. /\ UNCHANGED <<s_replies, s_running, s_read, s_sent, s_asked, s_asking, s_untold,
                       s_signal, s_pendingListChanged, s_initialized, s_greeted>>
        /\ s_loop = "select"
    BY <1>15 DEF Stdio!BeginStart, Stdio!Idle
  <2> QED
    BY <1>4, <1>5, <1>6, <2>1
<1>16. CASE Stdio!Started
  BY <1>2, <1>16, HandledKeeps DEF Stdio!Started, StdioInv, StartOK
<1>17. CASE Stdio!StartFails
  <2>1. /\ s_loop = "start" /\ Writing(<<"failure">>)' /\ s_read' = s_read + 1
        /\ UNCHANGED <<s_replies, s_running, s_sent, s_asked, s_asking, s_untold,
                       s_signal, s_pendingListChanged, s_initialized, s_greeted>>
    BY <1>17 DEF Stdio!StartFails, Stdio!Write, Writing
  <2>2. \A m : ~Writing(m)
    BY <2>1 DEF Writing
  <2>3. RequestsKept'
    <3>1. \A i \in 1 .. s_read + 1 : i \in 1 .. s_read \/ i = s_read + 1
      BY <1>3
    <3> QED
      BY <1>2, <2>1, <2>2, <3>1 DEF RequestsKept, Stdio!IsRequest
  <2>4. QuestionsKept'
    BY <1>2, <2>1, <2>2 DEF QuestionsKept, Waits
  <2>5. ChangesKept'
    BY <1>2, <2>1, <2>2 DEF ChangesKept
  <2> QED
    BY <2>3, <2>4, <2>5
<1>18. CASE Stdio!Written
  BY <1>2, <1>18, WrittenKeeps
<1>19. ASSUME NEW i \in Stdio!Frames, Stdio!CallReplies(i)
       PROVE  RequestsKept' /\ QuestionsKept' /\ ChangesKept'
  <2>1. /\ i \in s_running /\ s_running' = s_running \ {i} /\ Stdio!Received(<<"reply", i>>)
        /\ UNCHANGED <<s_loop, s_out, s_read, s_sent, s_asked, s_asking, s_signal,
                       s_pendingListChanged, s_initialized>>
    BY <1>19 DEF Stdio!CallReplies
  <2>2. <<"reply", i>>[1] = "reply" /\ <<"reply", i>>[2] = i
    OBVIOUS
  <2>3. s_replies' = [s_replies EXCEPT ![i] = @ + 1]
    BY <2>1, <2>2 DEF Stdio!Received
  <2>4. s_replies[i] = 0 /\ s_running' \subseteq s_running /\ FramesTyped
    BY <2>1 DEF StdioInv, RepliesOK
  <2>5. s_replies'[i] = 1 /\ \A j \in Stdio!Frames \ {i} : s_replies'[j] = s_replies[j]
    BY <2>1, <2>3, <2>4, StdioReplied
  <2>6. RequestsKept'
    BY <1>2, <1>3, <2>1, <2>5 DEF RequestsKept, Writing, Stdio!IsRequest
  <2>7. s_sent[i].kind # "initialize"
    BY <2>1 DEF StdioTyped, CallsTyped
  <2>8. s_untold' = s_untold /\ s_greeted' = s_greeted
    BY <2>1, <2>2, <2>7 DEF Stdio!Received, StdioTyped, FlagsTyped
  <2> QED
    BY <1>5, <1>6, <2>1, <2>6, <2>8
<1> QED
  BY <1>7, <1>8, <1>9, <1>10, <1>11, <1>12, <1>13, <1>14, <1>15, <1>16, <1>17, <1>18, <1>19
     DEF Stdio!Next, Stdio!Loop

(* The gateway over stdio never forgets what it owes its client. *)
THEOREM ServingForgetsNothing == Stdio!Safety => []NothingForgotten
<1>1. Stdio!Init => NothingForgotten
  BY DEF Stdio!Init, NothingForgotten, RequestsKept, QuestionsKept, ChangesKept
<1>2. StdioInv /\ StdioTyped /\ NothingForgotten /\ [Stdio!Next]_(Stdio!vars)
         => (StdioInv /\ StdioTyped /\ NothingForgotten)'
  BY StdioGoes, StdioPreserved, StdioTypedPreserved, NothingIsForgotten
<1> QED
  BY <1>1, <1>2, StdioStart, StdioTypedStart, PTL DEF Stdio!Safety

-----------------------------------------------------------------------------
(* The cache holds descriptors, or nothing. *)
CacheTyped == k_cached \subseteq Cat!Descriptors /\ k_cacheValid \in BOOLEAN

(* A rebuilt cache is the catalog. *)
LEMMA CacheTypedPreserved ==
    ASSUME CatInv, CacheTyped, Cat!Next \/ UNCHANGED catVars
    PROVE  CacheTyped'
<1>1. k_tools \subseteq Cat!Descriptors
  BY DEF CatInv, CatTyped, Cat!Descriptors, Faces
<1>2. /\ k_cached' \in {{}, k_cached, k_tools}
      /\ k_cacheValid' \in {TRUE, FALSE, k_cacheValid}
  BY DEF Cat!Next, Cat!Install, Cat!Relist, Cat!Drop, Cat!SwapConfig, Cat!Remerge, Cat!ServePage,
         Cat!Merge, Cat!Invalidate, Cat!ListTools, Cat!catalogVars, catVars
<1>3. k_cached' \subseteq Cat!Descriptors /\ k_cacheValid' \in BOOLEAN
  BY <1>1, <1>2 DEF CacheTyped
<1>4. Cat!Descriptors' = Cat!Descriptors
  BY DEF Cat!Descriptors, Cat!FaceNames, Cat!Versions
<1> QED
  BY <1>3, <1>4 DEF CacheTyped

(* No upstream's templates are in the list twice, so it has no more        *)
(* entries than there are upstreams.                                       *)
LEMMA TemplatesAreFew ==
    ASSUME CatInv
    PROVE  k_templates \in Seq(Names) /\ Len(k_templates) <= Cat!Cardinality(Names)
<1>1. k_templates \in Seq(k_aux) /\ k_aux \subseteq Names
  BY DEF CatInv, CatTyped, TemplatesOK
<1>2. /\ k_templates \in Seq(Names) /\ Len(k_templates) \in Nat
      /\ k_templates \in [1 .. Len(k_templates) -> Names]
  BY <1>1
<1>3. k_templates \in Injection(1 .. Len(k_templates), Names)
  <2>1. \A i, j \in 1 .. Len(k_templates) : k_templates[i] = k_templates[j] => i = j
    BY DEF CatInv, TemplatesOK
  <2> QED
    BY <1>2, <2>1 DEF Injection, IsInjective
<1>4. IsFiniteSet(Names)
  BY CatalogAssumption
<1>5. /\ IsFiniteSet(1 .. Len(k_templates))
      /\ Cardinality(1 .. Len(k_templates)) = Len(k_templates)
  BY <1>2, FS_Interval
<1>6. Cardinality(1 .. Len(k_templates)) <= Cardinality(Names)
  BY <1>3, <1>4, <1>5, FS_Injection
<1> QED
  BY <1>2, <1>5, <1>6, SameCardinality

(* What the catalog's invariant says of its types. *)
LEMMA CatTypedIs == CatInv /\ CacheTyped => Cat!TypeOK
<1> SUFFICES ASSUME CatInv, CacheTyped PROVE Cat!TypeOK
  OBVIOUS
<1>1. k_tools \subseteq Cat!Descriptors /\ k_cached \subseteq Cat!Descriptors
  BY DEF CatInv, CatTyped, CacheTyped, Cat!Descriptors, Faces
<1>2. /\ k_listing.open \in BOOLEAN /\ k_listing.again \in BOOLEAN
      /\ k_listing.cursor \in Cat!FaceNames \cup {0}
      /\ k_listing.seen \subseteq Cat!FaceNames /\ k_listing.stayed \subseteq Cat!FaceNames
  BY DEF CatInv, CatTyped, Faces
<1>3. k_cacheValid \in BOOLEAN
  BY DEF CacheTyped
<1>4. /\ k_conns \subseteq Names /\ k_aux \subseteq Names
      /\ k_raw \in [Names -> SUBSET Tools]
      /\ k_resources \subseteq [uri : Uris, up : Names]
      /\ k_defects \in [Names -> SUBSET (Cat!FaceNames \cup Uris)]
      /\ k_version \in Cat!Versions /\ k_todo \subseteq Names
  BY DEF CatInv, CatTyped
<1> QED
  BY <1>1, <1>2, <1>3, <1>4, TemplatesAreFew DEF Cat!TypeOK

(* What the journal's invariant says of its types. *)
LEMMA LogTypedIs == LogInv => Log!TypeOK
<1> SUFFICES ASSUME LogInv PROVE Log!TypeOK
  OBVIOUS
<1>1. ReportTyped /\ FileOK /\ ReadOK /\ Len(j_lines) \in Nat
  BY LinesTyped DEF LogInv, ReportInv, ReadInv
<1>2. \A b : Written(b) => b \in Log!Bytes
  BY <1>1 DEF Written, AnyByte, Log!Bytes
<1>3. j_file \in Seq(Log!Bytes)
  BY <1>1, <1>2 DEF FileOK
<1>4. /\ j_follow \in Follows /\ j_follow.pending \in Seq(Log!Bytes)
  <2>1. j_follow \in Follows /\ InStep(j_shown, j_follow.pending)
    BY <1>1 DEF ReadOK
  <2> DEFINE q == j_follow.pending
  <2>2. q \in Seq(AnyByte) /\ \A i \in 1 .. Len(q) : Written(q[i])
    BY <2>1 DEF InStep
  <2> HIDE DEF q
  <2>3. \A i \in 1 .. Len(q) : q[i] \in Log!Bytes
    BY <1>2, <2>2
  <2>4. q \in Seq(Log!Bytes)
    BY <2>2, <2>3
  <2> QED
    BY <2>1, <2>4 DEF q
<1>5. j_shown \in Seq(1 .. Len(j_lines))
  <2>1. \A i \in 1 .. Len(j_shown) : j_shown[i] \in 1 .. Len(j_lines)
    <3> SUFFICES ASSUME NEW i \in 1 .. Len(j_shown) PROVE j_shown[i] \in 1 .. Len(j_lines)
      OBVIOUS
    <3>1. j_shown \in Seq(Nat) /\ Written(End(j_shown[i]))
      BY <1>1 DEF ReadOK, InStep
    <3>2. j_shown[i] \in Nat
      BY <3>1
    <3>3. 1 <= j_shown[i] /\ j_shown[i] <= Len(j_lines)
      BY <3>1 DEF Written, End
    <3> QED
      BY <1>1, <3>2, <3>3
  <2> QED
    BY <1>1, <2>1 DEF ReadOK, InStep
<1>6. j_follow \in [pc : {"off", "wait", "read"}, offset : Nat, size : Nat, start : Nat,
                    pending : Seq(Log!Bytes)]
  BY <1>4 DEF Follows
<1>7. j_truncations \in 0 .. MaxTruncations
  BY DEF LogInv, WholeOK
<1> QED
  BY <1>1, <1>3, <1>5, <1>6, <1>7 DEF ReportTyped, Log!TypeOK

-----------------------------------------------------------------------------
(* Each component's variables have their types ... *)
LEMMA HttpTyping == Http!Safety => []Http!TypeOK
<1>1. HttpInv => Http!TypeOK
  BY DEF HttpInv
<1>2. HttpInv /\ [Http!Next]_(Http!vars) => HttpInv'
  BY HttpGoes, HttpPreserved
<1> QED
  BY <1>1, <1>2, HttpStart, PTL DEF Http!Safety

LEMMA ConfigTyping == Config!Safety => []Config!TypeOK
<1>1. ConfigTyped /\ [Config!Next]_(Config!vars) => ConfigTyped'
  BY ConfigGoes, ConfigPreserved
<1> QED
  BY <1>1, ConfigTypedIs, ConfigStart, PTL DEF Config!Safety

LEMMA CatTyping == Cat!Safety => []Cat!TypeOK
<1>1. Cat!Init => CatInv /\ CacheTyped
  BY CatStart DEF Cat!Init, CacheTyped
<1>2. CatInv /\ CacheTyped /\ [Cat!Next]_(Cat!vars) => (CatInv /\ CacheTyped)'
  BY CatGoes, CatPreserved, CacheTypedPreserved
<1> QED
  BY <1>1, <1>2, CatTypedIs, PTL DEF Cat!Safety

LEMMA LogTyping == Log!Safety => []Log!TypeOK
<1>1. LogInv /\ [Log!Next]_(Log!vars) => LogInv'
  BY LogGoes, LogPreserved
<1> QED
  BY <1>1, LogTypedIs, LogStart, PTL DEF Log!Safety

LEMMA StdioTyping == Stdio!Safety => []Stdio!TypeOK
<1>1. StdioInv /\ StdioTyped /\ [Stdio!Next]_(Stdio!vars) => (StdioInv /\ StdioTyped)'
  BY StdioGoes, StdioPreserved, StdioTypedPreserved
<1> QED
  BY <1>1, StdioTypedIs, StdioStart, StdioTypedStart, PTL DEF Stdio!Safety

(* ... so every variable of every component is well typed, whichever has   *)
(* the turn and for any values of the constants.                           *)
THEOREM PartsTyping == PartsSpec => []Typed
<1>1. ASSUME TypeOK, Http!TypeOK, Config!TypeOK, Cat!TypeOK, Log!TypeOK, Stdio!TypeOK
      PROVE  Typed
  BY <1>1 DEF Typed
<1> QED
  BY <1>1, PartsRun, LifecycleTyping, HttpTyping, ConfigTyping, CatTyping, LogTyping,
     StdioTyping, PTL

(* Beside the other components, too, every child is accounted for and runs *)
(* as configured, each has one watcher, and Close is never stuck.          *)
THEOREM LifecycleInParts == PartsSpec => [](ChildrenAreAccounted /\ OneWatcher /\ NeverStuck)
  BY PartsRun, ChildrenAccounted, WatchersAreAlone, CloseIsNeverStuck, PTL
=============================================================================
