----------------------------- MODULE StdioServe -----------------------------
(***************************************************************************)
(* The stdio client transport (transport/stdio.go: Serve): one select loop *)
(* between the client's frames and what the upstreams push, the registry   *)
(* it starts on the first frame that needs one, the goroutines of the      *)
(* tools/call requests, and a client that may hang up or stop reading.     *)
(*                                                                         *)
(* A frame is what the loop can tell about it: its method's kind, whether  *)
(* it carries the modern era's _meta, and whether it declares that the     *)
(* client can be asked.  "other" is a method the gateway does not know.    *)
(***************************************************************************)
EXTENDS Naturals, Sequences

CONSTANTS
    ClientFrames,   \* the frames the client may send
    MaxFrames,      \* bound: frames
    MaxPushes,      \* bound: of each, catalog changes, notifications and questions
    NotifBuf        \* notifSubBuffer

VARIABLES
    sent,           \* the client's stream, oldest first
    hungUp,         \* the client has closed it
    stalled,        \* the client reads no more
    ctx             \* "live", "cancelled"

VARIABLES
    loop,           \* "select", "start", "write", "ended"
    out,            \* what it writes: <<"reply", i>>, <<"change">>, <<"note">>, <<"ask", q>>
    read,           \* frames taken
    initialized, pendingListChanged, started,
    running         \* tools/call frames with a goroutine

VARIABLES           \* the registry, as this loop sees it
    signal,         \* the catalog signal's channel
    notifs,         \* the notification channel's length
    asking,         \* serverReqSub, oldest first
    asked,          \* [question -> "no", "queued", "shown", "refused", "answered"]
    clientCaps,     \* what the client declared last
    declared,       \* what the upstreams' handshakes were told
    pushes          \* bounds

VARIABLES           \* the client, as history
    replies,        \* [frame -> replies received]
    greeted,        \* its initialize has been replied to
    early,          \* something was pushed before that
    untold          \* the catalog changed since the client was last told

client == <<sent, hungUp, stalled, ctx>>
gates == <<initialized, pendingListChanged, started, running, read>>
registry == <<signal, notifs, asking, asked, clientCaps, declared, pushes>>
seen == <<replies, greeted, early, untold>>
vars == <<client, loop, out, gates, registry, seen>>

Frames == 1 .. MaxFrames
Questions == 1 .. MaxPushes
Nothing == <<"none">>

IsRequest(f) == f.kind \in {"initialize", "ping", "list", "call", "other"}
(* modernMethodKnown *)
Known(f) == f.kind \in {"list", "call"}

(* MUTANT of NeedsRegistry: a ping starts the registry too. *)
NeedsRegistryPing(f) == IsRequest(f) /\ ~(f.modern /\ ~Known(f))

NeedsRegistry(f) == IsRequest(f) /\ f.kind # "ping" /\ ~(f.modern /\ ~Known(f))

TypeOK ==
    /\ sent \in Seq(ClientFrames) /\ Len(sent) <= MaxFrames
    /\ hungUp \in BOOLEAN /\ stalled \in BOOLEAN /\ ctx \in {"live", "cancelled"}
    /\ loop \in {"select", "start", "write", "ended"}
    /\ out \in {Nothing, <<"change">>, <<"note">>, <<"failure">>}
                 \cup ({"reply"} \X Frames) \cup ({"ask"} \X Questions)
    /\ read \in 0 .. Len(sent)
    /\ {initialized, pendingListChanged, started} \subseteq BOOLEAN
    /\ running \subseteq {i \in 1 .. read : sent[i].kind = "call"}
    /\ signal \in BOOLEAN /\ notifs \in 0 .. NotifBuf
    /\ asking \in Seq(Questions)
    /\ asked \in [Questions -> {"no", "queued", "shown", "refused", "answered"}]
    /\ clientCaps \in BOOLEAN /\ declared \in BOOLEAN
    /\ pushes \in [{"change", "note", "ask"} -> 0 .. MaxPushes]
    /\ replies \in [Frames -> 0 .. 2]
    /\ greeted \in BOOLEAN /\ early \in BOOLEAN /\ untold \in BOOLEAN

Init ==
    /\ sent = <<>> /\ hungUp = FALSE /\ stalled = FALSE /\ ctx = "live"
    /\ loop = "select" /\ out = Nothing /\ read = 0
    /\ initialized = FALSE /\ pendingListChanged = FALSE /\ started = FALSE
    /\ running = {}
    /\ signal = FALSE /\ notifs = 0 /\ asking = <<>>
    /\ asked = [q \in Questions |-> "no"]
    /\ clientCaps = FALSE /\ declared = FALSE
    /\ pushes = [k \in {"change", "note", "ask"} |-> 0]
    /\ replies = [i \in Frames |-> 0]
    /\ greeted = FALSE /\ early = FALSE /\ untold = FALSE

-----------------------------------------------------------------------------
(* The client, and whoever stops the gateway. *)

Send(f) ==
    /\ ~hungUp /\ Len(sent) < MaxFrames
    /\ sent' = Append(sent, f)
    /\ UNCHANGED <<hungUp, stalled, ctx, loop, out, gates, registry, seen>>

HangUp ==
    /\ ~hungUp /\ hungUp' = TRUE
    /\ UNCHANGED <<sent, stalled, ctx, loop, out, gates, registry, seen>>

Stall ==
    /\ ~stalled /\ stalled' = TRUE
    /\ UNCHANGED <<sent, hungUp, ctx, loop, out, gates, registry, seen>>

Terminate ==
    /\ ctx = "live" /\ ctx' = "cancelled"
    /\ UNCHANGED <<sent, hungUp, stalled, loop, out, gates, registry, seen>>

-----------------------------------------------------------------------------
(* The registry's side of the three channels: none of them ever blocks. *)

Count(k) ==
    /\ started /\ loop # "ended" /\ pushes[k] < MaxPushes
    /\ pushes' = [pushes EXCEPT ![k] = @ + 1]

(* notifyCatalogChanged: coalescing. *)
ChangeCatalog ==
    /\ Count("change")
    /\ signal' = TRUE /\ untold' = TRUE
    /\ UNCHANGED <<client, loop, out, gates, notifs, asking, asked, clientCaps, declared,
                   replies, greeted, early>>

(* forwardNotification: dropped when the buffer is full. *)
Forward ==
    /\ Count("note")
    /\ notifs' = IF notifs < NotifBuf THEN notifs + 1 ELSE notifs
    /\ UNCHANGED <<client, loop, out, gates, signal, asking, asked, clientCaps, declared, seen>>

(* An upstream asks the client: only one that was told it may, and only as *)
(* long as the client says so (onUpstreamRequest).                         *)
Ask ==
    /\ Count("ask") /\ declared
    /\ LET q == pushes["ask"] + 1 IN
       IF clientCaps
       THEN asked' = [asked EXCEPT ![q] = "queued"] /\ asking' = Append(asking, q)
       ELSE asked' = [asked EXCEPT ![q] = "refused"] /\ UNCHANGED asking
    /\ UNCHANGED <<client, loop, out, gates, signal, notifs, clientCaps, declared, seen>>

-----------------------------------------------------------------------------
(* The loop. *)

Write(m) == loop' = "write" /\ out' = m
Select   == loop' = "select" /\ out' = Nothing
End      == loop' = "ended" /\ out' = Nothing
Idle     == loop = "select"

CtxDone ==
    /\ Idle /\ ctx = "cancelled"
    /\ End
    /\ UNCHANGED <<client, gates, registry, seen>>

(* MUTANT of CatalogChanged: a change before the handshake is forgotten. *)
CatalogChangedDropped ==
    /\ Idle /\ signal
    /\ signal' = FALSE
    /\ IF initialized
       THEN Write(<<"change">>)
       ELSE UNCHANGED <<loop, out>>
    /\ UNCHANGED <<client, initialized, pendingListChanged, started, running, read,
                   notifs, asking, asked, clientCaps, declared, pushes, seen>>

(* Before the handshake a change is kept for later ... *)
CatalogChanged ==
    /\ Idle /\ signal
    /\ signal' = FALSE
    /\ IF initialized
       THEN Write(<<"change">>) /\ UNCHANGED pendingListChanged
       ELSE pendingListChanged' = TRUE /\ UNCHANGED <<loop, out>>
    /\ UNCHANGED <<client, initialized, started, running, read,
                   notifs, asking, asked, clientCaps, declared, pushes, seen>>

(* ... a notification is dropped ... *)
Notification ==
    /\ Idle /\ notifs > 0
    /\ notifs' = notifs - 1
    /\ IF initialized THEN Write(<<"note">>) ELSE UNCHANGED <<loop, out>>
    /\ UNCHANGED <<client, gates, signal, asking, asked, clientCaps, declared, pushes, seen>>

(* ... and a question refused (RefusePendingServerReq). *)
ServerReq ==
    /\ Idle /\ asking # <<>>
    /\ asking' = Tail(asking)
    /\ IF initialized
       THEN Write(<<"ask", Head(asking)>>) /\ UNCHANGED asked
       ELSE asked' = [asked EXCEPT ![Head(asking)] = "refused"] /\ UNCHANGED <<loop, out>>
    /\ UNCHANGED <<client, gates, signal, notifs, clientCaps, declared, pushes, seen>>

Disconnected ==
    /\ Idle /\ hungUp /\ read = Len(sent)
    /\ End
    /\ UNCHANGED <<client, gates, registry, seen>>

(* What the frame says about the client is recorded before Start, which    *)
(* tells the upstreams; a re-initialize records it again.                  *)
Records(f) == (f.kind = "initialize" /\ ~f.modern) \/ (NeedsRegistry(f) /\ ~started)

(* The frame's own part: a call gets a goroutine, any other request an     *)
(* inline reply; an answer settles a question; the rest has no reply.      *)
Handle(i) ==
    LET f == sent[i] IN
    /\ read' = i
    /\ clientCaps' = IF Records(f) THEN f.able ELSE clientCaps
    /\ IF f.kind = "answer"
       THEN asked' = [q \in Questions |-> IF asked[q] = "shown" THEN "answered" ELSE asked[q]]
       ELSE UNCHANGED asked
    /\ running' = IF f.kind = "call" THEN running \cup {i} ELSE running
    /\ IF IsRequest(f) /\ f.kind # "call" THEN Write(<<"reply", i>>) ELSE Select
    /\ UNCHANGED <<client, initialized, pendingListChanged,
                   signal, notifs, asking, pushes, seen>>

(* A frame, if it does not need a registry that is not there yet. *)
Frame ==
    /\ Idle /\ read < Len(sent)
    /\ started \/ ~NeedsRegistry(sent[read + 1])
    /\ Handle(read + 1)
    /\ UNCHANGED <<started, declared>>

BeginStart ==
    /\ Idle /\ read < Len(sent)
    /\ ~started /\ NeedsRegistry(sent[read + 1])
    /\ loop' = "start"
    /\ clientCaps' = sent[read + 1].able
    /\ UNCHANGED <<client, out, gates, signal, notifs, asking, asked, declared, pushes, seen>>

(* Start returns with the upstreams up, and the frame goes on ... *)
Started ==
    /\ loop = "start"
    /\ started' = TRUE /\ declared' = clientCaps
    /\ Handle(read + 1)

(* ... or without any: an error is written and Serve returns. *)
StartFails ==
    /\ loop = "start"
    /\ Write(<<"failure">>)
    /\ read' = read + 1
    /\ UNCHANGED <<client, initialized, pendingListChanged, started, running, registry, seen>>

(* What the client now has. *)
Received(m) ==
    /\ replies' = IF m[1] = "reply" THEN [replies EXCEPT ![m[2]] = @ + 1]
                  ELSE IF m[1] = "failure" THEN [replies EXCEPT ![read] = @ + 1] ELSE replies
    /\ greeted' = (greeted \/ (m[1] = "reply" /\ sent[m[2]].kind = "initialize"))
    /\ early' = (early \/ (m[1] \in {"change", "note", "ask"} /\ ~greeted))
    /\ untold' = (untold /\ m[1] # "change")

(* The write returns; after an initialize reply the gate is open, and what *)
(* was kept for it is flushed.                                             *)
Written ==
    /\ loop = "write" /\ ~stalled
    /\ Received(out)
    /\ asked' = IF out[1] = "ask" THEN [asked EXCEPT ![out[2]] = "shown"] ELSE asked
    /\ LET opens == out[1] = "reply" /\ sent[out[2]].kind = "initialize"
       IN  /\ initialized' = (initialized \/ opens)
           /\ pendingListChanged' = (pendingListChanged /\ ~opens)
           /\ IF out[1] = "failure" THEN End
              ELSE IF opens /\ pendingListChanged THEN Write(<<"change">>)
              ELSE Select
    /\ UNCHANGED <<client, started, running, read, signal, notifs, asking, clientCaps, declared, pushes>>

(* writeOrBail: the write fails because the client is gone, or is given up *)
(* because the gateway is to stop.                                         *)
Bail ==
    /\ loop = "write" /\ (hungUp \/ ctx = "cancelled")
    /\ End
    /\ UNCHANGED <<client, gates, registry, seen>>

(* A call's goroutine writes its reply, through the same writer. *)
CallReplies(i) ==
    /\ i \in running /\ loop # "ended" /\ ~stalled
    /\ running' = running \ {i}
    /\ Received(<<"reply", i>>)
    /\ UNCHANGED <<client, loop, out, initialized, pendingListChanged, started, read, registry>>

-----------------------------------------------------------------------------
Loop ==
    \/ CtxDone \/ CatalogChanged \/ Notification \/ ServerReq \/ Disconnected
    \/ Frame \/ BeginStart \/ Started \/ StartFails \/ Written \/ Bail

Next ==
    \/ \E f \in ClientFrames : Send(f)
    \/ HangUp \/ Stall \/ Terminate
    \/ ChangeCatalog \/ Forward \/ Ask
    \/ Loop
    \/ \E i \in Frames : CallReplies(i)

(* Calls return (Calls, EveryCallEnds), and a select that is ready again   *)
(* and again takes every branch in the end: it picks one at random.        *)
Fairness ==
    /\ WF_vars(Loop)
    /\ SF_vars(CtxDone) /\ SF_vars(CatalogChanged) /\ SF_vars(ServerReq)
    /\ SF_vars(Frame \/ BeginStart)
    /\ \A i \in Frames : WF_vars(CallReplies(i))

Safety == Init /\ [][Next]_vars

Spec == Safety /\ Fairness

-----------------------------------------------------------------------------
Silent(f) == f.kind \in {"ping", "notification", "answer"} \/ (f.kind = "other" /\ f.modern)
Handshake == {i \in 1 .. Len(sent) : /\ sent[i].kind = "initialize" /\ ~sent[i].modern
                                     /\ \A j \in 1 .. i - 1 : Silent(sent[j])}

(* Nothing is pushed to a client before its handshake, nobody is replied   *)
(* to twice, and what the upstreams are told is what the handshake says,   *)
(* whatever pings, notifications and unknown methods came before it        *)
(* (Serve's lazy start).                                                   *)
HandshakeFirst ==
    /\ ~early
    /\ \A i \in Frames : replies[i] <= 1
    /\ started => \A i \in Handshake : declared = sent[i].able

(* As long as it serves a client that reads, it comes round to having      *)
(* answered every request, shown or refused every question and told an     *)
(* initialized client of the last change; and once it is to stop it does,  *)
(* whoever has stopped reading (writeOrBail).                              *)
NothingOwed ==
    /\ \A i \in Frames : read >= i /\ IsRequest(sent[i]) => replies[i] = 1
    /\ \A q \in Questions : asked[q] # "queued"
    /\ ~(greeted /\ untold)
Serves == []<>(loop = "ended" \/ (ctx = "live" /\ (stalled \/ NothingOwed)))
=============================================================================
