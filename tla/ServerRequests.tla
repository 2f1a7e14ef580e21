--------------------------- MODULE ServerRequests ---------------------------
(***************************************************************************)
(* The server->client request pipeline of the registry (serverreq.go): an  *)
(* upstream asks the client something in the middle of a call, the gateway *)
(* parks the question under an id of its own, publishes it to the client   *)
(* transport, and routes the answer, or a refusal, back.                   *)
(*                                                                         *)
(* Three parties race to finish a parked request: the client's answer, the *)
(* deadline timer and a transport giving up.  A fourth, the connection's   *)
(* removal or replacement, forgets it.  All of them meet at the pending    *)
(* map, and the response then looks its connection up BY NAME, in a later  *)
(* step, while supervisors and reloads change what that name denotes.      *)
(*                                                                         *)
(* A connection (an Upstream pointer) is a member of Conns, so identity is *)
(* equality; an upstream's own request ids restart with every connection.  *)
(* Methods, params and texts are abstracted: every request is of a method  *)
(* with a plain spec entry (elicitation, sampling); roots/list is in       *)
(* RootsFlight.  Connections are stdio children.                           *)
(***************************************************************************)
EXTENDS Naturals, Sequences

CONSTANTS
    Names,      \* configured upstreams
    Conns,      \* connections that may ever be launched
    NameOf,     \* the upstream each connection belongs to
    Ids,        \* an upstream's own JSON-RPC request ids
    SubBuf,     \* capacity of the transport's channel (notifSubBuffer)
    NoConn      \* the nil Upstream

ASSUME NameOfAssumption == NameOf \in [Conns -> Names]
ASSUME SubBufAssumption == SubBuf \in Nat \ {0}
ASSUME NoConnAssumption == NoConn \notin Conns

Requests == Conns \X Ids

Asker(r) == r[1]
Upstream(r) == NameOf[r[1]]

VARIABLES
    conns,      \* r.conns: the installed connection of each name
    status,     \* each connection's process and reader
    launching,  \* launched, neither installed nor discarded yet
    strays,     \* ... by a supervisor that a reload has retired meanwhile
    retiring,   \* connections a reload is closing, to drop them next
    served,     \* history: ever installed
    dropsDue,   \* <<c, why>>: dropPendingServerReqs calls still to run
    declared,   \* r.clientCaps holds the capability
    phase       \* progress of Registry.Close

VARIABLES
    asked,      \* requests the reader goroutines have read
    minted,     \* the gateway ids so far: id g stands for request minted[g]
    pending,    \* r.pendingServerReqs (gateway ids)
    armed,      \* ids whose deadline timer is running
    fired,      \* ids whose deadline callback has started
    queue,      \* the subscriber's channel
    shown       \* ids the client has received

VARIABLES
    refusing,   \* requests their own reader is turning down at once
    taken,      \* parked requests somebody took, connection not looked up yet
    writing,    \* <<request, connection>>: write goroutines under way
    wire,       \* <<request, connection>>: responses written
    answers     \* history: how many responses were decided on per request

lifeVars == <<conns, status, launching, strays, retiring, served, dropsDue, phase>>
parkVars == <<asked, minted, pending, armed, fired, queue, shown>>
respVars == <<refusing, taken, writing, wire, answers>>
vars == <<lifeVars, declared, parkVars, respVars>>

Gids == 1 .. Len(minted)

Init ==
    /\ conns = [n \in Names |-> NoConn]
    /\ status = [c \in Conns |-> "unborn"]
    /\ launching = {} /\ strays = {} /\ retiring = {}
    /\ served = {}
    /\ dropsDue = {}
    /\ declared \in BOOLEAN
    /\ phase = "running"
    /\ asked = {}
    /\ minted = <<>>
    /\ pending = {}
    /\ armed = {}
    /\ fired = {}
    /\ queue = <<>>
    /\ shown = {}
    /\ refusing = {}
    /\ taken = {}
    /\ writing = {}
    /\ wire = {}
    /\ answers = [r \in Requests |-> 0]

-----------------------------------------------------------------------------
(* Connections come and go. *)

(* MUTANT of Launch: nobody waits for the installed connection's exit. *)
LaunchEarly(c) ==
    /\ phase = "running"
    /\ status[c] = "unborn"
    /\ status' = [status EXCEPT ![c] = "live"]
    /\ launching' = launching \cup {c}
    /\ UNCHANGED <<conns, strays, retiring, served, dropsDue, phase, declared, parkVars, respVars>>

(* launch: the child and its reader run from here on, long before the      *)
(* connection is installed.  Start and Reload launch under a name that has *)
(* no entry, after their own drop; a supervisor while its dead connection  *)
(* is still installed, after the drop that followed its last restart.      *)
(* Drops owed by anybody else may be outstanding.                          *)
Launch(c) ==
    LET n == NameOf[c] IN
    /\ phase = "running"
    /\ status[c] = "unborn"
    /\ \A d \in launching \cup retiring : NameOf[d] # n
    /\ \/ conns[n] = NoConn /\ \A d \in Conns : NameOf[d] = n => <<d, "removed">> \notin dropsDue
       \/ conns[n] # NoConn /\ status[conns[n]] = "down" /\ <<conns[n], "installed">> \notin dropsDue
    /\ status' = [status EXCEPT ![c] = "live"]
    /\ launching' = launching \cup {c}
    /\ UNCHANGED <<conns, strays, retiring, served, dropsDue, phase, declared, parkVars, respVars>>

(* merge by Start or Reload: the name is empty, nothing is dropped. *)
Merge(c) ==
    LET n == NameOf[c] IN
    /\ phase = "running"
    /\ c \in launching /\ status[c] # "failing"
    /\ conns[n] = NoConn
    /\ conns' = [conns EXCEPT ![n] = c]
    /\ launching' = launching \ {c}
    /\ served' = served \cup {c}
    /\ UNCHANGED <<status, strays, retiring, dropsDue, phase, declared, parkVars, respVars>>

(* MUTANT of Replace: the predecessor's requests are not dropped. *)
ReplaceKeepingRequests(c) ==
    LET n == NameOf[c] IN
    /\ phase = "running"
    /\ c \in launching /\ status[c] # "failing"
    /\ conns[n] # NoConn
    /\ conns' = [conns EXCEPT ![n] = c]
    /\ launching' = launching \ {c}
    /\ served' = served \cup {c}
    /\ UNCHANGED <<status, strays, retiring, dropsDue, phase, declared, parkVars, respVars>>

(* replaceUpstreamIfLive: the restarted child takes over its dead          *)
(* predecessor's entry under r.mu, unless the supervisor was retired; the  *)
(* drop by name runs after the unlock.                                     *)
Replace(c) ==
    LET n == NameOf[c] IN
    /\ phase = "running"
    /\ c \in launching /\ status[c] # "failing"
    /\ conns[n] # NoConn
    /\ conns' = [conns EXCEPT ![n] = c]
    /\ launching' = launching \ {c}
    /\ served' = served \cup {c}
    /\ dropsDue' = dropsDue \cup {<<c, "installed">>}
    /\ UNCHANGED <<status, strays, retiring, phase, declared, parkVars, respVars>>

(* A launch that failed after the child started, or came too late for a    *)
(* retired supervisor or for Close, closes its connection and waits for it *)
(* to exit before it goes on.                                              *)
Discard(c) ==
    /\ c \in launching \cup strays
    /\ \/ /\ status[c] = "live"
          /\ status' = [status EXCEPT ![c] = "failing"]
          /\ UNCHANGED <<launching, strays>>
       \/ /\ status[c] = "down"
          /\ launching' = launching \ {c}
          /\ strays' = strays \ {c}
          /\ UNCHANGED status
    /\ UNCHANGED <<conns, retiring, served, dropsDue, phase, declared, parkVars, respVars>>

(* retireAndClose: the supervisor is retired, in mid-launch perhaps, and   *)
(* the connection closed.  Close sets the closed flag, which fails every   *)
(* later respond, and waits for the reader, which reads on until it exits. *)
Retire(c) ==
    /\ phase = "running"
    /\ conns[NameOf[c]] = c
    /\ c \notin retiring
    /\ retiring' = retiring \cup {c}
    /\ launching' = {d \in launching : NameOf[d] # NameOf[c]}
    /\ strays' = strays \cup (launching \ launching')
    /\ status' = [status EXCEPT ![c] = IF @ = "live" THEN "closing" ELSE @]
    /\ UNCHANGED <<conns, served, dropsDue, phase, declared, parkVars, respVars>>

(* dropUpstream, once retireAndClose has returned. *)
DropUpstream(c) ==
    /\ c \in retiring
    /\ status[c] = "down"
    /\ conns' = [conns EXCEPT ![NameOf[c]] = NoConn]
    /\ retiring' = retiring \ {c}
    /\ dropsDue' = dropsDue \cup {<<c, "removed">>}
    /\ UNCHANGED <<status, launching, strays, served, phase, declared, parkVars, respVars>>

(* dropUpstreamIfCurrent, when the dead connection's supervisor gives up.  *)
DropUpstreamIfCurrent(c) ==
    /\ phase \in {"running", "stopping"}
    /\ conns[NameOf[c]] = c
    /\ status[c] = "down"
    /\ \A d \in launching : NameOf[d] # NameOf[c]
    /\ <<c, "installed">> \notin dropsDue
    /\ conns' = [conns EXCEPT ![NameOf[c]] = NoConn]
    /\ dropsDue' = dropsDue \cup {<<c, "gaveUp">>}
    /\ UNCHANGED <<status, launching, strays, retiring, served, phase, declared, parkVars, respVars>>

(* dropPendingServerReqs(name): forgets what is parked under the NAME, in  *)
(* a step of its own after the entry has changed hands; the timers are     *)
(* stopped afterwards (StopTimer).                                         *)
DropPending(o) ==
    /\ o \in dropsDue
    /\ dropsDue' = dropsDue \ {o}
    /\ pending' = {g \in pending : Upstream(minted[g]) # NameOf[o[1]]}
    /\ UNCHANGED <<conns, status, launching, strays, retiring, served, phase, declared,
                   asked, minted, armed, fired, queue, shown, respVars>>

(* The reader turns requests down itself, one after the other. *)
ReaderIdle(c) == \A r \in refusing : Asker(r) # c

(* The child exits, by itself or because it was told to; the reader has    *)
(* dealt with everything it read and closes done.                          *)
Exit(c) ==
    /\ status[c] \in {"live", "closing", "failing"}
    /\ ReaderIdle(c)
    /\ status' = [status EXCEPT ![c] = "down"]
    /\ launching' = {d \in launching : d # c \/ status[c] # "failing"}
    /\ strays' = {d \in strays : d # c \/ status[c] # "failing"}
    /\ UNCHANGED <<conns, retiring, served, dropsDue, phase, declared, parkVars, respVars>>

-----------------------------------------------------------------------------
(* A request comes in: onUpstreamRequest, on the connection's reader.      *)

Reads(r) ==
    /\ status[Asker(r)] \in {"live", "closing", "failing"}
    /\ ReaderIdle(Asker(r))
    /\ r \notin asked
    /\ asked' = asked \cup {r}

(* spec.refuse: the reader decides the response and goes on to look up the *)
(* connection it will be written to.                                       *)
Refuse(r) ==
    /\ refusing' = refusing \cup {r}
    /\ answers' = [answers EXCEPT ![r] = @ + 1]
    /\ UNCHANGED <<taken, writing, wire>>

(* The capability was not declared: refused at once, nothing is minted. *)
AskUndeclared(r) ==
    /\ Reads(r)
    /\ ~declared
    /\ Refuse(r)
    /\ UNCHANGED <<lifeVars, declared, minted, pending, armed, fired, queue, shown>>

(* MUTANT of Publish: the id counter is not advanced. *)
PublishUnminted(r) ==
    LET g == Len(minted) + 1 IN
    /\ Reads(r)
    /\ declared
    /\ Len(queue) < SubBuf
    /\ pending' = pending \cup {g}
    /\ armed' = armed \cup {g}
    /\ queue' = Append(queue, g)
    /\ UNCHANGED <<lifeVars, declared, minted, fired, shown, respVars>>

(* publishServerReq: under one hold of serverReqMu the timer is armed, the *)
(* entry parked and the request sent to the channel.                       *)
Publish(r) ==
    LET g == Len(minted) + 1 IN
    /\ Reads(r)
    /\ declared
    /\ Len(queue) < SubBuf
    /\ minted' = Append(minted, r)
    /\ pending' = pending \cup {g}
    /\ armed' = armed \cup {g}
    /\ queue' = Append(queue, g)
    /\ UNCHANGED <<lifeVars, declared, fired, shown, respVars>>

(* MUTANT of PublishFails: rolled back, and nobody told. *)
PublishFailsSilently(r) ==
    /\ Reads(r)
    /\ declared
    /\ Len(queue) >= SubBuf
    /\ minted' = Append(minted, r)
    /\ UNCHANGED <<lifeVars, declared, pending, armed, fired, queue, shown, respVars>>

(* The channel is full: rolled back under the same hold, then refused. *)
PublishFails(r) ==
    /\ Reads(r)
    /\ declared
    /\ Len(queue) >= SubBuf
    /\ minted' = Append(minted, r)
    /\ Refuse(r)
    /\ UNCHANGED <<lifeVars, declared, pending, armed, fired, queue, shown>>

-----------------------------------------------------------------------------
(* The parties that finish a parked request. *)

(* MUTANT of Take: responds without looking whether the entry is there. *)
TakeUnchecked(g) ==
    /\ pending' = pending \ {g}
    /\ taken' = taken \cup {minted[g]}
    /\ answers' = [answers EXCEPT ![minted[g]] = @ + 1]
    /\ UNCHANGED <<refusing, writing, wire>>

(* takePendingServerReq, the arbiter: whoever removes the entry responds. *)
Take(g) ==
    /\ g \in pending
    /\ pending' = pending \ {g}
    /\ taken' = taken \cup {minted[g]}
    /\ answers' = [answers EXCEPT ![minted[g]] = @ + 1]
    /\ UNCHANGED <<refusing, writing, wire>>

(* The transport's loop hands the head of its channel to the client. *)
Show ==
    /\ queue # <<>>
    /\ shown' = shown \cup {Head(queue)}
    /\ queue' = Tail(queue)
    /\ UNCHANGED <<lifeVars, declared, asked, minted, pending, armed, fired, respVars>>

(* RefusePendingServerReq from a transport that cannot deliver the request *)
(* (no initialized client or no eligible session takes it).                *)
GiveUp ==
    /\ queue # <<>>
    /\ LET g == Head(queue) IN
       IF g \in pending THEN Take(g) ELSE UNCHANGED <<pending, respVars>>
    /\ queue' = Tail(queue)
    /\ UNCHANGED <<lifeVars, declared, asked, minted, armed, fired, shown>>

(* ... or whose session or stream ends after the client was shown it. *)
Abandon(g) ==
    /\ g \in shown
    /\ Take(g)
    /\ UNCHANGED <<lifeVars, declared, asked, minted, armed, fired, queue, shown>>

(* RouteUpstreamResponse: a duplicate or late answer takes nothing. *)
ClientAnswer(g) ==
    /\ g \in shown
    /\ Take(g)
    /\ UNCHANGED <<lifeVars, declared, asked, minted, armed, fired, queue, shown>>

(* The deadline passes and the callback's goroutine starts ... *)
FireTimer(g) ==
    /\ g \in armed
    /\ armed' = armed \ {g}
    /\ fired' = fired \cup {g}
    /\ UNCHANGED <<lifeVars, declared, asked, minted, pending, queue, shown, respVars>>

(* MUTANT of Expire: the deadline removes the entry and sends nothing. *)
ExpireSilently(g) ==
    /\ g \in fired
    /\ fired' = fired \ {g}
    /\ pending' = pending \ {g}
    /\ UNCHANGED <<lifeVars, declared, asked, minted, armed, queue, shown, respVars>>

(* ... which refuses the request unless somebody else has finished it. *)
Expire(g) ==
    /\ g \in fired
    /\ fired' = fired \ {g}
    /\ IF g \in pending THEN Take(g) ELSE UNCHANGED <<pending, respVars>>
    /\ UNCHANGED <<lifeVars, declared, asked, minted, armed, queue, shown>>

(* MUTANT of StopTimer: a timer is stopped while its entry is parked. *)
StopAnyTimer(g) ==
    /\ g \in armed
    /\ armed' = armed \ {g}
    /\ UNCHANGED <<lifeVars, declared, asked, minted, pending, fired, queue, shown, respVars>>

(* Whoever removed an entry stops its timer after releasing serverReqMu. *)
StopTimer(g) ==
    /\ g \in armed \ pending
    /\ armed' = armed \ {g}
    /\ UNCHANGED <<lifeVars, declared, asked, minted, pending, fired, queue, shown, respVars>>

-----------------------------------------------------------------------------
(* The response travels: writeUpstreamResponse and RouteUpstreamResponse   *)
(* alike read r.conns[name] now, and write in a goroutine of its own.      *)

Lookup(r) ==
    LET c == conns[Upstream(r)] IN
    /\ r \in refusing \cup taken
    /\ \A g \in armed : minted[g] # r        \* the taker stopped the timer first
    /\ refusing' = refusing \ {r}
    /\ taken' = taken \ {r}
    /\ writing' = IF c = NoConn THEN writing ELSE writing \cup {<<r, c>>}
    /\ UNCHANGED <<lifeVars, declared, parkVars, wire, answers>>

(* respond: a closed connection reports ErrConnClosed, a dead pipe fails. *)
Write(r, c) ==
    /\ <<r, c>> \in writing
    /\ writing' = writing \ {<<r, c>>}
    /\ wire' = IF status[c] = "live" THEN wire \cup {<<r, c>>} ELSE wire
    /\ UNCHANGED <<lifeVars, declared, parkVars, refusing, taken, answers>>

-----------------------------------------------------------------------------
(* SetClientServerRequestCaps, on every (re-)initialize. *)
SetCaps ==
    /\ declared' = ~declared
    /\ UNCHANGED <<lifeVars, parkVars, respVars>>

(* Close, once no Start or Reload is under way (lifecycleMu): phaseClosing *)
(* and procCancel; no launch is installed after it.                        *)
BeginClose ==
    /\ phase = "running"
    /\ retiring = {}
    /\ \A c \in Conns : <<c, "removed">> \notin dropsDue
    /\ \A c \in launching : conns[NameOf[c]] # NoConn
    /\ phase' = "stopping"
    /\ UNCHANGED <<conns, status, launching, strays, retiring, served, dropsDue, declared,
                   parkVars, respVars>>

(* closeServerReqs, once supervisors.Wait has returned (every launch has   *)
(* been discarded, every drop has run): the map is swapped for an empty    *)
(* one; the timers are stopped after the unlock (StopTimer).               *)
CloseServerReqs ==
    /\ phase = "stopping"
    /\ launching \cup strays = {}
    /\ dropsDue = {}
    /\ pending' = {}
    /\ phase' = "drained"
    /\ UNCHANGED <<conns, status, launching, strays, retiring, served, dropsDue, declared,
                   asked, minted, armed, fired, queue, shown, respVars>>

(* The connections are unhooked under r.mu, then closed one by one. *)
CloseConns ==
    /\ phase = "drained"
    /\ phase' = "closed"
    /\ conns' = [n \in Names |-> NoConn]
    /\ status' = [c \in Conns |->
                    IF status[c] = "live" /\ conns[NameOf[c]] = c THEN "closing" ELSE status[c]]
    /\ UNCHANGED <<launching, strays, retiring, served, dropsDue, declared, parkVars, respVars>>

-----------------------------------------------------------------------------
Life ==
    \/ \E c \in Conns : Launch(c) \/ Merge(c) \/ Replace(c) \/ Discard(c)
    \/ \E c \in Conns : Retire(c) \/ DropUpstream(c) \/ DropUpstreamIfCurrent(c) \/ Exit(c)
    \/ \E o \in dropsDue : DropPending(o)
    \/ BeginClose \/ CloseServerReqs \/ CloseConns

Traffic ==
    \/ \E r \in Requests : AskUndeclared(r) \/ Publish(r) \/ PublishFails(r)
    \/ Show \/ GiveUp
    \/ \E g \in Gids : Abandon(g) \/ ClientAnswer(g)
    \/ \E g \in Gids : FireTimer(g) \/ Expire(g) \/ StopTimer(g)
    \/ \E r \in Requests : Lookup(r)
    \/ \E r \in Requests, c \in Conns : Write(r, c)

Next == Life \/ Traffic \/ SetCaps

(* Timers fire and their callbacks, the goroutine that took an entry and   *)
(* the one that owes a drop are scheduled.  Neither the client nor the     *)
(* child is trusted to do anything, nor a pipe write to return.            *)
Fairness ==
    /\ WF_vars(\E g \in Gids : FireTimer(g))
    /\ WF_vars(\E g \in Gids : Expire(g))
    /\ WF_vars(\E g \in Gids : StopTimer(g))
    /\ WF_vars(\E r \in Requests : Lookup(r))
    /\ WF_vars(\E o \in dropsDue : DropPending(o))

Safety == Init /\ [][Next]_vars

Spec == Safety /\ Fairness
-----------------------------------------------------------------------------
(* Properties *)

Parked(r)     == \E g \in pending : minted[g] = r
HandedTo(r,c) == <<r, c>> \in writing \cup wire

(* Every variable has its type; gateway ids in use have been minted. *)
TypeOK ==
    /\ conns \in [Names -> Conns \cup {NoConn}]
    /\ status \in [Conns -> {"unborn", "live", "closing", "failing", "down"}]
    /\ launching \subseteq Conns /\ strays \subseteq Conns
    /\ retiring \subseteq Conns /\ served \subseteq Conns
    /\ dropsDue \subseteq Conns \X {"installed", "removed", "gaveUp"}
    /\ declared \in BOOLEAN
    /\ phase \in {"running", "stopping", "drained", "closed"}
    /\ asked \subseteq Requests
    /\ minted \in Seq(Requests)
    /\ pending \subseteq Gids /\ armed \subseteq Gids /\ fired \subseteq Gids
    /\ queue \in Seq(Nat) /\ shown \subseteq Nat
    /\ refusing \subseteq Requests /\ taken \subseteq Requests
    /\ writing \subseteq Requests \X Conns /\ wire \subseteq Requests \X Conns
    /\ answers \in [Requests -> Nat]

(* takePendingServerReq's promise: the client, the deadline, the transport *)
(* and the immediate refusals never decide two responses to one request,   *)
(* and a request still parked has none.                                    *)
AtMostOneResponse ==
    \A r \in Requests :
        /\ answers[r] <= 1
        /\ Parked(r) => answers[r] = 0

(* publishServerReq's promise: a parked request always has a deadline that *)
(* will look at it, whatever races with arming, stopping and rolling back. *)
DeadlineCovers == pending \subseteq armed \cup fired

DropOwed(n) == \E o \in dropsDue : NameOf[o[1]] = n

(* dropPendingServerReqs' promise: once a connection that served its name  *)
(* is gone from r.conns and the drops owed for the name have run, nothing  *)
(* it asked is parked any more, although its reader went on reading until  *)
(* it exited and the drop is by name.                                      *)
NoStaleParked ==
    \A g \in pending :
        LET c == Asker(minted[g]) IN
        c \in served /\ conns[NameOf[c]] # c => DropOwed(NameOf[c]) \/ phase # "running"

(* A response goes to another connection than the asker's only under the   *)
(* asker's own name and only when the asker never served it (a launch that *)
(* is not installed) or one of the two is dead: the lookup by name never   *)
(* hands an installed upstream's answer to a live stranger.                *)
NoSplitDelivery ==
    \A r \in Requests, c \in Conns :
        HandedTo(r, c) =>
            /\ NameOf[c] = Upstream(r)
            /\ \/ c = Asker(r) \/ Asker(r) \notin served
               \/ status[Asker(r)] # "live" \/ status[c] = "down"

(* What a settled connection asked gets a response, and that response is   *)
(* handed to a writer on that very connection, unless the connection stops *)
(* or the gateway closes: no interleaving of answers, deadlines, drops and *)
(* replacements loses it.                                                  *)
Owed(r) == Parked(r) /\ conns[Upstream(r)] = Asker(r) /\ ~DropOwed(Upstream(r))

OwedReachesAsker ==
    \A r \in Requests :
        Owed(r) ~> \/ HandedTo(r, Asker(r))
                   \/ status[Asker(r)] # "live"
                   \/ phase # "running"

(* The pipeline implements RequestReply: every request's fate is settled   *)
(* exactly once, by a response or by its connection's removal, is never    *)
(* revised, and (the deadline) is settled eventually, even after Close.    *)
Fate == [r \in Requests |->
            IF r \notin asked THEN "unasked"
            ELSE IF Parked(r) THEN "waiting"
            ELSE IF answers[r] > 0 THEN "decided"
            ELSE "dropped"]

RR == INSTANCE RequestReply WITH fate <- Fate

RefinesRequestReply == RR!Spec

(* RouteUpstreamResponse: "routes the client's answer to a proxied         *)
(* server->client request back to the upstream that asked"; and            *)
(* replaceUpstreamIfLive: a predecessor's requests "can never be answered  *)
(* through the fresh connection (its id space is new)".                    *)
OnlyTheAskerIsAnswered ==
    \A r \in Requests, c \in Conns : <<r, c>> \in wire => c = Asker(r)
=============================================================================
