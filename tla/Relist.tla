------------------------------- MODULE Relist -------------------------------
(***************************************************************************)
(* How the catalog follows one upstream's tools/list_changed               *)
(* notifications (registry.go): a debounce timer per upstream name, whose  *)
(* expiries may overlap; a single-flight loop with a dirty mark that turns *)
(* the overlap harmless; the connection's identity as the gate of the      *)
(* write; the coalescing signal to the client; and, around them, launches, *)
(* crashes, reloads and Close.                                             *)
(*                                                                         *)
(* An upstream's tool list is its version, a counter of its changes; a     *)
(* connection starts from version 0.  stdout is one FIFO per connection,   *)
(* read by one reader: notifications and tools/list replies keep their     *)
(* order.  Only timers of this name are modelled: relistMu guards each     *)
(* name's state separately.                                                *)
(***************************************************************************)
EXTENDS Naturals, Sequences

CONSTANTS
    Conns,       \* connections launched under the name, one after the other
    Runners,     \* goroutines of debounce-timer expiries
    MaxVersion,  \* bound: changes of one connection's tool list
    Nobody       \* no connection, no runner, no version

ASSUME MaxVersionAssumption == MaxVersion \in Nat

Launcher == "launcher"          \* the goroutine inside launch
Late == "late"                  \* a call whose goroutine has stopped waiting
Askers == Runners \cup {Launcher}
Versions == 0 .. MaxVersion

ASSUME NobodyAssumption ==
    /\ Nobody \notin Conns \cup Askers \cup {Late} /\ Nobody \notin Versions
    /\ Launcher \notin Runners /\ Late \notin Runners

VARIABLES
    conn,       \* r.conns[name]
    catalog,    \* whose tools, and which version of them, the registry lists
    status,     \* each connection's process ("stray": see DropUpstream)
    actual,     \* each upstream's own version
    stdout,     \* what it has written and the reader has not read
    asks,       \* <<c, p>>: tools/list requests c has not replied to
    launch      \* the connection being launched and what launch has listed

VARIABLES
    entry,      \* relistTimers[name]: "none", "armed" or "expired"
    orphans,    \* running timers the map no longer holds
    running, dirty,     \* relistStates[name]
    pc, got,    \* each runner's position; the connection and version it holds
    signal,     \* the subscriber's channel of capacity 1
    owing,      \* catalog writes whose notifyCatalogChanged is still to come
    phase,      \* progress of Close
    serving     \* Start has returned: clients are served, reloads possible

VARIABLES       \* history
    heard,      \* highest version each connection announced while installed
    missed,     \* a re-list of the live connection failed since its last write
    unseen      \* the catalog changed since the client last drained a signal

worldVars == <<status, actual, stdout, asks>>
timerVars == <<entry, orphans>>
flightVars == <<running, dirty>>
runVars    == <<phase, serving>>
vars == <<conn, catalog, worldVars, launch, timerVars, flightVars, pc, got,
          signal, owing, runVars, heard, missed, unseen>>

None == [conn |-> Nobody, version |-> 0]

Init ==
    /\ conn = Nobody
    /\ catalog = None
    /\ status = [c \in Conns |-> "unborn"]
    /\ actual = [c \in Conns |-> 0]
    /\ stdout = [c \in Conns |-> <<>>]
    /\ asks = {}
    /\ launch = [conn |-> Nobody, listed |-> Nobody]
    /\ entry = "none"
    /\ orphans = 0
    /\ running = FALSE
    /\ dirty = FALSE
    /\ pc = [p \in Runners |-> "idle"]
    /\ got = [p \in Runners |-> None]
    /\ signal = FALSE
    /\ owing = 0
    /\ phase = "running"
    /\ serving = FALSE
    /\ heard = [c \in Conns |-> 0]
    /\ missed = FALSE
    /\ unseen = FALSE

Goto(p, label) == pc' = [pc EXCEPT ![p] = label]

(* A write to r.tools under r.mu, to be announced after the unlock.  No    *)
(* client has listed anything before Start returns.                        *)
WriteCatalog(c, v) ==
    /\ catalog' = [conn |-> c, version |-> v]
    /\ unseen' = serving

-----------------------------------------------------------------------------
(* The upstream: its tools change, and it says so; it answers tools/list.  *)

Runs(c) == status[c] \in {"live", "stray"}

Change(c) ==
    /\ Runs(c)
    /\ actual[c] < MaxVersion
    /\ actual' = [actual EXCEPT ![c] = @ + 1]
    /\ stdout' = [stdout EXCEPT ![c] = Append(@, [to |-> Nobody, version |-> actual[c] + 1])]
    /\ UNCHANGED <<conn, catalog, status, asks, launch, timerVars, flightVars, pc, got,
                   signal, owing, runVars, heard, missed, unseen>>

Reply(c, p) ==
    /\ Runs(c)
    /\ <<c, p>> \in asks
    /\ asks' = asks \ {<<c, p>>}
    /\ stdout' = [stdout EXCEPT ![c] = Append(@, [to |-> p, version |-> actual[c]])]
    /\ UNCHANGED <<conn, catalog, status, actual, launch, timerVars, flightVars, pc, got,
                   signal, owing, runVars, heard, missed, unseen>>

(* The process dies, or is closed by a reload: its waiters fail.  What it  *)
(* wrote last is lost here; reading it first is one of the behaviours.     *)
Exit(c) ==
    /\ Runs(c)
    /\ status' = [status EXCEPT ![c] = "down"]
    /\ stdout' = [stdout EXCEPT ![c] = <<>>]
    /\ asks' = {a \in asks : a[1] # c}
    /\ UNCHANGED <<conn, catalog, actual, launch, timerVars, flightVars, pc, got,
                   signal, owing, runVars, heard, missed, unseen>>

(* readLoop: a list_changed goes to onUpstreamNotification, which resets   *)
(* the name's timer if the map holds one, even one that has just expired,  *)
(* and creates one otherwise.                                              *)
ReadNotification(c) ==
    /\ stdout[c] # <<>>
    /\ Head(stdout[c]).to = Nobody
    /\ stdout' = [stdout EXCEPT ![c] = Tail(@)]
    /\ entry' = "armed"
    /\ heard' = IF conn = c THEN [heard EXCEPT ![c] = Head(stdout[c]).version] ELSE heard
    /\ UNCHANGED <<conn, catalog, status, actual, asks, launch, orphans, flightVars, pc, got,
                   signal, owing, runVars, missed, unseen>>

(* ... and a reply to the goroutine waiting for it, if it still does. *)
ReadReply(c) ==
    /\ stdout[c] # <<>>
    /\ LET m == Head(stdout[c]) IN
       \/ /\ m.to = Launcher
          /\ launch' = IF launch.conn = c THEN [launch EXCEPT !.listed = m.version] ELSE launch
          /\ UNCHANGED <<pc, got>>
       \/ /\ m.to \in Runners
          /\ IF pc[m.to] = "asking" /\ got[m.to].conn = c
             THEN /\ got' = [got EXCEPT ![m.to] = [conn |-> c, version |-> m.version]]
                  /\ Goto(m.to, "writing")
             ELSE UNCHANGED <<pc, got>>
          /\ UNCHANGED launch
       \/ m.to = Late /\ UNCHANGED <<launch, pc, got>>
    /\ stdout' = [stdout EXCEPT ![c] = Tail(@)]
    /\ UNCHANGED <<conn, catalog, status, actual, asks, timerVars, flightVars,
                   signal, owing, runVars, heard, missed, unseen>>

-----------------------------------------------------------------------------
(* Launch, install, drop. *)

(* launch up to its tools/list: the reader is live from the start.  Until  *)
(* Start returns there is its own launch, and those of the supervisor of   *)
(* what it has merged.                                                     *)
Launch(c) ==
    /\ phase = "running"
    /\ status[c] = "unborn"
    /\ serving \/ conn # Nobody \/ \A d \in Conns : status[d] = "unborn"
    /\ launch.conn = Nobody
    /\ \A d \in Conns : status[d] # "live"
    /\ status' = [status EXCEPT ![c] = "live"]
    /\ launch' = [conn |-> c, listed |-> Nobody]
    /\ asks' = asks \cup {<<c, Launcher>>}
    /\ UNCHANGED <<conn, catalog, actual, stdout, timerVars, flightVars, pc, got,
                   signal, owing, runVars, heard, missed, unseen>>

(* merge or replaceUpstreamIfLive, any time later: Start and Reload wait   *)
(* for all their launches before they merge the first one.  Start's merge, *)
(* into an empty name, is announced to nobody; a supervisor announces its  *)
(* own, a reload all it did when it is done.                               *)
Install ==
    /\ phase = "running"
    /\ launch.listed # Nobody
    /\ conn' = launch.conn
    /\ WriteCatalog(launch.conn, launch.listed)
    /\ owing' = IF serving \/ conn # Nobody THEN owing + 1 ELSE owing
    /\ launch' = [conn |-> Nobody, listed |-> Nobody]
    /\ missed' = FALSE
    /\ UNCHANGED <<worldVars, timerVars, flightVars, pc, got, signal, runVars, heard>>

(* Start returns, its launch merged or failed.  Clients reach the registry *)
(* from then on, and a reload or Close its lifecycleMu.                    *)
StartReturns ==
    /\ phase = "running"
    /\ ~serving
    /\ launch.conn = Nobody \/ conn # Nobody
    /\ serving' = TRUE
    /\ UNCHANGED <<conn, catalog, worldVars, launch, timerVars, flightVars, pc, got,
                   signal, owing, phase, heard, missed, unseen>>

(* The launch failed: its connection is closed. *)
Discard ==
    /\ launch.conn # Nobody
    /\ status[launch.conn] = "down"
    /\ launch' = [conn |-> Nobody, listed |-> Nobody]
    /\ UNCHANGED <<conn, catalog, worldVars, timerVars, flightVars, pc, got,
                   signal, owing, runVars, heard, missed, unseen>>

(* dropUpstream: a reload removed it, or its supervisor gave up.  A launch  *)
(* under way is then a retired supervisor's: it will not be installed, but *)
(* its child runs and is heard until the supervisor finds out.             *)
DropUpstream ==
    /\ phase = "running"
    /\ serving \/ launch.conn = Nobody      \* no reload before Start returns
    /\ conn # Nobody
    /\ status[conn] = "down"
    /\ conn' = Nobody
    /\ WriteCatalog(Nobody, 0)
    /\ owing' = owing + 1
    /\ launch' = [conn |-> Nobody, listed |-> Nobody]
    /\ status' = [c \in Conns |->
                    IF c = launch.conn /\ status[c] = "live" THEN "stray" ELSE status[c]]
    /\ UNCHANGED <<actual, stdout, asks, timerVars, flightVars, pc, got,
                   signal, runVars, heard, missed>>

-----------------------------------------------------------------------------
(* The debounce timer and its expiries. *)

(* A timer expires and its callback's goroutine starts. *)
Expire(p) ==
    /\ pc[p] = "idle"
    /\ \/ entry = "armed" /\ entry' = "expired" /\ UNCHANGED orphans
       \/ orphans > 0 /\ orphans' = orphans - 1 /\ UNCHANGED entry
    /\ Goto(p, "expired")
    /\ UNCHANGED <<conn, catalog, worldVars, launch, flightVars, got,
                   signal, owing, runVars, heard, missed, unseen>>

(* The callback deletes the name's entry, whatever timer it holds by now:  *)
(* one re-armed or created since then runs on, unknown to the map.         *)
Forget(p) ==
    /\ pc[p] = "expired"
    /\ entry' = "none"
    /\ orphans' = IF entry = "armed" THEN orphans + 1 ELSE orphans
    /\ Goto(p, "entering")
    /\ UNCHANGED <<conn, catalog, worldVars, launch, flightVars, got,
                   signal, owing, runVars, heard, missed, unseen>>

(* MUTANTS of Enter: no look at the running mark; no dirty mark left. *)
EnterAnyway(p) ==
    /\ pc[p] = "entering"
    /\ IF phase \in {"stopped", "closed"}
       THEN Goto(p, "idle") /\ UNCHANGED flightVars
       ELSE running' = TRUE /\ Goto(p, "relisting") /\ UNCHANGED dirty
    /\ UNCHANGED <<conn, catalog, worldVars, launch, timerVars, got,
                   signal, owing, runVars, heard, missed, unseen>>

EnterLeavingNoMark(p) ==
    /\ pc[p] = "entering"
    /\ IF running \/ phase \in {"stopped", "closed"}
       THEN Goto(p, "idle") /\ UNCHANGED flightVars
       ELSE running' = TRUE /\ Goto(p, "relisting") /\ UNCHANGED dirty
    /\ UNCHANGED <<conn, catalog, worldVars, launch, timerVars, got,
                   signal, owing, runVars, heard, missed, unseen>>

(* runRelist: turned away after Close, marked dirty while another one      *)
(* runs, else in flight.                                                   *)
Enter(p) ==
    /\ pc[p] = "entering"
    /\ \/ /\ phase \in {"stopped", "closed"}
          /\ Goto(p, "idle") /\ UNCHANGED flightVars
       \/ /\ phase \notin {"stopped", "closed"} /\ running
          /\ dirty' = TRUE
          /\ Goto(p, "idle") /\ UNCHANGED running
       \/ /\ phase \notin {"stopped", "closed"} /\ ~running
          /\ running' = TRUE
          /\ Goto(p, "relisting") /\ UNCHANGED dirty
    /\ UNCHANGED <<conn, catalog, worldVars, launch, timerVars, got,
                   signal, owing, runVars, heard, missed, unseen>>

(* relistUpstream: the connection is read under r.mu, then asked. *)
AskTools(p) ==
    /\ pc[p] = "relisting"
    /\ IF phase # "running" \/ conn = Nobody
       THEN Goto(p, "finishing") /\ UNCHANGED <<got, asks>>
       ELSE /\ got' = [got EXCEPT ![p] = [conn |-> conn, version |-> 0]]
            /\ asks' = IF status[conn] = "live" THEN asks \cup {<<conn, p>>} ELSE asks
            /\ Goto(p, "asking")
    /\ UNCHANGED <<conn, catalog, status, actual, stdout, launch, timerVars, flightVars,
                   signal, owing, runVars, heard, missed, unseen>>

(* The RPC fails: dead connection, call timeout, or procCtx cancelled.     *)
(* Nothing retries it.  A reply that comes later carries the id of a call  *)
(* nobody waits for, and the reader drops it.                              *)
RelistFails(p) ==
    LET c == got[p].conn IN
    /\ pc[p] = "asking"
    /\ Goto(p, "finishing")
    /\ asks' = asks \ {<<c, p>>}
    /\ stdout' = [stdout EXCEPT ![c] = [i \in DOMAIN @ |->
                                          IF @[i].to = p THEN [@[i] EXCEPT !.to = Late] ELSE @[i]]]
    /\ missed' = TRUE
    /\ UNCHANGED <<conn, catalog, status, actual, launch, timerVars, flightVars, got,
                   signal, owing, runVars, heard, unseen>>

(* MUTANTS of WriteResult: written under the name whatever connection is   *)
(* installed by now; or written and not announced.                         *)
WriteByName(p) ==
    /\ pc[p] = "writing"
    /\ WriteCatalog(got[p].conn, got[p].version)
    /\ missed' = FALSE
    /\ owing' = owing + 1
    /\ Goto(p, "finishing")
    /\ UNCHANGED <<conn, worldVars, launch, timerVars, flightVars, got, signal, runVars, heard>>

WriteSilently(p) ==
    /\ pc[p] = "writing"
    /\ IF conn = got[p].conn
       THEN WriteCatalog(conn, got[p].version) /\ missed' = FALSE
       ELSE UNCHANGED <<catalog, unseen, missed>>
    /\ Goto(p, "finishing")
    /\ UNCHANGED <<conn, worldVars, launch, timerVars, flightVars, got, signal, owing, runVars, heard>>

(* replaceUpstreamIfCurrent: the result is discarded unless the very       *)
(* connection it came from is still installed.                             *)
WriteResult(p) ==
    /\ pc[p] = "writing"
    /\ IF conn = got[p].conn
       THEN /\ WriteCatalog(conn, got[p].version)
            /\ missed' = FALSE
            /\ owing' = owing + 1
       ELSE UNCHANGED <<catalog, unseen, missed, owing>>
    /\ Goto(p, "finishing")
    /\ UNCHANGED <<conn, worldVars, launch, timerVars, flightVars, got, signal, runVars, heard>>

(* runRelist's loop: once more if an expiry landed meanwhile. *)
Finish(p) ==
    /\ pc[p] = "finishing"
    /\ IF dirty /\ phase = "running"
       THEN dirty' = FALSE /\ Goto(p, "relisting") /\ UNCHANGED running
       ELSE running' = FALSE /\ dirty' = FALSE /\ Goto(p, "idle")
    /\ UNCHANGED <<conn, catalog, worldVars, launch, timerVars, got,
                   signal, owing, runVars, heard, missed, unseen>>

-----------------------------------------------------------------------------
(* MUTANT of Notify: announces what was never written. *)
NotifyUnasked ==
    /\ owing' = owing - 1
    /\ signal' = TRUE
    /\ UNCHANGED <<conn, catalog, worldVars, launch, timerVars, flightVars, pc, got,
                   runVars, heard, missed, unseen>>

(* notifyCatalogChanged: a signal already queued absorbs this one. *)
Notify ==
    /\ owing > 0
    /\ owing' = owing - 1
    /\ signal' = TRUE
    /\ UNCHANGED <<conn, catalog, worldVars, launch, timerVars, flightVars, pc, got,
                   runVars, heard, missed, unseen>>

(* The client transport drains the signal; the client lists anew. *)
Drain ==
    /\ serving
    /\ signal
    /\ signal' = FALSE
    /\ unseen' = FALSE
    /\ UNCHANGED <<conn, catalog, worldVars, launch, timerVars, flightVars, pc, got,
                   owing, runVars, heard, missed>>

(* Close: procCancel; then relistClosed and the map's timers stopped; then *)
(* a bounded wait for the runners, and the connections unhooked.           *)
BeginClose ==
    /\ phase = "running"
    /\ serving
    /\ phase' = "cancelled"
    /\ UNCHANGED <<conn, catalog, worldVars, launch, timerVars, flightVars, pc, got,
                   signal, owing, serving, heard, missed, unseen>>

CloseRelist ==
    /\ phase = "cancelled"
    /\ phase' = "stopped"
    /\ entry' = "none"
    /\ UNCHANGED <<conn, catalog, worldVars, launch, orphans, flightVars, pc, got,
                   signal, owing, serving, heard, missed, unseen>>

CloseConns ==
    /\ phase = "stopped"
    /\ phase' = "closed"
    /\ conn' = Nobody
    /\ UNCHANGED <<catalog, worldVars, launch, timerVars, flightVars, pc, got,
                   signal, owing, serving, heard, missed, unseen>>

-----------------------------------------------------------------------------
Step(p) == Expire(p) \/ Forget(p) \/ Enter(p) \/ AskTools(p) \/ WriteResult(p) \/ Finish(p)

Next ==
    \/ \E c \in Conns : Change(c) \/ Exit(c) \/ Launch(c)
    \/ \E c \in Conns, p \in Askers : Reply(c, p)
    \/ \E c \in Conns : ReadNotification(c) \/ ReadReply(c)
    \/ Install \/ StartReturns \/ Discard \/ DropUpstream
    \/ \E p \in Runners : Step(p) \/ RelistFails(p)
    \/ Notify \/ Drain
    \/ BeginClose \/ CloseRelist \/ CloseConns

Safety == Init /\ [][Next]_vars

(* Readers, timers, runners and notifiers run; an RPC to a live upstream   *)
(* is answered or fails (the call timeout).                                *)
Fairness ==
    /\ \A c \in Conns : WF_vars(ReadNotification(c) \/ ReadReply(c))
    /\ \A p \in Runners : WF_vars(Forget(p) \/ Enter(p) \/ AskTools(p) \/ WriteResult(p) \/ Finish(p))
    /\ \A p \in Runners : WF_vars(RelistFails(p))
    /\ WF_vars(\E p \in Runners : Expire(p))
    /\ WF_vars(Notify)

Spec == Safety /\ Fairness

-----------------------------------------------------------------------------
(* Properties *)

Labels == {"idle", "expired", "entering", "relisting", "asking", "writing", "finishing"}
InFlight == {p \in Runners : pc[p] \in {"relisting", "asking", "writing", "finishing"}}

Messages == [to : Askers \cup {Nobody, Late}, version : Versions]

(* Every variable has its type. *)
TypeOK ==
    /\ conn \in Conns \cup {Nobody}
    /\ catalog \in [conn : Conns \cup {Nobody}, version : Versions]
    /\ status \in [Conns -> {"unborn", "live", "stray", "down"}]
    /\ actual \in [Conns -> Versions]
    /\ stdout \in [Conns -> Seq(Messages)]
    /\ asks \subseteq Conns \X Askers
    /\ launch \in [conn : Conns \cup {Nobody}, listed : Versions \cup {Nobody}]
    /\ entry \in {"none", "armed", "expired"} /\ orphans \in Nat
    /\ running \in BOOLEAN /\ dirty \in BOOLEAN
    /\ pc \in [Runners -> Labels]
    /\ got \in [Runners -> [conn : Conns \cup {Nobody}, version : Versions]]
    /\ signal \in BOOLEAN /\ owing \in Nat
    /\ phase \in {"running", "cancelled", "stopped", "closed"}
    /\ serving \in BOOLEAN
    /\ heard \in [Conns -> Versions]
    /\ missed \in BOOLEAN /\ unseen \in BOOLEAN

(* runRelist's promise: however the timer's expiries overlap, at most one  *)
(* goroutine is between reading the connection and finishing its re-list,  *)
(* and the running mark stands exactly while one is.                       *)
SingleFlight ==
    /\ \A p, q \in InFlight : p = q
    /\ running <=> InFlight # {}

(* ... so the listed version of one connection never goes back: "its       *)
(* result is the freshest and lands last".                                 *)
NeverOlder ==
    [][catalog'.conn = catalog.conn => catalog'.version >= catalog.version]_vars

(* replaceUpstreamIfCurrent's promise: whatever was replaced, dropped or   *)
(* closed while an RPC was in flight, what is written to the catalog is of *)
(* the connection installed at that moment, and nothing after Close.       *)
WritesAreCurrent ==
    [][catalog' # catalog => catalog'.conn = conn' /\ phase' # "closed"]_vars

(* No catalog change stays unannounced: until the client has drained a     *)
(* signal sent after it, one is queued or about to be, though signals      *)
(* coalesce and are sent after the lock is released.                       *)
NoSilentChange == unseen => signal \/ owing > 0

(* What an installed connection announced gets listed, unless the          *)
(* connection goes, a tools/list RPC fails or the gateway closes.          *)
HeardGetsListed ==
    \A c \in Conns, v \in Versions :
        conn = c /\ heard[c] = v ~>
            \/ catalog.conn = c /\ catalog.version >= v
            \/ conn # c \/ missed \/ phase # "running"

(* launch: the callback is "set before any reader goroutine starts and a   *)
(* list_changed arriving immediately is not missed": once nothing is in    *)
(* flight, the catalog lists the upstream's own version.                   *)
QuietMeansFresh ==
    (/\ phase = "running" /\ conn # Nobody /\ ~missed
     /\ status[conn] = "live" /\ stdout[conn] = <<>>
     /\ entry = "none" /\ orphans = 0 /\ \A p \in Runners : pc[p] = "idle")
        => catalog.version = actual[conn]
=============================================================================
