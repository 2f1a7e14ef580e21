------------------------------ MODULE Lifecycle -----------------------------
(***************************************************************************)
(* Who launches, watches, replaces and closes the child processes          *)
(* (registry.go): Start, Reload and Close, which exclude each other under  *)
(* lifecycleMu, and one supervisor per stdio upstream, which does not take *)
(* it.                                                                     *)
(*                                                                         *)
(* Start and Reload work on a batch: a row for every upstream they launch  *)
(* or retire, each with a goroutine of its own (the removed ones first),   *)
(* and a sequential merge of the results at the end.  A child is a number, *)
(* a supervisor the number of the child it was started for.                *)
(***************************************************************************)
EXTENDS Naturals, Sequences, FiniteSets, FiniteSetsExt

CONSTANTS
    Names,          \* upstream names
    Order,          \* the order in which every configuration lists them
    Configs,        \* the configurations given one after the other: each name's launch
                    \* settings, 0 for disabled or absent, and whether restarts are on
    MaxAttempts,    \* restart.max_attempts, 0 for no limit
    MaxChildren     \* bound: children started in one behaviour

ASSUME ConfigsAssumption ==
    /\ Configs \in Seq([launch : [Names -> Nat], restart : BOOLEAN])
    /\ Configs # <<>>
ASSUME OrderAssumption ==
    Order \in Seq(Names) /\ \A n \in Names : \E i \in DOMAIN Order : Order[i] = n
ASSUME BoundsAssumption == MaxAttempts \in Nat /\ MaxChildren \in Nat

VARIABLES
    phase,      \* r.phase, and how Close goes on: "new", "running", "closing", "joined", "closed"
    holder,     \* who holds lifecycleMu: "nobody", "start", "reload", "close"
    cfg,        \* the configuration in force
    conns,      \* r.conns: the child installed under each name, 0 for none
    child,      \* each child started so far: its name, launch setting and state
    batch,      \* what the holder still has to do for each name
    sup,        \* the supervisors
    supCancel,  \* r.supCancel: the supervisor watching each name, 0 for none
    called      \* which of Start and Close have been called

vars == <<phase, holder, cfg, conns, child, batch, sup, supCancel, called>>

Children == 1 .. MaxChildren
NoRow == [stage |-> "none", kind |-> "none", child |-> 0]
NoSup == [pc |-> "none", name |-> "none", launch |-> 0, child |-> 0, fresh |-> 0,
          attempt |-> 0, cancelled |-> FALSE]

Stages == {"none", "retire", "close", "drop", "launch", "handshake", "launched", "failed"}
Kinds == {"none", "removed", "changed", "added"}
Positions == {"none", "watch", "decide", "backoff", "launching", "install", "done"}

Types ==
    /\ phase \in {"new", "running", "closing", "joined", "closed"}
    /\ holder \in {"nobody", "start", "reload", "close"}
    /\ cfg \in 1 .. Len(Configs)
    /\ child \in Seq([name : Names, launch : Nat \ {0}, state : {"up", "dead", "reaped"}])
    /\ Len(child) <= MaxChildren
    /\ conns \in [Names -> 0 .. MaxChildren]
    /\ batch \in [Names -> [stage : Stages, kind : Kinds, child : 0 .. MaxChildren]]
    /\ sup \in [Children -> [pc : Positions, name : Names \cup {"none"}, launch : Nat,
                             child : 0 .. MaxChildren, fresh : 0 .. MaxChildren,
                             attempt : 0 .. MaxAttempts + 1, cancelled : BOOLEAN]]
    /\ supCancel \in [Names -> 0 .. MaxChildren]
    /\ called \subseteq {"start", "close"}

(* No child is referred to that has not been started. *)
ChildrenExist ==
    /\ \A n \in Names : conns[n] <= Len(child) /\ batch[n].child <= Len(child)
    /\ \A s \in Children : sup[s].child <= Len(child) /\ sup[s].fresh <= Len(child)

(* Every variable has its type. *)
TypeOK == Types /\ ChildrenExist

Init ==
    /\ phase = "new" /\ holder = "nobody" /\ cfg = 1
    /\ conns = [n \in Names |-> 0]
    /\ child = <<>>
    /\ batch = [n \in Names |-> NoRow]
    /\ sup = [s \in Children |-> NoSup]
    /\ supCancel = [n \in Names |-> 0]
    /\ called = {}

Setting(k, n) == Configs[k].launch[n]
Enabled(k)    == {n \in Names : Setting(k, n) # 0}

Live          == {n \in Names : conns[n] # 0}
State(c)      == child[c].state
Busy(stages)  == {n \in Names : batch[n].stage \in stages}

(* procCancel: Close cancels the context every child runs under and every  *)
(* supervisor's context derives from.                                      *)
ProcCancelled == phase \in {"closing", "joined", "closed"}
Retired(s)    == sup[s].cancelled \/ ProcCancelled

Born(n, launch)  == Append(child, [name |-> n, launch |-> launch, state |-> "up"])
Reap(c)          == child' = [child EXCEPT ![c].state = "reaped"]
Row(n, fields)   == batch' = [batch EXCEPT ![n] = fields]

-----------------------------------------------------------------------------
(* Start and Reload. *)

BeginStart ==
    /\ holder = "nobody" /\ phase = "new" /\ "start" \notin called
    /\ holder' = "start" /\ called' = called \cup {"start"}
    /\ batch' = [n \in Names |->
                    IF n \in Enabled(cfg) THEN [NoRow EXCEPT !.stage = "launch", !.kind = "added"] ELSE NoRow]
    /\ UNCHANGED <<phase, cfg, conns, child, sup, supCancel>>

(* Reload under lifecycleMu, with Start done and Close not begun: swap the *)
(* configuration, then diff the new one against what is live now.          *)
BeginReload ==
    LET new == cfg + 1
        kind(n) ==
            CASE n \in Live \ Enabled(new)        -> "removed"
              [] n \in Enabled(new) \ Live        -> "added"
              [] n \in Enabled(new) \cap Enabled(cfg) /\ Setting(new, n) # Setting(cfg, n) -> "changed"
              [] OTHER                            -> "none"
    IN
    /\ holder = "nobody" /\ phase = "running"
    /\ cfg < Len(Configs)
    /\ holder' = "reload" /\ cfg' = new
    /\ batch' = [n \in Names |->
                    [NoRow EXCEPT !.kind = kind(n),
                                  !.stage = CASE kind(n) = "none"  -> "none"
                                              [] kind(n) = "added" -> "launch"
                                              [] OTHER             -> "retire"]]
    /\ UNCHANGED <<phase, conns, child, sup, supCancel, called>>

(* The removed upstreams go first, one after the other; the goroutines of  *)
(* the changed and added ones start once they are gone.                    *)
Removing(n) == batch[n].kind = "removed" /\ batch[n].stage \in {"close", "drop"}
MayWork(n) ==
    IF batch[n].kind = "removed"
    THEN \A m \in Names \ {n} : ~Removing(m)
    ELSE \A m \in Names : batch[m].kind # "removed" \/ batch[m].stage = "none"

(* retireAndClose: retire the supervisor, read the connection ... *)
Retire(n) ==
    /\ batch[n].stage = "retire" /\ MayWork(n)
    /\ sup' = IF supCancel[n] = 0 THEN sup ELSE [sup EXCEPT ![supCancel[n]].cancelled = TRUE]
    /\ supCancel' = [supCancel EXCEPT ![n] = 0]
    /\ Row(n, [batch[n] EXCEPT !.stage = "close", !.child = conns[n]])
    /\ UNCHANGED <<phase, holder, cfg, conns, child, called>>

(* ... and close it, if there is one (the wait for the process included). *)
CloseOld(n) ==
    /\ batch[n].stage = "close"
    /\ IF batch[n].child = 0 THEN UNCHANGED child ELSE Reap(batch[n].child)
    /\ Row(n, [batch[n] EXCEPT !.stage = "drop", !.child = 0])
    /\ UNCHANGED <<phase, holder, cfg, conns, sup, supCancel, called>>

(* dropUpstream. *)
Drop(n) ==
    /\ batch[n].stage = "drop"
    /\ conns' = [conns EXCEPT ![n] = 0]
    /\ Row(n, [batch[n] EXCEPT !.stage = IF batch[n].kind = "removed" THEN "none" ELSE "launch"])
    /\ UNCHANGED <<phase, holder, cfg, child, sup, supCancel, called>>

(* launch by a row's goroutine: the child runs from here on ... *)
Spawn(n) ==
    /\ batch[n].stage = "launch" /\ MayWork(n)
    /\ \/ /\ Len(child) < MaxChildren
          /\ child' = Born(n, Setting(cfg, n))
          /\ Row(n, [batch[n] EXCEPT !.stage = "handshake", !.child = Len(child) + 1])
       \/ /\ Row(n, [batch[n] EXCEPT !.stage = "failed"])
          /\ UNCHANGED child
    /\ UNCHANGED <<phase, holder, cfg, conns, sup, supCancel, called>>

(* ... and the handshake succeeds, or fails and closes it. *)
Handshake(n) ==
    /\ batch[n].stage = "handshake"
    /\ \/ /\ State(batch[n].child) = "up"
          /\ Row(n, [batch[n] EXCEPT !.stage = "launched"])
          /\ UNCHANGED child
       \/ /\ Reap(batch[n].child)
          /\ Row(n, [batch[n] EXCEPT !.stage = "failed", !.child = 0])
    /\ UNCHANGED <<phase, holder, cfg, conns, sup, supCancel, called>>

(* The merge waits for every goroutine and goes by kind, then by order. *)
Rank(n) ==
    (CHOOSE i \in DOMAIN Order : Order[i] = n) + IF batch[n].kind = "changed" THEN 0 ELSE Len(Order)
Results == Busy({"launched", "failed"})
IsNext(n) ==
    /\ n \in Results
    /\ Busy({"retire", "close", "drop", "launch", "handshake"}) = {}
    /\ \A m \in Results : Rank(n) <= Rank(m)

(* superviseUpstream, unless the policy disables restarts. *)
Supervise(n, c) ==
    IF Configs[cfg].restart
    THEN /\ sup' = [s \in Children |->
                        IF s = c THEN [NoSup EXCEPT !.pc = "watch", !.name = n, !.child = c,
                                                    !.launch = child[c].launch]
                        ELSE IF s = supCancel[n] THEN [sup[s] EXCEPT !.cancelled = TRUE]
                        ELSE sup[s]]
         /\ supCancel' = [supCancel EXCEPT ![n] = c]
    ELSE UNCHANGED <<sup, supCancel>>

Merge(n) ==
    /\ IsNext(n)
    /\ Row(n, NoRow)
    /\ IF batch[n].stage = "launched"
       THEN /\ conns' = [conns EXCEPT ![n] = batch[n].child]
            /\ Supervise(n, batch[n].child)
       ELSE UNCHANGED <<conns, sup, supCancel>>
    /\ UNCHANGED <<phase, holder, cfg, child, called>>

(* Start fails without a single upstream; Reload does not. *)
Finish ==
    /\ holder \in {"start", "reload"}
    /\ Busy({"retire", "close", "drop", "launch", "handshake", "launched", "failed"}) = {}
    /\ holder' = "nobody"
    /\ phase' = IF holder = "start" /\ Live # {} THEN "running" ELSE phase
    /\ batch' = [n \in Names |-> NoRow]
    /\ UNCHANGED <<cfg, conns, child, sup, supCancel, called>>

-----------------------------------------------------------------------------
(* Supervisors. *)

Crash(c) ==
    /\ c \in DOMAIN child /\ State(c) = "up"
    /\ child' = [child EXCEPT ![c].state = "dead"]
    /\ UNCHANGED <<phase, holder, cfg, conns, batch, sup, supCancel, called>>

At(s, pc)    == sup' = [sup EXCEPT ![s].pc = pc]

(* supervise: a crash is reaped and answered by the restart loop; whoever  *)
(* was retired, or whose child died of the shutdown, leaves.               *)
Watch(s) ==
    /\ sup[s].pc = "watch"
    /\ \/ Retired(s) /\ At(s, "done") /\ UNCHANGED child
       \/ /\ ~Retired(s) /\ State(sup[s].child) # "up"
          /\ Reap(sup[s].child)
          /\ sup' = [sup EXCEPT ![s].pc = "decide", ![s].attempt = 1]
    /\ UNCHANGED <<phase, holder, cfg, conns, batch, supCancel, called>>

GivesUp(s) == ~Configs[cfg].restart \/ (MaxAttempts # 0 /\ sup[s].attempt > MaxAttempts)

(* MUTANT of Decide: the drop waits for lifecycleMu. *)
DecideLocking(s) ==
    /\ sup[s].pc = "decide"
    /\ IF GivesUp(s)
       THEN /\ holder = "nobody"
            /\ At(s, "done")
            /\ conns' = [conns EXCEPT ![sup[s].name] = IF @ = sup[s].child THEN 0 ELSE @]
       ELSE At(s, "backoff") /\ UNCHANGED conns
    /\ UNCHANGED <<phase, holder, cfg, child, batch, supCancel, called>>

(* restart at the head of its loop reads the policy in force.  Giving up   *)
(* drops the dead connection (dropUpstreamIfCurrent) under r.mu alone.     *)
Decide(s) ==
    /\ sup[s].pc = "decide"
    /\ IF GivesUp(s)
       THEN /\ At(s, "done")
            /\ conns' = [conns EXCEPT ![sup[s].name] = IF @ = sup[s].child THEN 0 ELSE @]
       ELSE At(s, "backoff") /\ UNCHANGED conns
    /\ UNCHANGED <<phase, holder, cfg, child, batch, supCancel, called>>

(* The backoff ends by its timer or by retirement; launch runs under       *)
(* procCtx, so that a reload cannot call it off.                           *)
Backoff(s) ==
    /\ sup[s].pc = "backoff"
    /\ \/ Retired(s) /\ At(s, "done") /\ UNCHANGED child
       \/ /\ Len(child) < MaxChildren /\ ~ProcCancelled
          /\ child' = Born(sup[s].name, sup[s].launch)
          /\ sup' = [sup EXCEPT ![s].pc = "launching", ![s].fresh = Len(child) + 1]
       \/ /\ sup' = [sup EXCEPT ![s].pc = "decide", ![s].attempt = Min({@ + 1, MaxAttempts + 1})]
          /\ UNCHANGED child
    /\ UNCHANGED <<phase, holder, cfg, conns, batch, supCancel, called>>

Launching(s) ==
    /\ sup[s].pc = "launching"
    /\ \/ /\ State(sup[s].fresh) = "up" /\ ~ProcCancelled
          /\ At(s, "install") /\ UNCHANGED child
       \/ /\ Reap(sup[s].fresh)
          /\ sup' = [sup EXCEPT ![s].pc = "decide", ![s].fresh = 0,
                                ![s].attempt = Min({@ + 1, MaxAttempts + 1})]
    /\ UNCHANGED <<phase, holder, cfg, conns, batch, supCancel, called>>

(* MUTANT of Install: the retirement is not looked at under r.mu. *)
InstallUnchecked(s) ==
    /\ sup[s].pc = "install"
    /\ conns' = [conns EXCEPT ![sup[s].name] = sup[s].fresh]
    /\ sup' = [sup EXCEPT ![s].pc = "watch", ![s].child = sup[s].fresh, ![s].fresh = 0]
    /\ UNCHANGED <<phase, holder, cfg, child, batch, supCancel, called>>

(* replaceUpstreamIfLive: one hold of r.mu for the check and the write; a  *)
(* relaunch that comes too late is closed again.                           *)
Install(s) ==
    /\ sup[s].pc = "install"
    /\ IF Retired(s)
       THEN /\ Reap(sup[s].fresh)
            /\ sup' = [sup EXCEPT ![s].pc = "done", ![s].fresh = 0]
            /\ UNCHANGED conns
       ELSE /\ conns' = [conns EXCEPT ![sup[s].name] = sup[s].fresh]
            /\ sup' = [sup EXCEPT ![s].pc = "watch", ![s].child = sup[s].fresh, ![s].fresh = 0]
            /\ UNCHANGED child
    /\ UNCHANGED <<phase, holder, cfg, batch, supCancel, called>>

-----------------------------------------------------------------------------
(* Close. *)

CallClose ==
    /\ "close" \notin called
    /\ called' = called \cup {"close"}
    /\ UNCHANGED <<phase, holder, cfg, conns, child, batch, sup, supCancel>>

BeginClose ==
    /\ "close" \in called /\ holder = "nobody" /\ phase \in {"new", "running"}
    /\ holder' = "close" /\ phase' = "closing"
    /\ UNCHANGED <<cfg, conns, child, batch, sup, supCancel, called>>

(* supervisors.Wait. *)
JoinSupervisors ==
    /\ phase = "closing"
    /\ \A s \in Children : sup[s].pc \in {"none", "done"}
    /\ phase' = "joined"
    /\ supCancel' = [n \in Names |-> 0]
    /\ UNCHANGED <<holder, cfg, conns, child, batch, sup, called>>

(* The rest of Close: take the connections out and close each. *)
CloseConns ==
    /\ phase = "joined"
    /\ phase' = "closed" /\ holder' = "nobody"
    /\ conns' = [n \in Names |-> 0]
    /\ child' = [c \in DOMAIN child |->
                    IF \E n \in Names : conns[n] = c THEN [child[c] EXCEPT !.state = "reaped"] ELSE child[c]]
    /\ UNCHANGED <<cfg, batch, sup, supCancel, called>>

-----------------------------------------------------------------------------
Work(n) == Retire(n) \/ CloseOld(n) \/ Drop(n) \/ Spawn(n) \/ Handshake(n) \/ Merge(n)
Step(s) == Watch(s) \/ Decide(s) \/ Backoff(s) \/ Launching(s) \/ Install(s)
Next ==
    \/ BeginStart \/ BeginReload \/ Finish
    \/ \E n \in Names : Work(n)
    \/ \E s \in Children : Step(s)
    \/ \E c \in Children : Crash(c)
    \/ CallClose \/ BeginClose \/ JoinSupervisors \/ CloseConns

Safety == Init /\ [][Next]_vars

(* Goroutines run; a launch is bounded by the call timeout and a close by  *)
(* the kill that follows the grace period; lifecycleMu is handed on.       *)
Fairness ==
    /\ \A n \in Names : WF_vars(Work(n))
    /\ \A s \in Children : WF_vars(Step(s))
    /\ WF_vars(Finish) /\ WF_vars(BeginClose) /\ WF_vars(JoinSupervisors) /\ WF_vars(CloseConns)

Spec == Safety /\ Fairness

-----------------------------------------------------------------------------
(* Every child that has not been reaped is in somebody's hands: installed, *)
(* in a row of the batch, or being relaunched.  None is left over when a   *)
(* reload, a retired supervisor and Close overlap.                         *)
NoOrphanChild ==
    \A c \in DOMAIN child : State(c) # "reaped" =>
        \/ \E n \in Names : conns[n] = c \/ batch[n].child = c
        \/ \E s \in Children : sup[s].fresh = c

(* Between reloads every installed upstream is enabled and was launched    *)
(* as the configuration in force says, whatever was being restarted while  *)
(* it changed.                                                             *)
RunsAsConfigured ==
    holder = "nobody" => \A n \in Live : child[conns[n]].launch = Setting(cfg, n)

(* Both together: no child process is left over, and none runs on an old   *)
(* configuration, when restarts, reloads and Close overlap (registry.go).  *)
ChildrenAreAccounted == NoOrphanChild /\ RunsAsConfigured

(* Close returns, whatever was being launched, restarted or given up.      *)
CloseReturns == []<>("close" \in called => phase = "closed")
=============================================================================
