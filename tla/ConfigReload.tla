---------------------------- MODULE ConfigReload ----------------------------
(***************************************************************************)
(* How an edit of the config file reaches a running gateway                *)
(* (cli/serve.go): the stamp taken before the first load, the polling      *)
(* watcher with its change detector, the SIGHUP watcher beside it, and the *)
(* registry that may not have started yet.                                 *)
(*                                                                         *)
(* The file's k-th save has the stamp k: two saves within one tick of the  *)
(* file system's clock and of the same length are left out, as             *)
(* configStamp's comment does.  0 is the stamp of a missing file.          *)
(***************************************************************************)
EXTENDS Naturals, FiniteSetsExt

CONSTANTS
    MaxSaves,       \* bound: saves of the file, the one it starts with included
    MaxSignals,     \* bound: SIGHUPs
    MaxRetries      \* retryReload's maxAttempts (10 in the code)

VARIABLES
    contents,   \* what the k-th save says: "good", "empty" (no upstreams), "broken"
    saves,      \* saves made so far
    present,    \* whether the file is there
    boot,       \* runServe: "stat", "load", "serving", "failed"
    registry,   \* r.phase: "new", "running", "closing"
    inForce,    \* the save whose configuration runs
    judged,     \* the saves that were read and given a final verdict
    det,        \* configChangeDetector: 0 stands for no pending and no firing stamp
    poll,       \* pollConfig: what it is about to do, with which loaded save
    hup,        \* a signal waits in the channel
    sig,        \* watchReload: the same, with the retries made
    signals     \* SIGHUPs sent

fileVars == <<contents, saves, present>>
vars == <<fileVars, boot, registry, inForce, judged, det, poll, hup, sig, signals>>

Saves == 1 .. MaxSaves
Kinds == {"good", "empty", "broken"}

TypeOK ==
    /\ contents \in [Saves -> Kinds] /\ saves \in Saves /\ present \in BOOLEAN
    /\ boot \in {"stat", "load", "serving", "failed"}
    /\ registry \in {"new", "running", "closing"}
    /\ inForce \in 0 .. saves /\ judged \subseteq 1 .. saves
    /\ det \in [applied : 0 .. saves, pending : 0 .. saves, firing : 0 .. saves]
    /\ poll \in [pc : {"wait", "load", "reload"}, loaded : 0 .. saves]
    /\ hup \in BOOLEAN /\ signals \in 0 .. MaxSignals
    /\ sig \in [pc : {"wait", "reload", "retry"}, loaded : 0 .. saves, tries : 0 .. MaxRetries]

Init ==
    /\ contents \in [Saves -> Kinds] /\ saves = 1 /\ present = TRUE
    /\ boot = "stat" /\ registry = "new"
    /\ inForce = 0 /\ judged = {}
    /\ det = [applied |-> 0, pending |-> 0, firing |-> 0]
    /\ poll = [pc |-> "wait", loaded |-> 0]
    /\ hup = FALSE /\ signals = 0
    /\ sig = [pc |-> "wait", loaded |-> 0, tries |-> 0]

-----------------------------------------------------------------------------
(* The operator and the system. *)

(* A save; one that truncates and then fills the file is two of them. *)
Save ==
    /\ saves < MaxSaves
    /\ saves' = saves + 1 /\ present' = TRUE
    /\ UNCHANGED <<contents, boot, registry, inForce, judged, det, poll, hup, sig, signals>>

(* The first half of a save that renames the old file away. *)
MoveAway ==
    /\ present /\ saves < MaxSaves
    /\ present' = FALSE
    /\ UNCHANGED <<contents, saves, boot, registry, inForce, judged, det, poll, hup, sig, signals>>

(* SIGHUP: the channel holds one, further ones are dropped. *)
Hangup ==
    /\ boot = "serving" /\ signals < MaxSignals
    /\ signals' = signals + 1 /\ hup' = TRUE
    /\ UNCHANGED <<fileVars, boot, registry, inForce, judged, det, poll, sig>>

(* The transport brings the registry up, on a client's first request that  *)
(* needs it, and shuts it down.                                            *)
StartRegistry ==
    /\ boot = "serving" /\ registry = "new"
    /\ registry' = "running"
    /\ UNCHANGED <<fileVars, boot, inForce, judged, det, poll, hup, sig, signals>>

CloseRegistry ==
    /\ boot = "serving" /\ registry # "closing"
    /\ registry' = "closing"
    /\ UNCHANGED <<fileVars, boot, inForce, judged, det, poll, hup, sig, signals>>

-----------------------------------------------------------------------------
(* Boot. *)

Stat     == IF present THEN saves ELSE 0
Readable == present /\ contents[saves] # "broken"

(* statConfig in runServe, before the load. *)
StatBase ==
    /\ boot = "stat"
    /\ boot' = "load"
    /\ det' = [det EXCEPT !.applied = Stat]
    /\ UNCHANGED <<fileVars, registry, inForce, judged, poll, hup, sig, signals>>

(* config.Load, which accepts an empty configuration. *)
FirstLoad ==
    /\ boot = "load"
    /\ IF Readable
       THEN boot' = "serving" /\ inForce' = saves /\ judged' = {saves}
       ELSE boot' = "failed" /\ UNCHANGED <<inForce, judged>>
    /\ UNCHANGED <<fileVars, registry, det, poll, hup, sig, signals>>

-----------------------------------------------------------------------------
(* The polling watcher. *)

(* configChangeDetector.observe: a new stamp must be seen twice in a row;  *)
(* one that was tried and is not settled is tried again.                   *)
Observe(d, s) ==
    CASE s = 0                      -> [d EXCEPT !.pending = 0, !.firing = 0]
      [] s # 0 /\ s = d.firing      -> d
      [] s = d.applied /\ s # d.firing -> [d EXCEPT !.pending = 0, !.firing = 0]
      [] s = d.pending /\ s \notin {0, d.applied, d.firing} -> [d EXCEPT !.pending = 0, !.firing = s]
      [] OTHER                      -> [d EXCEPT !.pending = s, !.firing = 0]

Fires(d, s) == s # 0 /\ Observe(d, s).firing = s

(* settle, after a final outcome. *)
Settle(d) == IF d.firing = 0 THEN d ELSE [d EXCEPT !.applied = d.firing, !.firing = 0]

Tick ==
    /\ boot = "serving" /\ poll.pc = "wait"
    /\ det' = Observe(det, Stat)
    /\ poll' = [poll EXCEPT !.pc = IF Fires(det, Stat) THEN "load" ELSE "wait"]
    /\ UNCHANGED <<fileVars, boot, registry, inForce, judged, hup, sig, signals>>

(* applyReload reads the file again: what does not parse, and a            *)
(* configuration without upstreams (vetReloadConfig), is refused for good. *)
Verdict(s) == judged' = IF s = 0 THEN judged ELSE judged \cup {s}
Applicable == Readable /\ contents[saves] = "good"

PollLoad ==
    /\ poll.pc = "load"
    /\ IF Applicable
       THEN poll' = [pc |-> "reload", loaded |-> saves] /\ UNCHANGED <<det, judged>>
       ELSE poll' = [pc |-> "wait", loaded |-> 0] /\ det' = Settle(det) /\ Verdict(Stat)
    /\ UNCHANGED <<fileVars, boot, registry, inForce, hup, sig, signals>>

(* MUTANT of PollReload: an attempt that came too early is settled too. *)
PollReloadGivingUp ==
    /\ poll.pc = "reload"
    /\ poll' = [pc |-> "wait", loaded |-> 0]
    /\ det' = Settle(det)
    /\ IF registry = "new" THEN UNCHANGED judged ELSE Verdict(poll.loaded)
    /\ inForce' = IF registry = "running" THEN poll.loaded ELSE inForce
    /\ UNCHANGED <<fileVars, boot, registry, hup, sig, signals>>

(* Registry.Reload: ErrNotStarted defers, everything else is final. *)
PollReload ==
    /\ poll.pc = "reload"
    /\ poll' = [pc |-> "wait", loaded |-> 0]
    /\ IF registry = "new" THEN UNCHANGED <<det, judged>>
                           ELSE det' = Settle(det) /\ Verdict(poll.loaded)
    /\ inForce' = IF registry = "running" THEN poll.loaded ELSE inForce
    /\ UNCHANGED <<fileVars, boot, registry, hup, sig, signals>>

-----------------------------------------------------------------------------
(* The SIGHUP watcher. *)

SigIdle == [pc |-> "wait", loaded |-> 0, tries |-> 0]

SigLoad ==
    /\ boot = "serving" /\ hup /\ sig.pc = "wait"
    /\ hup' = FALSE
    /\ IF Applicable
       THEN sig' = [SigIdle EXCEPT !.pc = "reload", !.loaded = saves] /\ UNCHANGED judged
       ELSE Verdict(Stat) /\ UNCHANGED sig
    /\ UNCHANGED <<fileVars, boot, registry, inForce, det, poll, signals>>

(* Reload with what was loaded: before Start it is retried, the same       *)
(* configuration each time, and dropped when the retries are used up.      *)
SigReload ==
    /\ sig.pc \in {"reload", "retry"}
    /\ IF registry = "new"
       THEN /\ sig' = IF sig.tries = MaxRetries THEN SigIdle
                      ELSE [sig EXCEPT !.pc = "retry", !.tries = @ + 1]
            /\ UNCHANGED <<inForce, judged>>
       ELSE /\ sig' = SigIdle
            /\ Verdict(sig.loaded)
            /\ inForce' = IF registry = "running" THEN sig.loaded ELSE inForce
    /\ UNCHANGED <<fileVars, boot, registry, det, poll, hup, signals>>

-----------------------------------------------------------------------------
Booting  == StatBase \/ FirstLoad
Polling  == Tick \/ PollLoad \/ PollReload
Signalled == SigLoad \/ SigReload
Next ==
    \/ Save \/ MoveAway \/ Hangup \/ StartRegistry \/ CloseRegistry
    \/ Booting \/ Polling \/ Signalled

(* Goroutines run and the ticker ticks; whether anybody saves, signals or  *)
(* asks for anything is open.                                              *)
Safety == Init /\ [][Next]_vars

Spec == Safety /\ WF_vars(Booting) /\ WF_vars(Polling) /\ WF_vars(Signalled)

-----------------------------------------------------------------------------
Running(k) == boot = "serving" /\ registry = "running" /\ present /\ saves = k

(* Once the gateway runs, the file as it is now is read and judged, or     *)
(* replaced first: no edit is lost to the load at boot, to a half-written  *)
(* file or to an attempt that came before Start (pollConfig).              *)
EditIsJudged == []<>(Running(saves) => saves \in judged)
=============================================================================
