------------------------------ MODULE Journal ------------------------------
(***************************************************************************)
(* The operators' journal: events that are throttled on their way to it    *)
(* (registry/events.go), the call records beside them, the log that        *)
(* appends lines to a file until it is closed (logging/logging.go), and    *)
(* `mcp-gate logs --follow', which reads the file while it grows or is     *)
(* truncated under it (cli/logs.go).                                       *)
(*                                                                         *)
(* The occurrences of an event are numbered, and a count is the set of     *)
(* those it counts.  A line is known by its place among all lines written, *)
(* and is two bytes long: its text and its newline.                        *)
(***************************************************************************)
EXTENDS Naturals, SequencesExt, FiniteSetsExt

CONSTANTS
    Keys,           \* throttled events: event, upstream and subject
    Call,           \* stands for the call records, which are not throttled
    Threads,        \* the goroutines that report
    Wanted,         \* recordFilter: the kinds --follow is asked to show
    LastOnly,       \* --tail, 0 for everything
    MaxNotes,       \* bound: occurrences of anything
    MaxTruncations  \* bound: truncations of the file

VARIABLES
    noted,      \* history: how often each has occurred
    fresh,      \* keys whose last line is younger than eventThrottleWindow
    held,       \* eventSeen[k].suppressed
    emitting,   \* [thread or Closer -> the line it is to write, or none]
    flushing,   \* lines flushEvents has taken
    closing,    \* "no", "flushing", "flushed", "closed"
    busy,       \* who is in the middle of an append, jsonLog.mu
    lines,      \* history: every line written, as [kind, of]
    file,       \* the file: <<line, "text">>, <<line, "newline">>, ...
    lost,       \* history: occurrences counted in lines given to the closed log
    truncations,
    shown,      \* history: what follow has printed
    follow      \* its state, and in start how many lines it began with

reporting == <<noted, fresh, held, emitting, flushing, closing, busy, lines, lost>>
vars == <<reporting, file, truncations, shown, follow>>

Kinds   == Keys \cup {Call}
Closer  == "Closer"
Writers == Threads \cup {Closer}
NoLine  == [kind |-> Call, of |-> {}]
Lines   == [kind : Kinds, of : SUBSET Nat]
Bytes   == (1 .. Len(lines)) \X {"text", "newline"}

TypeOK ==
    /\ noted \in [Kinds -> Nat] /\ lost \in [Kinds -> SUBSET Nat]
    /\ fresh \subseteq Keys /\ held \in [Keys -> SUBSET Nat]
    /\ emitting \in [Writers -> Lines] /\ flushing \subseteq Lines
    /\ closing \in {"no", "flushing", "flushed", "closed"}
    /\ busy \in Writers \cup {"nobody"}
    /\ lines \in Seq(Lines)
    /\ file \in Seq(Bytes)
    /\ truncations \in 0 .. MaxTruncations
    /\ shown \in Seq(1 .. Len(lines))
    /\ follow \in [pc : {"off", "wait", "read"}, offset : Nat, size : Nat, start : Nat,
                   pending : Seq(Bytes)]

Init ==
    /\ noted = [k \in Kinds |-> 0] /\ lost = [k \in Kinds |-> {}]
    /\ fresh = {} /\ held = [k \in Keys |-> {}]
    /\ emitting = [t \in Writers |-> NoLine] /\ flushing = {}
    /\ closing = "no" /\ busy = "nobody"
    /\ lines = <<>> /\ file = <<>> /\ truncations = 0
    /\ shown = <<>>
    /\ follow = [pc |-> "off", offset |-> 0, size |-> 0, start |-> 0, pending |-> <<>>]

-----------------------------------------------------------------------------
(* Reporting. *)

Line(k, S) == [kind |-> k, of |-> S]
Idle(t)    == emitting[t] = NoLine
New(k, n)  == noted[k] + 1 .. noted[k] + n
Occurs(k, n) ==
    /\ MapThenSumSet(LAMBDA j : noted[j], Kinds) + n <= MaxNotes
    /\ noted' = [noted EXCEPT ![k] = @ + n]

(* noteThrottled, up to its unlock: inside the window the n occurrences    *)
(* are only counted, the next ones after it carry what was counted.        *)
NoteThrottled(t, k, n) ==
    /\ Idle(t) /\ Occurs(k, n)
    /\ IF k \in fresh
       THEN /\ held' = [held EXCEPT ![k] = @ \cup New(k, n)]
            /\ UNCHANGED <<fresh, emitting>>
       ELSE /\ emitting' = [emitting EXCEPT ![t] = Line(k, held[k] \cup New(k, n))]
            /\ held' = [held EXCEPT ![k] = {}]
            /\ fresh' = fresh \cup {k}
    /\ UNCHANGED <<flushing, closing, busy, lines, lost, file, truncations, shown, follow>>

(* eventThrottleWindow has passed since the key's last line. *)
WindowPasses(k) ==
    /\ k \in fresh
    /\ fresh' = fresh \ {k}
    /\ UNCHANGED <<noted, held, emitting, flushing, closing, busy, lines, lost, file, truncations, shown, follow>>

(* audit: a record of a call. *)
Audit(t) ==
    /\ Idle(t) /\ Occurs(Call, 1)
    /\ emitting' = [emitting EXCEPT ![t] = Line(Call, New(Call, 1))]
    /\ UNCHANGED <<fresh, held, flushing, closing, busy, lines, lost, file, truncations, shown, follow>>

(* MUTANT of FlushEvents: what it takes stays counted. *)
FlushEventsTwice ==
    /\ closing = "no"
    /\ closing' = "flushing"
    /\ flushing' = {Line(k, held[k]) : k \in {k \in Keys : held[k] # {}}}
    /\ UNCHANGED <<noted, fresh, held, emitting, busy, lines, lost, file, truncations, shown, follow>>

(* flushEvents, first thing in Close: the remainders, under eventMu ... *)
FlushEvents ==
    /\ closing = "no"
    /\ closing' = "flushing"
    /\ flushing' = {Line(k, held[k]) : k \in {k \in Keys : held[k] # {}}}
    /\ held' = [k \in Keys |-> {}]
    /\ UNCHANGED <<noted, fresh, emitting, busy, lines, lost, file, truncations, shown, follow>>

(* ... and one line after the other outside it. *)
FlushNext(l) ==
    /\ closing = "flushing" /\ Idle(Closer) /\ l \in flushing
    /\ flushing' = flushing \ {l}
    /\ emitting' = [emitting EXCEPT ![Closer] = l]
    /\ UNCHANGED <<noted, fresh, held, closing, busy, lines, lost, file, truncations, shown, follow>>

Flushed ==
    /\ closing = "flushing" /\ Idle(Closer) /\ flushing = {}
    /\ closing' = "flushed"
    /\ UNCHANGED <<noted, fresh, held, emitting, flushing, busy, lines, lost, file, truncations, shown, follow>>

-----------------------------------------------------------------------------
(* The log. *)

(* writeLine: dropped if the log is closed, appended otherwise ... *)
WriteLine(t) ==
    /\ ~Idle(t) /\ busy = "nobody"
    /\ IF closing = "closed"
       THEN /\ lost' = [lost EXCEPT ![emitting[t].kind] = @ \cup emitting[t].of]
            /\ emitting' = [emitting EXCEPT ![t] = NoLine]
            /\ UNCHANGED <<busy, lines, file>>
       ELSE /\ lines' = Append(lines, emitting[t])
            /\ file' = Append(file, <<Len(lines'), "text">>)
            /\ busy' = t
            /\ UNCHANGED <<lost, emitting>>
    /\ UNCHANGED <<noted, fresh, held, flushing, closing, truncations, shown, follow>>

(* ... of which a reader may see the first part alone. *)
LineWritten(t) ==
    /\ busy = t
    /\ file' = Append(file, <<Len(lines), "newline">>)
    /\ busy' = "nobody"
    /\ emitting' = [emitting EXCEPT ![t] = NoLine]
    /\ UNCHANGED <<noted, fresh, held, flushing, closing, lines, lost, truncations, shown, follow>>

(* Close, deferred by runServe until the registry's has returned; the      *)
(* goroutines that report are not waited for.                              *)
CloseLog ==
    /\ closing = "flushed" /\ busy = "nobody"
    /\ closing' = "closed"
    /\ UNCHANGED <<noted, fresh, held, emitting, flushing, busy, lines, lost, file, truncations, shown, follow>>

(* An external tool empties the file; the log goes on appending to it. *)
Truncate ==
    /\ busy = "nobody" /\ file # <<>> /\ truncations < MaxTruncations
    /\ truncations' = truncations + 1
    /\ file' = <<>>
    /\ UNCHANGED <<reporting, shown, follow>>

-----------------------------------------------------------------------------
(* The reader. *)

(* Up to and including the last newline, and what is left. *)
Cut(bytes) == Max({0} \cup {i \in DOMAIN bytes : bytes[i][2] = "newline"})

Whole(bytes, i) == bytes[i][2] = "newline" /\ i > 1 /\ bytes[i - 1] = <<bytes[i][1], "text">>
Broken(bytes, i) == bytes[i][2] = "newline" /\ ~Whole(bytes, i)

(* The numbers of a set in their order, and what a sequence has there. *)
InOrder(P) == CHOOSE p \in [1 .. Cardinality(P) -> P] :
                  \A i, j \in 1 .. Cardinality(P) : i < j => p[i] < p[j]
Select(s, P) == [i \in 1 .. Cardinality(P) |-> s[InOrder(P)[i]]]

(* ReadEntries: a line that does not decode is skipped, with or without    *)
(* what follows it in the same read.                                       *)
Decoded(bytes, resyncs) ==
    {i \in DOMAIN bytes : Whole(bytes, i) /\ (resyncs \/ \A j \in 1 .. i : ~Broken(bytes, j))}
ReadEntries(bytes, resyncs) ==
    Select([i \in DOMAIN bytes |-> bytes[i][1]], Decoded(bytes, resyncs))

(* filterEntries *)
Matching(ns) == Select(ns, {i \in DOMAIN ns : lines[ns[i]].kind \in Wanted})
LastOf(ns)   == IF LastOnly > 0 /\ Len(ns) > LastOnly
                THEN SubSeq(ns, Len(ns) - LastOnly + 1, Len(ns)) ELSE ns

(* The lines whose newline has been written. *)
Complete == IF busy = "nobody" THEN Len(lines) ELSE Len(lines) - 1

(* runLogsFollow: one read of the whole file, from whose end it follows. *)
Snapshot ==
    /\ follow.pc = "off"
    /\ LET cut == Cut(file) IN
       /\ shown' = LastOf(Matching(ReadEntries(SubSeq(file, 1, cut), TRUE)))
       /\ follow' = [pc |-> "wait", offset |-> Len(file), size |-> 0, start |-> Complete,
                     pending |-> SubSeq(file, cut + 1, Len(file))]
    /\ UNCHANGED <<reporting, file, truncations>>

(* followLog: the size first; a file that shrank is a new one ... *)
Poll ==
    /\ follow.pc = "wait" /\ Len(file) # follow.offset
    /\ follow' = IF Len(file) < follow.offset
                 THEN [follow EXCEPT !.pc = "read", !.size = Len(file), !.offset = 0, !.pending = <<>>]
                 ELSE [follow EXCEPT !.pc = "read", !.size = Len(file)]
    /\ UNCHANGED <<reporting, file, truncations, shown>>

(* ... then what is between the offset and that size (readFileRange),      *)
(* which may be less by now; complete lines are printed.                   *)
ReadRange(resyncs) ==
    /\ follow.pc = "read"
    /\ LET chunk == SubSeq(file, follow.offset + 1, Min({follow.size, Len(file)}))
           bytes == follow.pending \o chunk
           cut   == Cut(bytes)
       IN  /\ shown' = shown \o Matching(ReadEntries(SubSeq(bytes, 1, cut), resyncs))
           /\ follow' = [follow EXCEPT !.pc = "wait", !.offset = @ + Len(chunk),
                                       !.pending = SubSeq(bytes, cut + 1, Len(bytes))]
    /\ UNCHANGED <<reporting, file, truncations>>

(* The read fails: the next poll looks again. *)
ReadFails ==
    /\ follow.pc = "read"
    /\ follow' = [follow EXCEPT !.pc = "wait"]
    /\ UNCHANGED <<reporting, file, truncations, shown>>

-----------------------------------------------------------------------------
Next ==
    \/ \E t \in Threads, k \in Keys, n \in 1 .. MaxNotes : NoteThrottled(t, k, n)
    \/ \E k \in Keys : WindowPasses(k)
    \/ \E t \in Threads : Audit(t)
    \/ FlushEvents \/ (\E l \in flushing : FlushNext(l)) \/ Flushed
    \/ \E t \in Writers : WriteLine(t) \/ LineWritten(t)
    \/ CloseLog \/ Truncate
    \/ Snapshot \/ Poll \/ ReadFails \/ \E resyncs \in BOOLEAN : ReadRange(resyncs)

Safety == Init /\ [][Next]_vars

-----------------------------------------------------------------------------
(* Where the i-th occurrence of k is counted: in a line of the journal, in *)
(* one about to be written, in the throttle, or in a line that came late.  *)
Bearers(k, i) ==
    {<<"line", n>> : n \in {n \in DOMAIN lines : lines[n].kind = k /\ i \in lines[n].of}}
    \cup {<<"writer", t>> : t \in {t \in Writers : /\ busy # t /\ emitting[t].kind = k
                                                   /\ i \in emitting[t].of}}
    \cup {<<"flush", l>> : l \in {l \in flushing : l.kind = k /\ i \in l.of}}
    \cup (IF k \in Keys /\ i \in held[k] THEN {<<"held", k>>} ELSE {})
    \cup (IF i \in lost[k] THEN {<<"lost", k>>} ELSE {})

(* Every occurrence is counted in exactly one line, however notes, the     *)
(* window and Close's flush cross, "so the tail is never lost" (events.go) *)
(* before Close; what Close may lose is a remainder noted after its flush, *)
(* or a line that finds the log closed.                                    *)
CountsAddUp ==
    /\ \A k \in Kinds : \A i \in 1 .. noted[k] : \E b \in Bearers(k, i) : Bearers(k, i) = {b}
    /\ closing # "closed" => \A k \in Kinds : lost[k] = {}

(* What follow shows is what was written, in that order and nothing twice; *)
(* and if nobody truncates the file, exactly the tail it began with and    *)
(* every complete line it has read since: "a record appended between       *)
(* `read' and `start following' is never lost or duplicated"               *)
(* (runLogsFollow).                                                        *)
FollowIsFaithful ==
    /\ \A i, j \in DOMAIN shown : i < j => shown[i] < shown[j]
    /\ follow.pc = "wait" /\ truncations = 0 =>
           LET end == Cut(SubSeq(file, 1, follow.offset)) \div 2
           IN  shown = LastOf(Matching([i \in 1 .. follow.start |-> i]))
                            \o Matching([i \in 1 .. end - follow.start |-> i + follow.start])
=============================================================================
