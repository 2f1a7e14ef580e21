--------------------------- MODULE LifecycleProofs --------------------------
(***************************************************************************)
(* Theorems about Lifecycle, for any upstreams, any sequence of            *)
(* configurations and any number of restarts and children.                 *)
(***************************************************************************)
EXTENDS Lifecycle, WellFoundedInduction, TLAPS

USE DEF vars

ChildStates == {"up", "dead", "reaped"}
ChildRecord == [name : Names, launch : Nat \ {0}, state : ChildStates]

Active(s)   == sup[s].pc \notin {"none", "done"}
Watching(s) == Active(s) /\ ~sup[s].cancelled

(* Start, Reload and Close exclude each other; rows exist for the first    *)
(* two only; nothing is installed before Start, and Close has joined every *)
(* supervisor before it takes the connections out.                         *)
Locked ==
    /\ holder = "start" => phase = "new"
    /\ holder = "reload" => phase = "running"
    /\ holder = "close" <=> phase \in {"closing", "joined"}
    /\ holder \in {"nobody", "close"} => \A n \in Names : batch[n].stage = "none"
    /\ phase = "running" \/ holder \in {"start", "reload"} => "start" \in called
    /\ "start" \notin called => \A n \in Names : conns[n] = 0
    /\ phase \in {"joined", "closed"} => \A s \in Children : ~Active(s)

(* A row that has retired its upstream's supervisor has the name to        *)
(* itself: what is installed is the child it closes, or nothing; and the   *)
(* child it launches is its own.                                           *)
Unwatched(n) == \A s \in Children : Watching(s) => sup[s].name # n
OwnLaunch(n) ==
    /\ batch[n].child # 0
    /\ child[batch[n].child].launch = Setting(cfg, n)
    /\ sup[batch[n].child].pc = "none"
    /\ \A s \in Children : batch[n].child # sup[s].child /\ batch[n].child # sup[s].fresh

RowOK(n) ==
    /\ conns[n] # 0 => conns[n] \in DOMAIN child /\ child[conns[n]].name = n
    /\ batch[n].child # 0 => batch[n].child \in DOMAIN child /\ child[batch[n].child].name = n
    /\ batch[n].stage \notin {"close", "handshake", "launched"} => batch[n].child = 0
    /\ batch[n].kind # "removed" /\ batch[n].stage # "none" => Setting(cfg, n) # 0
    /\ batch[n].stage \in {"launch", "handshake", "launched", "failed"} =>
          batch[n].kind # "removed" /\ conns[n] = 0
    /\ batch[n].stage = "close" => conns[n] = 0 \/ conns[n] = batch[n].child
    /\ batch[n].stage = "drop" => conns[n] = 0 \/ State(conns[n]) = "reaped"
    /\ batch[n].stage \in {"handshake", "launched"} => OwnLaunch(n)
    /\ batch[n].stage \notin {"none", "retire"} => Unwatched(n)
    /\ batch[n].stage = "none" /\ conns[n] # 0 => child[conns[n]].launch = Setting(cfg, n)

(* A supervisor's children bear its name and its settings; a relaunch goes *)
(* on only over a reaped child; while it is not retired it is the one that *)
(* watches the name, and what is installed there is its child.             *)
Alone(s) ==
    \A t \in Children :
        t # s =>
            /\ sup[s].child # 0 => sup[s].child # sup[t].child /\ sup[s].child # sup[t].fresh
            /\ sup[s].fresh # 0 => sup[s].fresh # sup[t].fresh

SupOK(s) ==
    /\ sup[s].pc # "none" => s \in DOMAIN child
    /\ sup[s].pc = "none" => sup[s].child = 0
    /\ sup[s].child # 0 => sup[s].child \in DOMAIN child
    /\ Active(s) =>
          /\ sup[s].name \in Names /\ sup[s].child # 0
          /\ child[sup[s].child].name = sup[s].name
          /\ child[sup[s].child].launch = sup[s].launch
          /\ sup[s].pc # "watch" => State(sup[s].child) = "reaped"
    /\ sup[s].fresh # 0 <=> sup[s].pc \in {"launching", "install"}
    /\ sup[s].fresh # 0 =>
          /\ sup[s].fresh \in DOMAIN child
          /\ child[sup[s].fresh].name = sup[s].name
          /\ child[sup[s].fresh].launch = sup[s].launch
    /\ Watching(s) => conns[sup[s].name] = sup[s].child /\ supCancel[sup[s].name] = s
    /\ Alone(s)

Inv ==
    /\ Types
    /\ Locked
    /\ \A n \in Names : RowOK(n)
    /\ \A s \in Children : SupOK(s)
    /\ NoOrphanChild

-----------------------------------------------------------------------------
(* The children that have been started. *)

(* A new child leaves the others alone. *)
LEMMA Birth ==
    ASSUME NEW ch \in Seq(ChildRecord), NEW n \in Names, NEW l \in Nat \ {0},
           NEW new, new = Append(ch, [name |-> n, launch |-> l, state |-> "up"])
    PROVE  /\ new \in Seq(ChildRecord)
           /\ Len(ch) \in Nat /\ Len(new) = Len(ch) + 1
           /\ DOMAIN ch = 1 .. Len(ch) /\ DOMAIN new = 1 .. Len(ch) + 1
           /\ \A c \in DOMAIN ch : new[c] = ch[c]
           /\ new[Len(ch) + 1] = [name |-> n, launch |-> l, state |-> "up"]
<1>1. [name |-> n, launch |-> l, state |-> "up"] \in ChildRecord
  BY DEF ChildRecord, ChildStates
<1> QED
  BY <1>1

(* A child that dies or is reaped keeps its name and settings. *)
LEMMA Passing ==
    ASSUME NEW ch \in Seq(ChildRecord), NEW c \in DOMAIN ch, NEW x \in ChildStates,
           NEW new, new = [ch EXCEPT ![c].state = x]
    PROVE  /\ new \in Seq(ChildRecord)
           /\ Len(ch) \in Nat /\ Len(new) = Len(ch)
           /\ DOMAIN ch = 1 .. Len(ch) /\ DOMAIN new = DOMAIN ch
           /\ \A d \in DOMAIN ch : d # c => new[d] = ch[d]
           /\ new[c].name = ch[c].name /\ new[c].launch = ch[c].launch /\ new[c].state = x
<1>1. ch[c] \in ChildRecord
  OBVIOUS
<1>2. PICK r : r = [ch[c] EXCEPT !.state = x]
  OBVIOUS
<1>3. r \in ChildRecord /\ r.name = ch[c].name /\ r.launch = ch[c].launch /\ r.state = x
  BY <1>1, <1>2 DEF ChildRecord
<1>4. new = [ch EXCEPT ![c] = r]
  BY <1>2
<1>5. /\ Len(ch) \in Nat /\ DOMAIN ch = 1 .. Len(ch)
      /\ new \in Seq(ChildRecord) /\ Len(new) = Len(ch) /\ DOMAIN new = DOMAIN ch
  BY <1>3, <1>4
<1>6. new[c] = r /\ \A d \in DOMAIN ch : d # c => new[d] = ch[d]
  BY <1>4
<1> QED
  BY <1>3, <1>5, <1>6

LEMMA ChildrenStarted ==
    ASSUME Types
    PROVE  /\ child \in Seq(ChildRecord)
           /\ Len(child) \in Nat /\ DOMAIN child = 1 .. Len(child)
           /\ \A c \in DOMAIN child : c \in Children /\ c # 0 /\ child[c] \in ChildRecord
<1>1. child \in Seq(ChildRecord) /\ Len(child) <= MaxChildren
  BY DEF Types, ChildRecord, ChildStates
<1>2. Len(child) \in Nat /\ DOMAIN child = 1 .. Len(child)
  BY <1>1
<1>3. \A c \in DOMAIN child : child[c] \in ChildRecord
  BY <1>1
<1>4. \A c \in 1 .. Len(child) : c \in Children /\ c # 0
  BY <1>1, <1>2, BoundsAssumption DEF Children
<1> QED
  BY <1>1, <1>2, <1>3, <1>4

LEMMA SettingIsNat ==
    ASSUME NEW k \in 1 .. Len(Configs), NEW n \in Names
    PROVE  Setting(k, n) \in Nat
<1>1. \A S : Configs \in Seq(S) => Configs[k] \in S
  OBVIOUS
<1>2. Configs[k] \in [launch : [Names -> Nat], restart : BOOLEAN]
  BY <1>1, ConfigsAssumption
<1>3. Configs[k].launch \in [Names -> Nat]
  BY <1>2
<1> QED
  BY <1>3 DEF Setting

(* What no step undoes: a child was started, from its name's settings, and *)
(* was reaped.                                                             *)
Grows ==
    \A c \in DOMAIN child :
        /\ c \in DOMAIN child'
        /\ child'[c].name = child[c].name /\ child'[c].launch = child[c].launch
        /\ child[c].state = "reaped" => child'[c].state = "reaped"

LEMMA SameChildren ==
    ASSUME child' = child
    PROVE  Grows
    BY DEF Grows

-----------------------------------------------------------------------------
(* Frames: what a step must leave alone for a row, or for a supervisor. *)

LEMMA RowKept ==
    ASSUME NEW n \in Names, RowOK(n), Grows, cfg' = cfg, batch'[n] = batch[n],
           conns'[n] = conns[n] \/ conns'[n] = 0,
           Unwatched(n) => Unwatched(n)',
           batch[n].stage \in {"handshake", "launched"} =>
              /\ sup'[batch[n].child].pc = "none"
              /\ \A s \in Children : /\ batch[n].child # sup'[s].child
                                     /\ batch[n].child # sup'[s].fresh
    PROVE  RowOK(n)'
<1>1. batch[n].stage \in {"handshake", "launched"} => OwnLaunch(n)'
  BY DEF RowOK, OwnLaunch, Grows, Setting
<1>2. Setting(cfg, n)' = Setting(cfg, n)
  BY DEF Setting
<1> QED
  BY <1>1, <1>2 DEF RowOK, Grows, State

LEMMA SupFrame ==
    ASSUME NEW s \in Children, SupOK(s), Grows,
           sup'[s].pc = sup[s].pc, sup'[s].name = sup[s].name,
           sup'[s].launch = sup[s].launch, sup'[s].child = sup[s].child,
           sup'[s].fresh = sup[s].fresh,
           sup[s].cancelled => sup'[s].cancelled,
           Watching(s)' => /\ conns'[sup[s].name] = conns[sup[s].name]
                           /\ supCancel'[sup[s].name] = supCancel[sup[s].name],
           Alone(s)'
    PROVE  SupOK(s)'
<1>1. Watching(s)' => Watching(s)
  BY DEF Watching, Active
<1>2. Active(s)' <=> Active(s)
  BY DEF Active
<1> QED
  BY <1>1, <1>2 DEF SupOK, Grows, State

LEMMA SupKept ==
    ASSUME NEW s \in Children, SupOK(s), Grows,
           sup'[s].pc = sup[s].pc, sup'[s].name = sup[s].name,
           sup'[s].launch = sup[s].launch,
           sup[s].cancelled => sup'[s].cancelled,
           Watching(s)' => /\ conns'[sup[s].name] = conns[sup[s].name]
                           /\ supCancel'[sup[s].name] = supCancel[sup[s].name],
           \A t \in Children : sup'[t].child = sup[t].child /\ sup'[t].fresh = sup[t].fresh
    PROVE  SupOK(s)'
<1>1. Alone(s)'
  BY DEF SupOK, Alone
<1> QED
  BY <1>1, SupFrame

(* A step that leaves the supervisors and the connections alone. *)
LEMMA SupsKept ==
    ASSUME \A s \in Children : SupOK(s), Grows, UNCHANGED <<conns, sup, supCancel>>
    PROVE  \A s \in Children : SupOK(s)'
    BY SupKept

LEMMA WatchKept ==
    ASSUME UNCHANGED sup
    PROVE  /\ \A n \in Names : Unwatched(n)' <=> Unwatched(n)
           /\ \A s \in Children : (Watching(s)' <=> Watching(s)) /\ (Active(s)' <=> Active(s))
    BY DEF Unwatched, Watching, Active

-----------------------------------------------------------------------------
(* Start, Reload and Close from end to end. *)

(* No row has a child between one batch and the next. *)
LEMMA RowsDone ==
    ASSUME Inv, \A n \in Names : batch[n].stage = "none"
    PROVE  /\ \A n \in Names : batch[n].child = 0
           /\ \A n \in Names : conns[n] # 0 => child[conns[n]].launch = Setting(cfg, n)
    BY DEF Inv, RowOK

(* What is installed is enabled: child settings are not 0. *)
LEMMA LiveIsEnabled ==
    ASSUME Inv, \A n \in Names : batch[n].stage = "none"
    PROVE  \A n \in Names : conns[n] # 0 => n \in Enabled(cfg)
<1> SUFFICES ASSUME NEW n \in Names, conns[n] # 0 PROVE n \in Enabled(cfg)
  OBVIOUS
<1>1. child[conns[n]] \in ChildRecord
  BY ChildrenStarted DEF Inv, RowOK
<1>2. child[conns[n]].launch # 0
  BY <1>1 DEF ChildRecord
<1> QED
  BY <1>2, RowsDone DEF Enabled

LEMMA BeginStartStep ==
    ASSUME Inv, BeginStart
    PROVE  Inv'
<1>1. /\ holder = "nobody" /\ phase = "new" /\ "start" \notin called
      /\ holder' = "start" /\ called' = called \cup {"start"}
      /\ UNCHANGED <<phase, cfg, conns, child, sup, supCancel>>
  BY DEF BeginStart
<1>2. \A n \in Names :
         /\ n \in Enabled(cfg) => batch'[n] = [stage |-> "launch", kind |-> "added", child |-> 0]
         /\ n \notin Enabled(cfg) => batch'[n] = NoRow
  BY DEF BeginStart, NoRow
<1>3. batch' \in [Names -> [stage : Stages, kind : Kinds, child : 0 .. MaxChildren]]
  <2>1. \A n \in Names : batch'[n] \in [stage : Stages, kind : Kinds, child : 0 .. MaxChildren]
    BY <1>2, BoundsAssumption DEF NoRow, Stages, Kinds
  <2>2. batch' = [n \in Names |-> batch'[n]]
    BY DEF BeginStart
  <2> QED
    BY <2>1, <2>2
<1>4. Types'
  BY <1>1, <1>3 DEF Inv, Types
<1>5. \A n \in Names : conns[n] = 0 /\ batch[n].child = 0
  BY <1>1, RowsDone DEF Inv, Locked
<1>6. Locked'
  BY <1>1, WatchKept DEF Inv, Locked
<1>7. \A s \in Children : SupOK(s)'
  BY <1>1, SupsKept, SameChildren DEF Inv
<1>8. ASSUME NEW n \in Names PROVE RowOK(n)'
  <2>1. Unwatched(n)
    BY <1>5 DEF Inv, SupOK, Unwatched, Watching
  <2>2. n \in Enabled(cfg) <=> Setting(cfg, n) # 0
    BY DEF Enabled
  <2> QED
    BY <1>1, <1>2, <1>5, <2>1, <2>2, WatchKept DEF RowOK, NoRow, Setting
<1>9. NoOrphanChild'
  BY <1>1, <1>5 DEF Inv, NoOrphanChild, State
<1> QED
  BY <1>4, <1>6, <1>7, <1>8, <1>9 DEF Inv

LEMMA BeginReloadStep ==
    ASSUME Inv, BeginReload
    PROVE  Inv'
<1>1. /\ holder = "nobody" /\ phase = "running" /\ cfg < Len(Configs)
      /\ holder' = "reload" /\ cfg' = cfg + 1
      /\ UNCHANGED <<phase, conns, child, sup, supCancel, called>>
  BY DEF BeginReload
<1> DEFINE new == cfg + 1
           kind(n) ==
               CASE n \in Live \ Enabled(new)        -> "removed"
                 [] n \in Enabled(new) \ Live        -> "added"
                 [] n \in Enabled(new) \cap Enabled(cfg) /\ Setting(new, n) # Setting(cfg, n)
                                                     -> "changed"
                 [] OTHER                            -> "none"
           row(n) ==
               [NoRow EXCEPT !.kind = kind(n),
                             !.stage = CASE kind(n) = "none"  -> "none"
                                         [] kind(n) = "added" -> "launch"
                                         [] OTHER             -> "retire"]
<1>2. batch' = [n \in Names |-> row(n)]
  BY DEF BeginReload
<1>3. \A n \in Names : batch[n].stage = "none"
  BY <1>1 DEF Inv, Locked
<1>4. ASSUME NEW n \in Names
      PROVE  /\ batch'[n] \in [stage : Stages, kind : Kinds, child : 0 .. MaxChildren]
             /\ batch'[n].child = 0
             /\ batch'[n].stage = "none" => kind(n) = "none"
             /\ batch'[n].stage = "launch" => n \in Enabled(new) /\ conns[n] = 0
                                             /\ batch'[n].kind # "removed"
             /\ batch'[n].stage \in {"none", "retire", "launch"}
             /\ batch'[n].kind = kind(n)
  <2>1. batch'[n] = row(n)
    BY <1>2
  <2>2. n \in Live <=> conns[n] # 0
    BY DEF Live
  <2>3. kind(n) \in Kinds
    BY DEF Kinds
  <2>5. kind(n) = "added" => n \in Enabled(new) /\ n \notin Live
    OBVIOUS
  <2> HIDE DEF kind
  <2>4. /\ kind(n) = "none" => row(n) = [stage |-> "none", kind |-> "none", child |-> 0]
        /\ kind(n) = "added" => row(n) = [stage |-> "launch", kind |-> "added", child |-> 0]
        /\ kind(n) = "removed" => row(n) = [stage |-> "retire", kind |-> "removed", child |-> 0]
        /\ kind(n) = "changed" => row(n) = [stage |-> "retire", kind |-> "changed", child |-> 0]
    <3> DEFINE k == kind(n)
               st == CASE k = "none" -> "none" [] k = "added" -> "launch" [] OTHER -> "retire"
    <3>1. row(n) = [stage |-> st, kind |-> k, child |-> 0]
      <4>1. row(n) = [[NoRow EXCEPT !.kind = k] EXCEPT !.stage = st]
        OBVIOUS
      <4> HIDE DEF k, st, row
      <4> QED
        BY <4>1 DEF NoRow
    <3>2. st = IF k = "none" THEN "none" ELSE IF k = "added" THEN "launch" ELSE "retire"
      OBVIOUS
    <3> QED
      BY <3>1, <3>2
  <2> HIDE DEF row
  <2> QED
    BY <2>1, <2>2, <2>3, <2>4, <2>5, BoundsAssumption DEF Kinds, Stages
<1>5. ASSUME NEW n \in Names
      PROVE  /\ kind(n) \in {"added", "changed"} => n \in Enabled(new)
             /\ kind(n) = "none" /\ conns[n] # 0 => child[conns[n]].launch = Setting(new, n)
  <2>1. conns[n] # 0 => n \in Enabled(cfg) /\ child[conns[n]].launch = Setting(cfg, n)
    BY <1>3, LiveIsEnabled, RowsDone
  <2> QED
    BY <2>1 DEF Live
<1>6. \A n \in Names : n \in Enabled(new) => Setting(new, n) # 0
  BY DEF Enabled
<1> HIDE DEF kind, row
<1>7. Types'
  <2>1. cfg' \in 1 .. Len(Configs)
    BY <1>1, ConfigsAssumption DEF Inv, Types
  <2>2. batch' \in [Names -> [stage : Stages, kind : Kinds, child : 0 .. MaxChildren]]
    BY <1>2, <1>4
  <2> QED
    BY <1>1, <2>1, <2>2 DEF Inv, Types
<1>8. Locked'
  BY <1>1, WatchKept DEF Inv, Locked
<1>9. \A s \in Children : SupOK(s)'
  BY <1>1, SupsKept, SameChildren DEF Inv
<1>10. ASSUME NEW n \in Names PROVE RowOK(n)'
  <2>1. conns[n] = 0 => Unwatched(n)
    BY DEF Inv, SupOK, Unwatched, Watching
  <2>2. conns[n] # 0 => conns[n] \in DOMAIN child /\ child[conns[n]].name = n
    BY DEF Inv, RowOK
  <2>3. Setting(cfg, n)' = Setting(new, n)
    BY <1>1 DEF Setting
  <2>4. batch'[n].stage # "none" /\ batch'[n].kind # "removed" => n \in Enabled(new)
    BY <1>4, <1>5, <1>2 DEF Kinds, kind, row, NoRow
  <2> QED
    BY <1>1, <1>4, <1>5, <1>6, <2>1, <2>2, <2>3, <2>4, WatchKept DEF RowOK
<1>11. NoOrphanChild'
  BY <1>1, <1>3, RowsDone, ChildrenStarted DEF Inv, NoOrphanChild, State
<1> QED
  BY <1>7, <1>8, <1>9, <1>10, <1>11 DEF Inv

LEMMA FinishStep ==
    ASSUME Inv, Finish
    PROVE  Inv'
<1>1. /\ holder \in {"start", "reload"} /\ holder' = "nobody"
      /\ phase' = phase \/ (holder = "start" /\ phase' = "running")
      /\ batch' = [n \in Names |-> NoRow]
      /\ UNCHANGED <<cfg, conns, child, sup, supCancel, called>>
  BY DEF Finish
<1>2. \A n \in Names : batch[n].stage = "none"
  BY DEF Finish, Busy, Inv, Types, Stages
<1>3. Types'
  <2>1. NoRow \in [stage : Stages, kind : Kinds, child : 0 .. MaxChildren]
    BY BoundsAssumption DEF NoRow, Stages, Kinds
  <2> QED
    BY <1>1, <2>1 DEF Inv, Types
<1>4. Locked'
  BY <1>1, WatchKept DEF Inv, Locked, NoRow
<1>5. \A s \in Children : SupOK(s)'
  BY <1>1, SupsKept, SameChildren DEF Inv
<1>6. \A n \in Names : RowOK(n)'
  BY <1>1, <1>2 DEF Inv, RowOK, NoRow, Setting
<1>7. NoOrphanChild'
  BY <1>1, <1>2, RowsDone, ChildrenStarted DEF Inv, NoOrphanChild, State
<1> QED
  BY <1>3, <1>4, <1>5, <1>6, <1>7 DEF Inv

(* The steps that only move Close forward. *)
LEMMA ClosingStep ==
    ASSUME Inv, UNCHANGED vars \/ CallClose \/ BeginClose \/ JoinSupervisors
    PROVE  Inv'
<1>1. /\ phase' \in {"new", "running", "closing", "joined", "closed"}
      /\ holder' \in {"nobody", "start", "reload", "close"}
      /\ called' \subseteq {"start", "close"}
      /\ supCancel' = supCancel
         \/ (phase' = "joined" /\ supCancel' = [n \in Names |-> 0])
      /\ UNCHANGED <<cfg, conns, child, batch, sup>>
  BY DEF Inv, Types, CallClose, BeginClose, JoinSupervisors
<1>2. Types'
  BY <1>1, BoundsAssumption, SMTT(30) DEF Inv, Types
<1>3. Locked'
  <2>1. phase' \in {"joined", "closed"} => \A s \in Children : ~Active(s)
    BY DEF Inv, Locked, CallClose, BeginClose, JoinSupervisors, Active
  <2>2. \/ UNCHANGED <<phase, holder>>
        \/ holder = "nobody" /\ phase \in {"new", "running"} /\ holder' = "close" /\ phase' = "closing"
        \/ phase = "closing" /\ phase' = "joined" /\ holder' = holder
    BY DEF CallClose, BeginClose, JoinSupervisors
  <2>3. called \subseteq called' /\ ("start" \in called' => "start" \in called)
    BY DEF CallClose, BeginClose, JoinSupervisors
  <2> QED
    BY <1>1, <2>1, <2>2, <2>3, WatchKept DEF Inv, Locked
<1>4. ASSUME NEW s \in Children PROVE SupOK(s)'
  <2>1. Watching(s)' => supCancel' = supCancel
    BY <1>1, <1>3 DEF Locked, Watching
  <2> QED
    BY <1>1, <2>1, SupKept, SameChildren DEF Inv
<1>5. ASSUME NEW n \in Names PROVE RowOK(n)'
  BY <1>1, RowKept, SameChildren, WatchKept DEF Inv, RowOK, OwnLaunch
<1>6. NoOrphanChild'
  BY <1>1 DEF Inv, NoOrphanChild, State
<1> QED
  BY <1>2, <1>3, <1>4, <1>5, <1>6 DEF Inv

LEMMA CloseConnsStep ==
    ASSUME Inv, CloseConns
    PROVE  Inv'
<1>1. /\ phase = "joined" /\ phase' = "closed" /\ holder' = "nobody"
      /\ conns' = [n \in Names |-> 0]
      /\ UNCHANGED <<cfg, batch, sup, supCancel, called>>
  BY DEF CloseConns
<1>2. /\ child' \in Seq(ChildRecord) /\ Len(child') = Len(child) /\ DOMAIN child' = DOMAIN child
      /\ \A c \in DOMAIN child :
            /\ child'[c].name = child[c].name /\ child'[c].launch = child[c].launch
            /\ child'[c].state = child[c].state \/ child'[c].state = "reaped"
            /\ (\E n \in Names : conns[n] = c) => child'[c].state = "reaped"
  <2> DEFINE Now(c) == IF \E n \in Names : conns[n] = c
                       THEN [child[c] EXCEPT !.state = "reaped"] ELSE child[c]
  <2>1. child' = [c \in DOMAIN child |-> Now(c)]
    BY DEF CloseConns
  <2>2. ASSUME NEW c \in DOMAIN child
        PROVE  /\ Now(c) \in ChildRecord
               /\ Now(c).name = child[c].name /\ Now(c).launch = child[c].launch
               /\ Now(c).state = child[c].state \/ Now(c).state = "reaped"
               /\ (\E n \in Names : conns[n] = c) => Now(c).state = "reaped"
    <3>1. child[c] \in ChildRecord
      BY ChildrenStarted DEF Inv
    <3> QED
      BY <3>1 DEF ChildRecord, ChildStates
  <2> HIDE DEF Now
  <2>3. child' \in Seq(ChildRecord) /\ Len(child') = Len(child) /\ DOMAIN child' = DOMAIN child
    <3>1. Len(child) \in Nat /\ DOMAIN child = 1 .. Len(child)
      BY ChildrenStarted DEF Inv
    <3> QED
      BY <2>1, <2>2, <3>1
  <2> QED
    BY <2>1, <2>2, <2>3
<1>3. Grows
  BY <1>2 DEF Grows
<1>4. \A n \in Names : batch[n].stage = "none" /\ batch[n].child = 0
  BY <1>1, RowsDone DEF Inv, Locked
<1>5. Types'
  BY <1>1, <1>2, BoundsAssumption DEF Inv, Types, ChildRecord, ChildStates
<1>6. Locked'
  BY <1>1, WatchKept DEF Inv, Locked
<1>7. ASSUME NEW s \in Children PROVE SupOK(s)'
  <2>1. ~Watching(s)'
    BY <1>1, <1>6 DEF Locked, Watching
  <2> QED
    BY <1>1, <1>3, <2>1, SupKept DEF Inv
<1>8. \A n \in Names : RowOK(n)'
  BY <1>1, <1>3, <1>4, RowKept, WatchKept DEF Inv
<1>9. NoOrphanChild'
  BY <1>1, <1>2 DEF Inv, NoOrphanChild, State
<1> QED
  BY <1>5, <1>6, <1>7, <1>8, <1>9 DEF Inv

-----------------------------------------------------------------------------
(* The rows of a batch. *)

RowRecord == [stage : Stages, kind : Kinds, child : 0 .. MaxChildren]

(* A row that is not done is Start's or Reload's. *)
LEMMA RowIsHeld ==
    ASSUME Inv, NEW n \in Names, batch[n].stage # "none"
    PROVE  holder \in {"start", "reload"}
    BY DEF Inv, Locked, Types

(* What a step of one row leaves of the lock's part. *)
LEMMA RowLocked ==
    ASSUME Inv, NEW n \in Names, batch[n].stage # "none",
           UNCHANGED <<phase, holder, called>>,
           \A m \in Names : conns'[m] = conns[m] \/ "start" \in called,
           \A s \in Children : Active(s)' => Active(s) \/ phase \notin {"joined", "closed"}
    PROVE  Locked'
    BY RowIsHeld DEF Inv, Locked

LEMMA RowTyped ==
    ASSUME Inv, NEW n \in Names, NEW r \in RowRecord, batch' = [batch EXCEPT ![n] = r]
    PROVE  /\ batch' \in [Names -> RowRecord]
           /\ batch'[n] = r
           /\ \A m \in Names : m # n => batch'[m] = batch[m]
    BY DEF Inv, Types, RowRecord

(* A row moved on, with or without another child. *)
LEMMA RowMoved ==
    ASSUME NEW b \in RowRecord, NEW st \in Stages
    PROVE  /\ [b EXCEPT !.stage = st] = [stage |-> st, kind |-> b.kind, child |-> b.child]
           /\ [b EXCEPT !.stage = st] \in RowRecord
    BY DEF RowRecord

LEMMA RowGiven ==
    ASSUME NEW b \in RowRecord, NEW st \in Stages, NEW c \in 0 .. MaxChildren
    PROVE  /\ [b EXCEPT !.stage = st, !.child = c] = [stage |-> st, kind |-> b.kind, child |-> c]
           /\ [b EXCEPT !.stage = st, !.child = c] \in RowRecord
<1> DEFINE x == [b EXCEPT !.stage = st]
<1>1. x = [stage |-> st, kind |-> b.kind, child |-> b.child] /\ x \in RowRecord
  BY RowMoved
<1>2. [b EXCEPT !.stage = st, !.child = c] = [x EXCEPT !.child = c]
  OBVIOUS
<1> HIDE DEF x
<1> QED
  BY <1>1, <1>2 DEF RowRecord

(* Likewise for a supervisor. *)
SupRecord ==
    [pc : Positions, name : Names \cup {"none"}, launch : Nat, child : 0 .. MaxChildren,
     fresh : 0 .. MaxChildren, attempt : 0 .. MaxAttempts + 1, cancelled : BOOLEAN]

LEMMA SupTyped ==
    ASSUME Inv, NEW s \in Children, NEW r \in SupRecord, sup' = [sup EXCEPT ![s] = r]
    PROVE  /\ sup' \in [Children -> SupRecord]
           /\ sup'[s] = r
           /\ \A t \in Children : t # s => sup'[t] = sup[t]
    BY DEF Inv, Types, SupRecord

LEMMA SupCancelled ==
    ASSUME NEW b \in SupRecord, NEW r, r = [b EXCEPT !.cancelled = TRUE]
    PROVE  /\ r \in SupRecord /\ r.cancelled
           /\ r.pc = b.pc /\ r.name = b.name /\ r.launch = b.launch
           /\ r.child = b.child /\ r.fresh = b.fresh /\ r.attempt = b.attempt
    BY DEF SupRecord

(* Every child a row names can be a supervisor's number. *)
LEMMA RowChild ==
    ASSUME Inv, NEW n \in Names, batch[n].child # 0
    PROVE  batch[n].child \in DOMAIN child /\ batch[n].child \in Children
    BY ChildrenStarted DEF Inv, RowOK

LEMMA RetireStep ==
    ASSUME Inv, NEW n \in Names, Retire(n)
    PROVE  Inv'
<1> DEFINE r == [batch[n] EXCEPT !.stage = "close", !.child = conns[n]]
<1>1. /\ batch[n].stage = "retire" /\ batch' = [batch EXCEPT ![n] = r]
      /\ UNCHANGED <<phase, holder, cfg, conns, child, called>>
  BY DEF Retire, Row
<1>2. batch[n] \in RowRecord /\ conns[n] \in 0 .. MaxChildren
  BY DEF Inv, Types, RowRecord
<1>3. r = [stage |-> "close", kind |-> batch[n].kind, child |-> conns[n]] /\ r \in RowRecord
  BY <1>2, RowGiven DEF Stages
<1> HIDE DEF r
<1>4. /\ batch' \in [Names -> RowRecord] /\ batch'[n] = r
      /\ \A m \in Names : m # n => batch'[m] = batch[m]
  BY <1>1, <1>3, RowTyped
<1>5. /\ supCancel' \in [Names -> 0 .. MaxChildren]
      /\ supCancel'[n] = 0 /\ \A m \in Names : m # n => supCancel'[m] = supCancel[m]
  BY BoundsAssumption DEF Retire, Inv, Types
<1> DEFINE u == supCancel[n]
<1>6. IF u = 0 THEN sup' = sup ELSE sup' = [sup EXCEPT ![u].cancelled = TRUE]
  BY DEF Retire
<1>7. /\ u \in 0 .. MaxChildren
      /\ u # 0 => u \in Children
  BY DEF Inv, Types, Children
<1> HIDE DEF u
<1>8. /\ sup' \in [Children -> SupRecord]
      /\ \A s \in Children :
            /\ sup'[s].pc = sup[s].pc /\ sup'[s].name = sup[s].name
            /\ sup'[s].launch = sup[s].launch /\ sup'[s].child = sup[s].child
            /\ sup'[s].fresh = sup[s].fresh
            /\ sup[s].cancelled => sup'[s].cancelled
            /\ s = u => sup'[s].cancelled
  <2>1. CASE u = 0
    BY <1>6, <2>1 DEF Inv, Types, SupRecord, Children
  <2>2. CASE u # 0
    <3>1. sup[u] \in SupRecord /\ u \in Children
      BY <1>7, <2>2 DEF Inv, Types, SupRecord
    <3>2. PICK x : x = [sup[u] EXCEPT !.cancelled = TRUE]
      OBVIOUS
    <3>3. sup' = [sup EXCEPT ![u] = x]
      BY <1>6, <2>2, <3>2
    <3>4. /\ x \in SupRecord /\ x.cancelled
          /\ x.pc = sup[u].pc /\ x.name = sup[u].name /\ x.launch = sup[u].launch
          /\ x.child = sup[u].child /\ x.fresh = sup[u].fresh
      BY <3>1, <3>2, SupCancelled
    <3>5. /\ sup' \in [Children -> SupRecord] /\ sup'[u] = x
          /\ \A t \in Children : t # u => sup'[t] = sup[t]
      BY <3>1, <3>3, <3>4, SupTyped
    <3> QED
      BY <3>4, <3>5
  <2> QED
    BY <2>1, <2>2
<1>9. \A s \in Children : (Active(s)' <=> Active(s)) /\ (Watching(s)' => Watching(s) /\ s # u)
  BY <1>8 DEF Active, Watching
<1>10. Types'
  BY <1>1, <1>4, <1>5, <1>8 DEF Inv, Types, RowRecord, SupRecord
<1>11. Locked'
  BY <1>1, <1>9, RowLocked
<1>12. \A s \in Children : Watching(s)' => sup[s].name # n
  BY <1>9 DEF Inv, SupOK, u
<1>13. \A s \in Children : SupOK(s)'
  <2> SUFFICES ASSUME NEW s \in Children PROVE SupOK(s)'
    OBVIOUS
  <2>1. Watching(s)' => supCancel'[sup[s].name] = supCancel[sup[s].name]
    BY <1>5, <1>9, <1>12 DEF Inv, SupOK, Watching
  <2> QED
    BY <1>1, <1>8, <2>1, SupKept, SameChildren DEF Inv
<1>14. ASSUME NEW m \in Names PROVE RowOK(m)'
  <2>1. Unwatched(m) => Unwatched(m)'
    BY <1>8, <1>9 DEF Unwatched
  <2>2. CASE m # n
    <3>1. batch[m].stage \in {"handshake", "launched"} => OwnLaunch(m) /\ batch[m].child \in Children
      BY RowChild DEF Inv, RowOK, OwnLaunch
    <3> QED
      BY <1>1, <1>4, <1>8, <2>1, <2>2, <3>1, RowKept, SameChildren DEF Inv, OwnLaunch
  <2>3. CASE m = n
    <3>1. Unwatched(n)'
      BY <1>8, <1>12 DEF Unwatched
    <3> QED
      BY <1>1, <1>3, <1>4, <2>3, <3>1 DEF Inv, RowOK, Setting
  <2> QED
    BY <2>2, <2>3
<1>15. NoOrphanChild'
  <2>1. batch[n].child = 0
    BY <1>1 DEF Inv, RowOK
  <2>2. \A c \in DOMAIN child : c # 0
    BY ChildrenStarted DEF Inv
  <2> QED
    BY <1>1, <1>4, <1>8, <2>1, <2>2 DEF Inv, NoOrphanChild, State
<1> QED
  BY <1>10, <1>11, <1>13, <1>14, <1>15 DEF Inv

LEMMA CloseOldStep ==
    ASSUME Inv, NEW n \in Names, CloseOld(n)
    PROVE  Inv'
<1> DEFINE r == [batch[n] EXCEPT !.stage = "drop", !.child = 0]
           c == batch[n].child
<1>1. /\ batch[n].stage = "close" /\ batch' = [batch EXCEPT ![n] = r]
      /\ IF c = 0 THEN child' = child ELSE child' = [child EXCEPT ![c].state = "reaped"]
      /\ UNCHANGED <<phase, holder, cfg, conns, sup, supCancel, called>>
  BY DEF CloseOld, Row, Reap
<1>2. batch[n] \in RowRecord
  BY DEF Inv, Types, RowRecord
<1>3. r = [stage |-> "drop", kind |-> batch[n].kind, child |-> 0] /\ r \in RowRecord
  <2>1. 0 \in 0 .. MaxChildren /\ "drop" \in Stages
    BY BoundsAssumption DEF Stages
  <2> QED
    BY <1>2, <2>1, RowGiven
<1> HIDE DEF r
<1>4. /\ batch' \in [Names -> RowRecord] /\ batch'[n] = r
      /\ \A m \in Names : m # n => batch'[m] = batch[m]
  BY <1>1, <1>3, RowTyped
<1>5. c # 0 => c \in DOMAIN child
  BY DEF Inv, RowOK
<1>6. PICK k : k = c
  OBVIOUS
<1> HIDE DEF c
<1>7. /\ child' \in Seq(ChildRecord) /\ Len(child') = Len(child) /\ DOMAIN child' = DOMAIN child
      /\ Grows
      /\ k # 0 => child'[k].state = "reaped"
      /\ \A d \in DOMAIN child : d # k => child'[d] = child[d]
  <2>1. CASE k = 0
    BY <1>1, <1>6, <2>1, ChildrenStarted DEF Inv, Grows
  <2>2. CASE k # 0
    <3>1. child' = [child EXCEPT ![k].state = "reaped"] /\ k \in DOMAIN child
      BY <1>1, <1>5, <1>6, <2>2
    <3>2. child \in Seq(ChildRecord) /\ "reaped" \in ChildStates
      BY ChildrenStarted DEF Inv, ChildStates
    <3> QED
      BY <3>1, <3>2, Passing DEF Grows
  <2> QED
    BY <2>1, <2>2
<1>8. Types'
  BY <1>1, <1>4, <1>7 DEF Inv, Types, RowRecord, ChildRecord, ChildStates
<1>9. Locked'
  BY <1>1, RowLocked, WatchKept
<1>10. \A s \in Children : SupOK(s)'
  BY <1>1, <1>7, SupsKept DEF Inv
<1>11. ASSUME NEW m \in Names PROVE RowOK(m)'
  <2>1. CASE m # n
    BY <1>1, <1>4, <1>7, <2>1, RowKept, WatchKept DEF Inv, RowOK, OwnLaunch
  <2>2. CASE m = n
    <3>1. conns[n] = 0 \/ child'[conns[n]].state = "reaped"
      BY <1>1, <1>6, <1>7 DEF Inv, RowOK, c
    <3>2. RowOK(n) /\ Unwatched(n)
      BY <1>1 DEF Inv, RowOK
    <3> QED
      BY <1>1, <1>3, <1>4, <1>7, <2>2, <3>1, <3>2, WatchKept DEF RowOK, Setting, State, Grows
  <2> QED
    BY <2>1, <2>2
<1>12. NoOrphanChild'
  BY <1>1, <1>4, <1>6, <1>7, ChildrenStarted DEF Inv, NoOrphanChild, State, c
<1> QED
  BY <1>8, <1>9, <1>10, <1>11, <1>12 DEF Inv

LEMMA DropStep ==
    ASSUME Inv, NEW n \in Names, Drop(n)
    PROVE  Inv'
<1> DEFINE r == [batch[n] EXCEPT !.stage = IF batch[n].kind = "removed" THEN "none" ELSE "launch"]
<1>1. /\ batch[n].stage = "drop" /\ batch' = [batch EXCEPT ![n] = r]
      /\ conns' = [conns EXCEPT ![n] = 0]
      /\ UNCHANGED <<phase, holder, cfg, child, sup, supCancel, called>>
  BY DEF Drop, Row
<1>2. batch[n] \in RowRecord
  BY DEF Inv, Types, RowRecord
<1>3. /\ r.kind = batch[n].kind /\ r.child = batch[n].child /\ r \in RowRecord
      /\ r.stage = IF batch[n].kind = "removed" THEN "none" ELSE "launch"
  BY <1>2 DEF RowRecord, Stages
<1> HIDE DEF r
<1>4. /\ batch' \in [Names -> RowRecord] /\ batch'[n] = r
      /\ \A m \in Names : m # n => batch'[m] = batch[m]
  BY <1>1, <1>3, RowTyped
<1>5. conns' \in [Names -> 0 .. MaxChildren] /\ conns'[n] = 0
      /\ \A m \in Names : m # n => conns'[m] = conns[m]
  BY <1>1, BoundsAssumption DEF Inv, Types
<1>6. Unwatched(n) /\ batch[n].child = 0 /\ (conns[n] = 0 \/ State(conns[n]) = "reaped")
  BY <1>1 DEF Inv, RowOK
<1>7. Types'
  BY <1>1, <1>4, <1>5 DEF Inv, Types, RowRecord
<1>8. Locked'
  BY <1>1, RowLocked, WatchKept, RowIsHeld DEF Inv, Locked
<1>9. ASSUME NEW s \in Children PROVE SupOK(s)'
  <2>1. Watching(s) => sup[s].name \in Names /\ sup[s].name # n
    BY <1>6 DEF Inv, SupOK, Watching, Unwatched
  <2> QED
    BY <1>1, <1>5, <2>1, SupKept, SameChildren, WatchKept DEF Inv
<1>10. ASSUME NEW m \in Names PROVE RowOK(m)'
  <2>1. CASE m # n
    BY <1>1, <1>4, <1>5, <2>1, RowKept, SameChildren, WatchKept DEF Inv, RowOK, OwnLaunch
  <2>2. CASE m = n
    <3>1. RowOK(n)
      BY DEF Inv
    <3> QED
      BY <1>1, <1>3, <1>4, <1>5, <1>6, <2>2, <3>1, WatchKept DEF RowOK, Setting
  <2> QED
    BY <2>1, <2>2
<1>11. NoOrphanChild'
  BY <1>1, <1>3, <1>4, <1>5, <1>6, ChildrenStarted DEF Inv, NoOrphanChild, State
<1> QED
  BY <1>7, <1>8, <1>9, <1>10, <1>11 DEF Inv

LEMMA SpawnStep ==
    ASSUME Inv, NEW n \in Names, Spawn(n)
    PROVE  Inv'
<1>1. /\ batch[n].stage = "launch"
      /\ UNCHANGED <<phase, holder, cfg, conns, sup, supCancel, called>>
  BY DEF Spawn
<1>2. batch[n] \in RowRecord /\ batch[n].child = 0 /\ batch[n].kind # "removed"
      /\ Setting(cfg, n) # 0 /\ conns[n] = 0 /\ Unwatched(n)
  BY <1>1 DEF Inv, Types, RowRecord, RowOK
<1>3. Locked'
  BY <1>1, RowLocked, WatchKept
<1>4. CASE Len(child) < MaxChildren /\ child' = Born(n, Setting(cfg, n))
           /\ Row(n, [batch[n] EXCEPT !.stage = "handshake", !.child = Len(child) + 1])
  <2> DEFINE r == [batch[n] EXCEPT !.stage = "handshake", !.child = Len(child) + 1]
  <2>1. PICK k : k = Len(child) + 1
    OBVIOUS
  <2>2. k \in 1 .. MaxChildren /\ k \in 0 .. MaxChildren /\ k # 0 /\ k \notin DOMAIN child
    BY <1>4, <2>1, ChildrenStarted, BoundsAssumption DEF Inv
  <2>3. r = [stage |-> "handshake", kind |-> batch[n].kind, child |-> k] /\ r \in RowRecord
    BY <1>2, <2>1, <2>2, RowGiven DEF Stages
  <2>4. batch' = [batch EXCEPT ![n] = r]
    BY <1>4 DEF Row
  <2> HIDE DEF r
  <2>5. /\ batch' \in [Names -> RowRecord] /\ batch'[n] = r
        /\ \A m \in Names : m # n => batch'[m] = batch[m]
    BY <2>3, <2>4, RowTyped
  <2>6. Setting(cfg, n) \in Nat \ {0}
    BY <1>2, SettingIsNat DEF Inv, Types
  <2>7. /\ child' \in Seq(ChildRecord) /\ Len(child') = k
        /\ DOMAIN child' = DOMAIN child \cup {k}
        /\ \A c \in DOMAIN child : child'[c] = child[c]
        /\ child'[k] = [name |-> n, launch |-> Setting(cfg, n), state |-> "up"]
    <3>1. child \in Seq(ChildRecord)
      BY ChildrenStarted DEF Inv
    <3>2. child' = Append(child, [name |-> n, launch |-> Setting(cfg, n), state |-> "up"])
      BY <1>4 DEF Born
    <3> QED
      BY <3>1, <3>2, <2>1, <2>6, Birth
  <2>8. Grows
    BY <2>7 DEF Grows
  <2>9. Types'
    <3>1. Len(child') <= MaxChildren
      BY <2>2, <2>7, BoundsAssumption
    <3> QED
      BY <1>1, <2>5, <2>7, <3>1 DEF Inv, Types, RowRecord, ChildRecord, ChildStates
  <2>10. \A s \in Children : SupOK(s)'
    BY <1>1, <2>8, SupsKept DEF Inv
  <2>11. ASSUME NEW m \in Names PROVE RowOK(m)'
    <3>1. CASE m # n
      BY <1>1, <2>5, <2>8, <3>1, RowKept, WatchKept DEF Inv, RowOK, OwnLaunch
    <3>2. CASE m = n
      <4>1. sup[k].pc = "none" /\ k \in Children
        BY <2>2, BoundsAssumption DEF Inv, SupOK, Children
      <4>2. \A s \in Children : k # sup[s].child /\ k # sup[s].fresh
        BY <2>2 DEF Inv, SupOK
      <4>3. OwnLaunch(n)'
        <5>1. batch'[n].child = k
          BY <2>3, <2>5
        <5>2. child'[k].launch = Setting(cfg, n)' /\ sup' = sup
          BY <1>1, <2>7 DEF Setting
        <5> QED
          BY <2>2, <4>1, <4>2, <5>1, <5>2 DEF OwnLaunch
      <4> QED
        BY <1>1, <1>2, <2>3, <2>5, <2>7, <3>2, <4>3, WatchKept DEF RowOK, Setting
    <3> QED
      BY <3>1, <3>2
  <2>12. NoOrphanChild'
    BY <1>1, <1>2, <2>3, <2>5, <2>7, ChildrenStarted DEF Inv, NoOrphanChild, State
  <2> QED
    BY <1>3, <2>9, <2>10, <2>11, <2>12 DEF Inv
<1>5. CASE Row(n, [batch[n] EXCEPT !.stage = "failed"]) /\ child' = child
  <2> DEFINE r == [batch[n] EXCEPT !.stage = "failed"]
  <2>1. r = [stage |-> "failed", kind |-> batch[n].kind, child |-> 0] /\ r \in RowRecord
    BY <1>2, RowMoved DEF Stages
  <2>2. batch' = [batch EXCEPT ![n] = r]
    BY <1>5 DEF Row
  <2> HIDE DEF r
  <2>3. /\ batch' \in [Names -> RowRecord] /\ batch'[n] = r
        /\ \A m \in Names : m # n => batch'[m] = batch[m]
    BY <2>1, <2>2, RowTyped
  <2>4. Types'
    BY <1>1, <1>5, <2>3 DEF Inv, Types, RowRecord
  <2>5. \A s \in Children : SupOK(s)'
    BY <1>1, <1>5, SameChildren, SupsKept DEF Inv
  <2>6. ASSUME NEW m \in Names PROVE RowOK(m)'
    <3>1. CASE m # n
      BY <1>1, <1>5, <2>3, <3>1, RowKept, SameChildren, WatchKept DEF Inv, RowOK, OwnLaunch
    <3>2. CASE m = n
      BY <1>1, <1>2, <1>5, <2>1, <2>3, <3>2, WatchKept DEF RowOK, Setting
    <3> QED
      BY <3>1, <3>2
  <2>7. NoOrphanChild'
    BY <1>1, <1>2, <1>5, <2>1, <2>3, ChildrenStarted DEF Inv, NoOrphanChild, State
  <2> QED
    BY <1>3, <2>4, <2>5, <2>6, <2>7 DEF Inv
<1> QED
  BY <1>4, <1>5 DEF Spawn

LEMMA HandshakeStep ==
    ASSUME Inv, NEW n \in Names, Handshake(n)
    PROVE  Inv'
<1>1. /\ batch[n].stage = "handshake"
      /\ UNCHANGED <<phase, holder, cfg, conns, sup, supCancel, called>>
  BY DEF Handshake
<1>2. batch[n] \in RowRecord /\ RowOK(n) /\ OwnLaunch(n) /\ Unwatched(n)
  BY <1>1 DEF Inv, Types, RowRecord, RowOK
<1>3. Locked'
  BY <1>1, RowLocked, WatchKept
<1>4. CASE Row(n, [batch[n] EXCEPT !.stage = "launched"]) /\ child' = child
  <2> DEFINE r == [batch[n] EXCEPT !.stage = "launched"]
  <2>1. r = [stage |-> "launched", kind |-> batch[n].kind, child |-> batch[n].child]
        /\ r \in RowRecord
    BY <1>2, RowMoved DEF Stages
  <2>2. batch' = [batch EXCEPT ![n] = r]
    BY <1>4 DEF Row
  <2> HIDE DEF r
  <2>3. /\ batch' \in [Names -> RowRecord] /\ batch'[n] = r
        /\ \A m \in Names : m # n => batch'[m] = batch[m]
    BY <2>1, <2>2, RowTyped
  <2>4. Types'
    BY <1>1, <1>4, <2>3 DEF Inv, Types, RowRecord
  <2>5. \A s \in Children : SupOK(s)'
    BY <1>1, <1>4, SameChildren, SupsKept DEF Inv
  <2>6. ASSUME NEW m \in Names PROVE RowOK(m)'
    <3>1. CASE m # n
      BY <1>1, <1>4, <2>3, <3>1, RowKept, SameChildren, WatchKept DEF Inv, RowOK, OwnLaunch
    <3>2. CASE m = n
      <4>1. OwnLaunch(n)'
        BY <1>1, <1>2, <1>4, <2>1, <2>3 DEF OwnLaunch, Setting
      <4> QED
        BY <1>1, <1>2, <1>4, <2>1, <2>3, <3>2, <4>1, WatchKept DEF RowOK, Setting
    <3> QED
      BY <3>1, <3>2
  <2>7. NoOrphanChild'
    BY <1>1, <1>4, <2>1, <2>3 DEF Inv, NoOrphanChild, State
  <2> QED
    BY <1>3, <2>4, <2>5, <2>6, <2>7 DEF Inv
<1>5. CASE Reap(batch[n].child) /\ Row(n, [batch[n] EXCEPT !.stage = "failed", !.child = 0])
  <2> DEFINE r == [batch[n] EXCEPT !.stage = "failed", !.child = 0]
  <2>1. 0 \in 0 .. MaxChildren /\ "failed" \in Stages /\ "reaped" \in ChildStates
    BY BoundsAssumption DEF Stages, ChildStates
  <2>2. r = [stage |-> "failed", kind |-> batch[n].kind, child |-> 0] /\ r \in RowRecord
    BY <1>2, <2>1, RowGiven
  <2>3. batch' = [batch EXCEPT ![n] = r]
    BY <1>5 DEF Row
  <2> HIDE DEF r
  <2>4. /\ batch' \in [Names -> RowRecord] /\ batch'[n] = r
        /\ \A m \in Names : m # n => batch'[m] = batch[m]
    BY <2>2, <2>3, RowTyped
  <2>5. PICK k : k = batch[n].child
    OBVIOUS
  <2>6. k \in DOMAIN child /\ child' = [child EXCEPT ![k].state = "reaped"]
    BY <1>2, <1>5, <2>5 DEF Reap, RowOK, OwnLaunch
  <2>7. child \in Seq(ChildRecord)
    BY ChildrenStarted DEF Inv
  <2>8. /\ child' \in Seq(ChildRecord) /\ Len(child') = Len(child) /\ DOMAIN child' = DOMAIN child
        /\ Grows
        /\ child'[k].state = "reaped"
        /\ \A d \in DOMAIN child : d # k => child'[d] = child[d]
    BY <2>1, <2>6, <2>7, Passing DEF Grows
  <2>9. Types'
    BY <1>1, <2>4, <2>8 DEF Inv, Types, RowRecord, ChildRecord, ChildStates
  <2>10. \A s \in Children : SupOK(s)'
    BY <1>1, <2>8, SupsKept DEF Inv
  <2>11. ASSUME NEW m \in Names PROVE RowOK(m)'
    <3>1. CASE m # n
      BY <1>1, <2>4, <2>8, <3>1, RowKept, WatchKept DEF Inv, RowOK, OwnLaunch
    <3>2. CASE m = n
      BY <1>1, <1>2, <2>2, <2>4, <3>2, WatchKept DEF RowOK, Setting
    <3> QED
      BY <3>1, <3>2
  <2>12. NoOrphanChild'
    BY <1>1, <2>2, <2>4, <2>5, <2>8 DEF Inv, NoOrphanChild, State
  <2> QED
    BY <1>3, <2>9, <2>10, <2>11, <2>12 DEF Inv
<1> QED
  BY <1>4, <1>5 DEF Handshake

LEMMA CrashStep ==
    ASSUME Inv, NEW c \in Children, Crash(c)
    PROVE  Inv'
<1>1. /\ c \in DOMAIN child /\ child[c].state = "up"
      /\ child' = [child EXCEPT ![c].state = "dead"]
      /\ UNCHANGED <<phase, holder, cfg, conns, batch, sup, supCancel, called>>
  BY DEF Crash, State
<1>2. child \in Seq(ChildRecord) /\ "dead" \in ChildStates
  BY ChildrenStarted DEF Inv, ChildStates
<1>3. /\ child' \in Seq(ChildRecord) /\ Len(child') = Len(child) /\ DOMAIN child' = DOMAIN child
      /\ Grows
      /\ \A d \in DOMAIN child : d # c => child'[d] = child[d]
  BY <1>1, <1>2, Passing DEF Grows
<1>4. Types'
  BY <1>1, <1>3 DEF Inv, Types, ChildRecord, ChildStates
<1>5. Locked'
  BY <1>1, WatchKept DEF Inv, Locked
<1>6. \A s \in Children : SupOK(s)'
  BY <1>1, <1>3, SupsKept DEF Inv
<1>7. \A n \in Names : RowOK(n)'
  BY <1>1, <1>3, RowKept, WatchKept DEF Inv, RowOK, OwnLaunch
<1>8. NoOrphanChild'
  BY <1>1, <1>3 DEF Inv, NoOrphanChild, State
<1> QED
  BY <1>4, <1>5, <1>6, <1>7, <1>8 DEF Inv

(* What superviseUpstream does to the supervisors, if it is called. *)
LEMMA Supervised ==
    ASSUME Inv, NEW n \in Names, NEW c \in Children, c \in DOMAIN child, sup[c].pc = "none",
           Supervise(n, c)
    PROVE  /\ sup' \in [Children -> SupRecord] /\ supCancel' \in [Names -> 0 .. MaxChildren]
           /\ \/ sup'[c] = sup[c]
              \/ /\ supCancel'[n] = c
                 /\ sup'[c].pc = "watch" /\ sup'[c].name = n /\ sup'[c].launch = child[c].launch
                 /\ sup'[c].child = c /\ sup'[c].fresh = 0 /\ ~sup'[c].cancelled
           /\ \A m \in Names : m # n => supCancel'[m] = supCancel[m]
           /\ \A s \in Children : s # c =>
                 /\ sup'[s].pc = sup[s].pc /\ sup'[s].name = sup[s].name
                 /\ sup'[s].launch = sup[s].launch /\ sup'[s].child = sup[s].child
                 /\ sup'[s].fresh = sup[s].fresh
                 /\ sup[s].cancelled => sup'[s].cancelled
<1>1. sup \in [Children -> SupRecord] /\ supCancel \in [Names -> 0 .. MaxChildren]
  BY DEF Inv, Types, SupRecord
<1>2. CASE UNCHANGED <<sup, supCancel>>
  BY <1>1, <1>2
<1>3. CASE ~UNCHANGED <<sup, supCancel>>
  <2> DEFINE new == [NoSup EXCEPT !.pc = "watch", !.name = n, !.child = c,
                                  !.launch = child[c].launch]
             Now(s) == IF s = c THEN new
                       ELSE IF s = supCancel[n] THEN [sup[s] EXCEPT !.cancelled = TRUE]
                       ELSE sup[s]
  <2>1. sup' = [s \in Children |-> Now(s)] /\ supCancel' = [supCancel EXCEPT ![n] = c]
    BY <1>3 DEF Supervise
  <2>2. child[c].launch \in Nat /\ c \in 0 .. MaxChildren
    BY ChildrenStarted, BoundsAssumption DEF Inv, ChildRecord, Children
  <2>3. /\ new \in SupRecord
        /\ new.pc = "watch" /\ new.name = n /\ new.launch = child[c].launch
        /\ new.child = c /\ new.fresh = 0 /\ ~new.cancelled
    <3> DEFINE x == [NoSup EXCEPT !.pc = "watch"]
               y == [x EXCEPT !.name = n]
               z == [y EXCEPT !.child = c]
    <3>1. new = [z EXCEPT !.launch = child[c].launch]
      OBVIOUS
    <3>2. NoSup \in SupRecord /\ NoSup.fresh = 0 /\ NoSup.cancelled = FALSE
      <4>1. 0 \in 0 .. MaxChildren /\ 0 \in 0 .. MaxAttempts + 1
        BY BoundsAssumption
      <4> QED
        BY <4>1 DEF NoSup, SupRecord, Positions
    <3> HIDE DEF new
    <3>3. x \in SupRecord /\ x.pc = "watch" /\ x.fresh = 0 /\ x.cancelled = FALSE
      BY <3>2 DEF SupRecord, Positions
    <3> HIDE DEF x
    <3>4. y \in SupRecord /\ y.pc = "watch" /\ y.name = n /\ y.fresh = 0 /\ y.cancelled = FALSE
      BY <3>3 DEF SupRecord
    <3> HIDE DEF y
    <3>5. /\ z \in SupRecord /\ z.pc = "watch" /\ z.name = n /\ z.child = c
          /\ z.fresh = 0 /\ z.cancelled = FALSE
      BY <2>2, <3>4 DEF SupRecord
    <3> HIDE DEF z
    <3> QED
      BY <2>2, <3>1, <3>5 DEF SupRecord
  <2>5. Now(c) = new
    OBVIOUS
  <2>6. ASSUME NEW s \in Children, s # c
        PROVE  /\ Now(s) \in SupRecord
               /\ Now(s).pc = sup[s].pc /\ Now(s).name = sup[s].name
               /\ Now(s).launch = sup[s].launch /\ Now(s).child = sup[s].child
               /\ Now(s).fresh = sup[s].fresh
               /\ sup[s].cancelled => Now(s).cancelled
    <3>1. sup[s] \in SupRecord
      BY <1>1
    <3>2. CASE s = supCancel[n]
      <4>1. Now(s) = [sup[s] EXCEPT !.cancelled = TRUE]
        BY <2>6, <3>2
      <4> HIDE DEF Now
      <4> QED
        BY <3>1, <4>1, SupCancelled
    <3>3. CASE s # supCancel[n]
      <4>1. Now(s) = sup[s]
        BY <2>6, <3>3
      <4> HIDE DEF Now
      <4> QED
        BY <3>1, <4>1
    <3> QED
      BY <3>2, <3>3
  <2> HIDE DEF new, Now
  <2>7. \A s \in Children : sup'[s] = Now(s)
    BY <2>1
  <2>8. sup' \in [Children -> SupRecord]
    BY <2>1, <2>3, <2>5, <2>6
  <2>9. /\ supCancel' \in [Names -> 0 .. MaxChildren] /\ supCancel'[n] = c
        /\ \A m \in Names : m # n => supCancel'[m] = supCancel[m]
    BY <1>1, <2>1, <2>2
  <2> QED
    BY <2>3, <2>5, <2>6, <2>7, <2>8, <2>9
<1> QED
  BY <1>2, <1>3

LEMMA MergeStep ==
    ASSUME Inv, NEW n \in Names, Merge(n)
    PROVE  Inv'
<1>1. /\ batch[n].stage \in {"launched", "failed"} /\ batch' = [batch EXCEPT ![n] = NoRow]
      /\ UNCHANGED <<phase, holder, cfg, child, called>>
  BY DEF Merge, IsNext, Results, Busy, Row
<1>2. RowOK(n) /\ Unwatched(n) /\ conns[n] = 0
  BY <1>1 DEF Inv, RowOK
<1>3. NoRow \in RowRecord
  BY BoundsAssumption DEF NoRow, RowRecord, Stages, Kinds
<1>4. /\ batch' \in [Names -> RowRecord] /\ batch'[n] = NoRow
      /\ \A m \in Names : m # n => batch'[m] = batch[m]
  BY <1>1, <1>3, RowTyped
<1>5. CASE batch[n].stage = "failed"
  <2>1. UNCHANGED <<conns, sup, supCancel>>
    BY <1>5 DEF Merge
  <2>2. Types'
    BY <1>1, <1>4, <2>1 DEF Inv, Types, RowRecord
  <2>3. Locked'
    BY <1>1, <2>1, RowLocked, WatchKept
  <2>4. \A s \in Children : SupOK(s)'
    BY <1>1, <2>1, SameChildren, SupsKept DEF Inv
  <2>5. ASSUME NEW m \in Names PROVE RowOK(m)'
    <3>1. CASE m # n
      BY <1>1, <1>4, <2>1, <3>1, RowKept, SameChildren, WatchKept DEF Inv, RowOK, OwnLaunch
    <3>2. CASE m = n
      BY <1>1, <1>2, <1>4, <2>1, <3>2 DEF RowOK, NoRow
    <3> QED
      BY <3>1, <3>2
  <2>6. NoOrphanChild'
    <3>1. batch[n].child = 0
      BY <1>2, <1>5 DEF RowOK
    <3> QED
      BY <1>1, <1>4, <2>1, <3>1, ChildrenStarted DEF Inv, NoOrphanChild, State, NoRow
  <2> QED
    BY <2>2, <2>3, <2>4, <2>5, <2>6 DEF Inv
<1>6. CASE batch[n].stage = "launched"
  <2>1. PICK c : c = batch[n].child
    OBVIOUS
  <2>2. conns' = [conns EXCEPT ![n] = c] /\ Supervise(n, c)
    BY <1>6, <2>1 DEF Merge
  <2>3. /\ c # 0 /\ c \in DOMAIN child /\ c \in Children /\ c \in 0 .. MaxChildren
        /\ child[c].name = n /\ child[c].launch = Setting(cfg, n)
        /\ sup[c].pc = "none"
        /\ \A s \in Children : c # sup[s].child /\ c # sup[s].fresh
    <3>1. OwnLaunch(n)
      BY <1>2, <1>6 DEF RowOK
    <3>2. c # 0 /\ c \in DOMAIN child /\ c \in Children
      BY <2>1, <3>1, RowChild DEF OwnLaunch
    <3>3. c \in 0 .. MaxChildren
      BY <2>1 DEF Inv, Types
    <3> QED
      BY <1>2, <2>1, <3>1, <3>2, <3>3 DEF RowOK, OwnLaunch
  <2>4. /\ conns' \in [Names -> 0 .. MaxChildren] /\ conns'[n] = c
        /\ \A m \in Names : m # n => conns'[m] = conns[m]
    BY <2>2, <2>3 DEF Inv, Types
  <2>5. /\ sup' \in [Children -> SupRecord] /\ supCancel' \in [Names -> 0 .. MaxChildren]
        /\ \/ sup'[c] = sup[c]
           \/ /\ supCancel'[n] = c
              /\ sup'[c].pc = "watch" /\ sup'[c].name = n /\ sup'[c].launch = child[c].launch
              /\ sup'[c].child = c /\ sup'[c].fresh = 0 /\ ~sup'[c].cancelled
        /\ \A m \in Names : m # n => supCancel'[m] = supCancel[m]
        /\ \A s \in Children : s # c =>
              /\ sup'[s].pc = sup[s].pc /\ sup'[s].name = sup[s].name
              /\ sup'[s].launch = sup[s].launch /\ sup'[s].child = sup[s].child
              /\ sup'[s].fresh = sup[s].fresh
              /\ sup[s].cancelled => sup'[s].cancelled
    BY <2>2, <2>3, Supervised
  <2>6. sup[c].child = 0 /\ sup[c].fresh = 0
    BY <2>3 DEF Inv, SupOK
  <2>7. \A s \in Children :
           Watching(s)' => \/ s = c /\ sup'[s].name = n
                           \/ s # c /\ Watching(s) /\ sup[s].name # n /\ sup'[s].name = sup[s].name
    <3>1. Watching(c)' => sup'[c].name = n
      BY <2>3, <2>5 DEF Watching, Active
    <3>2. ASSUME NEW s \in Children, s # c, Watching(s)'
          PROVE  Watching(s) /\ sup[s].name # n /\ sup'[s].name = sup[s].name
      BY <1>2, <2>5, <3>2 DEF Watching, Active, Unwatched
    <3> QED
      BY <3>1, <3>2 DEF Watching, Active
  <2>8. Types'
    BY <1>1, <1>4, <2>4, <2>5 DEF Inv, Types, RowRecord, SupRecord
  <2>9. Locked'
    <3>1. phase \notin {"joined", "closed"} /\ "start" \in called
      BY <1>6, RowIsHeld DEF Inv, Locked
    <3> QED
      BY <1>1, <1>6, <3>1, RowLocked
  <2>10. ASSUME NEW s \in Children PROVE SupOK(s)'
    <3>1. CASE s # c
      <4>1. Alone(s)'
        BY <2>3, <2>5, <2>6, <3>1 DEF Inv, SupOK, Alone
      <4>2. Watching(s)' => /\ conns'[sup[s].name] = conns[sup[s].name]
                            /\ supCancel'[sup[s].name] = supCancel[sup[s].name]
        BY <2>4, <2>5, <2>7, <3>1 DEF Inv, SupOK, Watching
      <4> QED
        BY <1>1, <2>5, <3>1, <4>1, <4>2, SupFrame, SameChildren DEF Inv
    <3>2. CASE s = c
      <4>1. Alone(c)'
        BY <2>3, <2>5, <2>6 DEF Alone
      <4>2. SupOK(c)
        BY <2>3 DEF Inv
      <4> QED
        BY <1>1, <2>3, <2>4, <2>5, <3>2, <4>1, <4>2 DEF SupOK, Active, Watching
    <3> QED
      BY <3>1, <3>2
  <2>11. ASSUME NEW m \in Names PROVE RowOK(m)'
    <3>1. CASE m # n
      <4>1. Unwatched(m) => Unwatched(m)'
        BY <2>7, <3>1 DEF Unwatched
      <4>2. batch[m].stage \in {"handshake", "launched"} =>
               /\ OwnLaunch(m) /\ batch[m].child \in Children /\ batch[m].child # c
        BY <2>3, <3>1, RowChild DEF Inv, RowOK, OwnLaunch
      <4>3. batch[m].stage \in {"handshake", "launched"} =>
               /\ sup'[batch[m].child].pc = "none"
               /\ \A s \in Children : /\ batch[m].child # sup'[s].child
                                      /\ batch[m].child # sup'[s].fresh
        BY <2>5, <4>2 DEF OwnLaunch
      <4> QED
        BY <1>1, <1>4, <2>4, <3>1, <4>1, <4>3, RowKept, SameChildren DEF Inv
    <3>2. CASE m = n
      BY <1>1, <1>4, <2>3, <2>4, <3>2 DEF RowOK, NoRow, Setting
    <3> QED
      BY <3>1, <3>2
  <2>12. NoOrphanChild'
    <3> SUFFICES ASSUME NEW d \in DOMAIN child, child[d].state # "reaped"
                 PROVE  \/ \E m \in Names : conns'[m] = d \/ batch'[m].child = d
                        \/ \E s \in Children : sup'[s].fresh = d
      BY <1>1 DEF NoOrphanChild, State
    <3>1. d # 0
      BY ChildrenStarted DEF Inv
    <3>2. CASE \E m \in Names : conns[m] = d \/ batch[m].child = d
      BY <1>2, <1>4, <2>1, <2>4, <3>1, <3>2
    <3>3. CASE \E s \in Children : sup[s].fresh = d
      BY <2>5, <2>6, <3>1, <3>3
    <3> QED
      BY <3>2, <3>3 DEF Inv, NoOrphanChild, State
  <2> QED
    BY <2>8, <2>9, <2>10, <2>11, <2>12 DEF Inv
<1> QED
  BY <1>1, <1>5, <1>6

-----------------------------------------------------------------------------
(* Supervisors. *)

(* g is f but for s, which keeps its name, its settings and its mark. *)
Differ(f, g, s) ==
    /\ f \in [Children -> SupRecord] /\ g \in [Children -> SupRecord]
    /\ \A t \in Children : t # s => g[t] = f[t]
    /\ g[s].name = f[s].name /\ g[s].launch = f[s].launch /\ g[s].cancelled = f[s].cancelled

(* Supervisors f with one field of s changed. *)
WithPc(f, s, x) == [f EXCEPT ![s].pc = x]
WithChild(f, s, x) == [f EXCEPT ![s].child = x]
WithFresh(f, s, x) == [f EXCEPT ![s].fresh = x]
WithAttempt(f, s, x) == [f EXCEPT ![s].attempt = x]

LEMMA SetPc ==
    ASSUME NEW f \in [Children -> SupRecord], NEW s \in Children, NEW x \in Positions
    PROVE  /\ Differ(f, WithPc(f, s, x), s)
           /\ WithPc(f, s, x)[s].pc = x
           /\ WithPc(f, s, x)[s].child = f[s].child
           /\ WithPc(f, s, x)[s].fresh = f[s].fresh
           /\ WithPc(f, s, x)[s].attempt = f[s].attempt
<1>1. f[s] \in SupRecord
  OBVIOUS
<1>2. PICK r : r = [f[s] EXCEPT !.pc = x]
  OBVIOUS
<1>3. /\ r \in SupRecord /\ r.pc = x
      /\ r.name = f[s].name /\ r.launch = f[s].launch /\ r.cancelled = f[s].cancelled
      /\ r.child = f[s].child /\ r.fresh = f[s].fresh /\ r.attempt = f[s].attempt
  BY <1>1, <1>2 DEF SupRecord
<1>4. PICK g : g = WithPc(f, s, x)
  OBVIOUS
<1>5. g = [f EXCEPT ![s] = r]
  BY <1>2, <1>4 DEF WithPc
<1>6. g \in [Children -> SupRecord] /\ g[s] = r /\ \A t \in Children : t # s => g[t] = f[t]
  BY <1>3, <1>5
<1>7. Differ(f, g, s)
  BY <1>3, <1>6 DEF Differ
<1> QED
  BY <1>3, <1>4, <1>6, <1>7

LEMMA SetChild ==
    ASSUME NEW f \in [Children -> SupRecord], NEW s \in Children, NEW x \in 0 .. MaxChildren
    PROVE  /\ Differ(f, WithChild(f, s, x), s)
           /\ WithChild(f, s, x)[s].child = x
           /\ WithChild(f, s, x)[s].pc = f[s].pc
           /\ WithChild(f, s, x)[s].fresh = f[s].fresh
           /\ WithChild(f, s, x)[s].attempt = f[s].attempt
<1>1. f[s] \in SupRecord
  OBVIOUS
<1>2. PICK r : r = [f[s] EXCEPT !.child = x]
  OBVIOUS
<1>3. /\ r \in SupRecord /\ r.child = x
      /\ r.name = f[s].name /\ r.launch = f[s].launch /\ r.cancelled = f[s].cancelled
      /\ r.pc = f[s].pc /\ r.fresh = f[s].fresh /\ r.attempt = f[s].attempt
  BY <1>1, <1>2 DEF SupRecord
<1>4. PICK g : g = WithChild(f, s, x)
  OBVIOUS
<1>5. g = [f EXCEPT ![s] = r]
  BY <1>2, <1>4 DEF WithChild
<1>6. g \in [Children -> SupRecord] /\ g[s] = r /\ \A t \in Children : t # s => g[t] = f[t]
  BY <1>3, <1>5
<1>7. Differ(f, g, s)
  BY <1>3, <1>6 DEF Differ
<1> QED
  BY <1>3, <1>4, <1>6, <1>7

LEMMA SetFresh ==
    ASSUME NEW f \in [Children -> SupRecord], NEW s \in Children, NEW x \in 0 .. MaxChildren
    PROVE  /\ Differ(f, WithFresh(f, s, x), s)
           /\ WithFresh(f, s, x)[s].fresh = x
           /\ WithFresh(f, s, x)[s].pc = f[s].pc
           /\ WithFresh(f, s, x)[s].child = f[s].child
           /\ WithFresh(f, s, x)[s].attempt = f[s].attempt
<1>1. f[s] \in SupRecord
  OBVIOUS
<1>2. PICK r : r = [f[s] EXCEPT !.fresh = x]
  OBVIOUS
<1>3. /\ r \in SupRecord /\ r.fresh = x
      /\ r.name = f[s].name /\ r.launch = f[s].launch /\ r.cancelled = f[s].cancelled
      /\ r.pc = f[s].pc /\ r.child = f[s].child /\ r.attempt = f[s].attempt
  BY <1>1, <1>2 DEF SupRecord
<1>4. PICK g : g = WithFresh(f, s, x)
  OBVIOUS
<1>5. g = [f EXCEPT ![s] = r]
  BY <1>2, <1>4 DEF WithFresh
<1>6. g \in [Children -> SupRecord] /\ g[s] = r /\ \A t \in Children : t # s => g[t] = f[t]
  BY <1>3, <1>5
<1>7. Differ(f, g, s)
  BY <1>3, <1>6 DEF Differ
<1> QED
  BY <1>3, <1>4, <1>6, <1>7

LEMMA SetAttempt ==
    ASSUME NEW f \in [Children -> SupRecord], NEW s \in Children, NEW x \in 0 .. MaxAttempts + 1
    PROVE  /\ Differ(f, WithAttempt(f, s, x), s)
           /\ WithAttempt(f, s, x)[s].attempt = x
           /\ WithAttempt(f, s, x)[s].pc = f[s].pc
           /\ WithAttempt(f, s, x)[s].child = f[s].child
           /\ WithAttempt(f, s, x)[s].fresh = f[s].fresh
<1>1. f[s] \in SupRecord
  OBVIOUS
<1>2. PICK r : r = [f[s] EXCEPT !.attempt = x]
  OBVIOUS
<1>3. /\ r \in SupRecord /\ r.attempt = x
      /\ r.name = f[s].name /\ r.launch = f[s].launch /\ r.cancelled = f[s].cancelled
      /\ r.pc = f[s].pc /\ r.child = f[s].child /\ r.fresh = f[s].fresh
  BY <1>1, <1>2 DEF SupRecord
<1>4. PICK g : g = WithAttempt(f, s, x)
  OBVIOUS
<1>5. g = [f EXCEPT ![s] = r]
  BY <1>2, <1>4 DEF WithAttempt
<1>6. g \in [Children -> SupRecord] /\ g[s] = r /\ \A t \in Children : t # s => g[t] = f[t]
  BY <1>3, <1>5
<1>7. Differ(f, g, s)
  BY <1>3, <1>6 DEF Differ
<1> QED
  BY <1>3, <1>4, <1>6, <1>7

LEMMA Capped ==
    ASSUME NEW a \in 0 .. MaxAttempts + 1
    PROVE  Min({a + 1, MaxAttempts + 1}) \in 0 .. MaxAttempts + 1
<1>1. \A x, y \in Nat : \E m \in {x, y} : \A z \in {x, y} : m <= z
  OBVIOUS
<1>2. Min({a + 1, MaxAttempts + 1}) \in {a + 1, MaxAttempts + 1}
      /\ Min({a + 1, MaxAttempts + 1}) <= MaxAttempts + 1
  <2>1. a + 1 \in Nat /\ MaxAttempts + 1 \in Nat
    BY BoundsAssumption
  <2>2. PICK S : S = {a + 1, MaxAttempts + 1}
    OBVIOUS
  <2>3. \E m \in S : \A z \in S : m <= z
    BY <1>1, <2>1, <2>2
  <2>4. Min(S) \in S /\ \A z \in S : Min(S) <= z
    BY <2>3 DEF Min
  <2> QED
    BY <2>2, <2>4
<1> QED
  BY <1>2, BoundsAssumption

(* A step of supervisor s: what it leaves of the rest.  The child it goes  *)
(* on with is the one it had relaunched, the fresh one its own or new.     *)
SupStep(s) ==
    /\ Active(s)
    /\ Differ(sup, sup', s)
    /\ sup'[s].pc # "none"
    /\ sup'[s].child = sup[s].child \/ (sup'[s].child = sup[s].fresh /\ sup'[s].child # 0)
    /\ \/ sup'[s].fresh = sup[s].fresh \/ sup'[s].fresh = 0
       \/ sup'[s].fresh \notin DOMAIN child
    /\ UNCHANGED <<phase, holder, cfg, batch, supCancel, called>>
    /\ \A t \in Children \ {s} : Watching(t) => conns'[sup[t].name] = conns[sup[t].name]

LEMMA SupStepFrame ==
    ASSUME Inv, NEW s \in Children, SupStep(s), Grows
    PROVE  /\ \A t \in Children : t # s => SupOK(t)'
           /\ Alone(s)'
           /\ \A n \in Names : conns'[n] = conns[n] \/ conns'[n] = 0 => RowOK(n)'
           /\ (\A n \in Names : conns'[n] = 0 \/ conns[n] # 0) => Locked'
<1>1. /\ Active(s) /\ sup'[s].pc # "none"
      /\ \A t \in Children : t # s => sup'[t] = sup[t]
      /\ sup'[s].name = sup[s].name /\ sup'[s].cancelled = sup[s].cancelled
      /\ sup'[s].child = sup[s].child \/ (sup'[s].child = sup[s].fresh /\ sup'[s].child # 0)
      /\ \/ sup'[s].fresh = sup[s].fresh \/ sup'[s].fresh = 0
         \/ sup'[s].fresh \notin DOMAIN child
      /\ UNCHANGED <<phase, holder, cfg, batch, supCancel, called>>
  BY DEF SupStep, Differ
<1>2. \A t \in Children : /\ Active(t)' => Active(t)
                          /\ Watching(t)' => Watching(t)
                          /\ sup'[t].name = sup[t].name
  BY <1>1 DEF Watching, Active
<1>3. \A t \in Children : /\ SupOK(t) /\ Alone(t)
                          /\ sup[t].child # 0 => sup[t].child \in DOMAIN child
                          /\ sup[t].fresh # 0 => sup[t].fresh \in DOMAIN child
  BY DEF Inv, SupOK
<1>4. ASSUME NEW t \in Children, t # s PROVE Alone(t)'
  <2> SUFFICES ASSUME NEW u \in Children, u # t
               PROVE  /\ sup[t].child # 0 => sup[t].child # sup'[u].child /\ sup[t].child # sup'[u].fresh
                      /\ sup[t].fresh # 0 => sup[t].fresh # sup'[u].fresh
    BY <1>1, <1>4 DEF Alone
  <2>1. CASE u # s
    BY <1>1, <1>3, <1>4, <2>1 DEF Alone
  <2>2. CASE u = s
    <3>1. /\ sup[t].child # 0 => sup[t].child # sup[s].child /\ sup[t].child # sup[s].fresh
          /\ sup[t].fresh # 0 => sup[t].fresh # sup[s].fresh
      BY <1>3, <1>4 DEF Alone
    <3> QED
      BY <1>1, <1>3, <2>2, <3>1
  <2> QED
    BY <2>1, <2>2
<1>5. Alone(s)'
  <2> SUFFICES ASSUME NEW t \in Children, t # s
               PROVE  /\ sup'[s].child # 0 => sup'[s].child # sup[t].child /\ sup'[s].child # sup[t].fresh
                      /\ sup'[s].fresh # 0 => sup'[s].fresh # sup[t].fresh
    BY <1>1 DEF Alone
  <2>1. /\ sup[s].child # 0 => sup[s].child # sup[t].child /\ sup[s].child # sup[t].fresh
        /\ sup[s].fresh # 0 => sup[s].fresh # sup[t].fresh
        /\ sup[t].child # 0 => sup[t].child # sup[s].fresh
    BY <1>3 DEF Alone
  <2> QED
    BY <1>1, <1>3, <2>1
<1>6. ASSUME NEW t \in Children, t # s PROVE SupOK(t)'
  <2>1. Watching(t)' => conns'[sup[t].name] = conns[sup[t].name]
    BY <1>2, <1>6 DEF SupStep
  <2> QED
    BY <1>1, <1>3, <1>4, <1>6, <2>1, SupFrame
<1>7. ASSUME NEW n \in Names, conns'[n] = conns[n] \/ conns'[n] = 0 PROVE RowOK(n)'
  <2>1. Unwatched(n) => Unwatched(n)'
    BY <1>2 DEF Unwatched
  <2>2. ASSUME batch[n].stage \in {"handshake", "launched"}
        PROVE  /\ sup'[batch[n].child].pc = "none"
               /\ \A t \in Children : batch[n].child # sup'[t].child /\ batch[n].child # sup'[t].fresh
    <3>1. OwnLaunch(n) /\ batch[n].child \in Children /\ batch[n].child \in DOMAIN child
      BY <2>2, RowChild DEF Inv, RowOK, OwnLaunch
    <3>2. batch[n].child # s
      BY <1>1, <3>1 DEF OwnLaunch, Active
    <3> QED
      BY <1>1, <3>1, <3>2 DEF OwnLaunch
  <2> QED
    BY <1>1, <1>7, <2>1, <2>2, RowKept DEF Inv
<1>8. ASSUME \A n \in Names : conns'[n] = 0 \/ conns[n] # 0 PROVE Locked'
  BY <1>1, <1>2, <1>8 DEF Inv, Locked
<1> QED
  BY <1>4, <1>5, <1>6, <1>7, <1>8

LEMMA WatchStep ==
    ASSUME Inv, NEW s \in Children, Watch(s)
    PROVE  Inv'
<1>1. /\ sup[s].pc = "watch"
      /\ UNCHANGED <<phase, holder, cfg, conns, batch, supCancel, called>>
  BY DEF Watch
<1>2. SupOK(s) /\ sup \in [Children -> SupRecord] /\ child \in Seq(ChildRecord)
  BY ChildrenStarted DEF Inv, Types, SupRecord
<1>3. sup[s].child # 0 /\ sup[s].child \in DOMAIN child /\ sup[s].fresh = 0
  BY <1>1, <1>2 DEF SupOK, Active
<1>4. CASE At(s, "done") /\ child' = child
  <2>1. /\ Differ(sup, sup', s) /\ sup'[s].pc = "done"
        /\ sup'[s].child = sup[s].child /\ sup'[s].fresh = 0
    <3>1. sup' = WithPc(sup, s, "done") /\ "done" \in Positions
      BY <1>4 DEF At, WithPc, Positions
    <3> QED
      BY <1>2, <1>3, <3>1, SetPc
  <2>2. SupStep(s) /\ Grows
    BY <1>1, <1>3, <1>4, <2>1, SameChildren DEF SupStep, Active
  <2>3. SupOK(s)'
    BY <1>1, <1>2, <1>4, <2>1, <2>2, SupStepFrame DEF SupOK, Active, Watching
  <2>4. NoOrphanChild'
    BY <1>1, <1>3, <1>4, <2>1 DEF Inv, NoOrphanChild, State, Differ
  <2>5. Types'
    BY <1>1, <1>4, <2>1 DEF Inv, Types, Differ, SupRecord
  <2> QED
    BY <1>1, <2>2, <2>3, <2>4, <2>5, SupStepFrame DEF Inv
<1>5. CASE Reap(sup[s].child) /\ sup' = [sup EXCEPT ![s].pc = "decide", ![s].attempt = 1]
  <2>1. /\ Differ(sup, sup', s) /\ sup'[s].pc = "decide"
        /\ sup'[s].child = sup[s].child /\ sup'[s].fresh = 0
    <3>1. PICK x : x = WithPc(sup, s, "decide")
      OBVIOUS
    <3>2. sup' = WithAttempt(x, s, 1)
      BY <1>5, <3>1 DEF WithPc, WithAttempt
    <3>3. "decide" \in Positions /\ 1 \in 0 .. MaxAttempts + 1
      BY BoundsAssumption DEF Positions
    <3>4. /\ Differ(sup, x, s) /\ x[s].pc = "decide"
          /\ x[s].child = sup[s].child /\ x[s].fresh = sup[s].fresh
      BY <1>2, <3>1, <3>3, SetPc
    <3>5. x \in [Children -> SupRecord]
      BY <3>4 DEF Differ
    <3>6. /\ Differ(x, sup', s) /\ sup'[s].pc = x[s].pc
          /\ sup'[s].child = x[s].child /\ sup'[s].fresh = x[s].fresh
      BY <3>2, <3>3, <3>5, SetAttempt
    <3> QED
      BY <1>3, <3>4, <3>6 DEF Differ
  <2>2. PICK k : k = sup[s].child
    OBVIOUS
  <2>3. /\ child' \in Seq(ChildRecord) /\ Len(child') = Len(child) /\ DOMAIN child' = DOMAIN child
        /\ Grows /\ child'[k].state = "reaped"
        /\ \A d \in DOMAIN child : d # k => child'[d] = child[d]
    <3>1. k \in DOMAIN child /\ child' = [child EXCEPT ![k].state = "reaped"]
      BY <1>3, <1>5, <2>2 DEF Reap
    <3> QED
      BY <1>2, <3>1, Passing DEF Grows, ChildStates
  <2>4. SupStep(s)
    BY <1>1, <1>3, <2>1 DEF SupStep, Active
  <2>5. SupOK(s)'
    BY <1>1, <1>2, <2>1, <2>2, <2>3, <2>4, SupStepFrame
       DEF SupOK, Active, Watching, Grows, Differ, State
  <2>6. NoOrphanChild'
    BY <1>1, <1>3, <2>1, <2>2, <2>3 DEF Inv, NoOrphanChild, State, Differ
  <2>7. Types'
    BY <1>1, <2>1, <2>3 DEF Inv, Types, Differ, SupRecord, ChildRecord, ChildStates
  <2> QED
    BY <1>1, <2>3, <2>4, <2>5, <2>6, <2>7, SupStepFrame DEF Inv
<1> QED
  BY <1>4, <1>5 DEF Watch

(* Both fields, or all three, at once. *)
LEMMA SetPcFresh ==
    ASSUME NEW f \in [Children -> SupRecord], NEW s \in Children,
           NEW p \in Positions, NEW c \in 0 .. MaxChildren,
           NEW g, g = WithFresh(WithPc(f, s, p), s, c)
    PROVE  /\ Differ(f, g, s)
           /\ g[s].pc = p /\ g[s].fresh = c
           /\ g[s].child = f[s].child /\ g[s].attempt = f[s].attempt
<1>1. PICK x : x = WithPc(f, s, p)
  OBVIOUS
<1>2. /\ Differ(f, x, s) /\ x[s].pc = p
      /\ x[s].child = f[s].child /\ x[s].attempt = f[s].attempt
  BY <1>1, SetPc
<1>3. x \in [Children -> SupRecord] /\ g = WithFresh(x, s, c)
  BY <1>1, <1>2 DEF Differ
<1>4. /\ Differ(x, g, s) /\ g[s].fresh = c /\ g[s].pc = x[s].pc
      /\ g[s].child = x[s].child /\ g[s].attempt = x[s].attempt
  BY <1>3, SetFresh
<1> QED
  BY <1>2, <1>4 DEF Differ

LEMMA DecideStep ==
    ASSUME Inv, NEW s \in Children, Decide(s)
    PROVE  Inv'
<1>1. /\ sup[s].pc = "decide"
      /\ UNCHANGED <<phase, holder, cfg, child, batch, supCancel, called>>
  BY DEF Decide
<1>2. SupOK(s) /\ sup \in [Children -> SupRecord]
  BY DEF Inv, Types, SupRecord
<1>3. /\ sup[s].child # 0 /\ sup[s].child \in DOMAIN child /\ sup[s].fresh = 0
      /\ State(sup[s].child) = "reaped" /\ sup[s].name \in Names
  BY <1>1, <1>2 DEF SupOK, Active
<1>4. CASE At(s, "done") /\ conns' = [conns EXCEPT ![sup[s].name] = IF @ = sup[s].child THEN 0 ELSE @]
  <2>1. /\ Differ(sup, sup', s) /\ sup'[s].pc = "done"
        /\ sup'[s].child = sup[s].child /\ sup'[s].fresh = 0
    <3>1. sup' = WithPc(sup, s, "done") /\ "done" \in Positions
      BY <1>4 DEF At, WithPc, Positions
    <3> QED
      BY <1>2, <1>3, <3>1, SetPc
  <2>2. /\ conns' \in [Names -> 0 .. MaxChildren]
        /\ \A n \in Names : conns'[n] = conns[n] \/ (conns'[n] = 0 /\ conns[n] = sup[s].child)
    BY <1>3, <1>4, BoundsAssumption DEF Inv, Types
  <2>3. ASSUME NEW t \in Children, t # s, Watching(t)
        PROVE  conns'[sup[t].name] = conns[sup[t].name]
    <3>1. conns[sup[t].name] = sup[t].child /\ sup[t].name \in Names
      BY <2>3 DEF Inv, SupOK, Watching
    <3>2. sup[t].child # sup[s].child
      BY <1>2, <1>3, <2>3 DEF SupOK, Alone
    <3> QED
      BY <2>2, <3>1, <3>2
  <2>4. SupStep(s) /\ Grows
    BY <1>1, <1>3, <2>1, <2>3, SameChildren DEF SupStep, Active
  <2>5. SupOK(s)'
    BY <1>1, <1>2, <2>1, <2>4, SupStepFrame DEF SupOK, Active, Watching
  <2>6. NoOrphanChild'
    BY <1>1, <1>3, <2>1, <2>2 DEF Inv, NoOrphanChild, State, Differ
  <2>7. Types'
    BY <1>1, <2>1, <2>2 DEF Inv, Types, Differ, SupRecord
  <2>8. \A n \in Names : RowOK(n)'
    BY <2>2, <2>4, SupStepFrame
  <2>9. Locked'
    BY <2>2, <2>4, SupStepFrame
  <2> QED
    BY <2>4, <2>5, <2>6, <2>7, <2>8, <2>9, SupStepFrame DEF Inv
<1>5. CASE At(s, "backoff") /\ UNCHANGED conns
  <2>1. /\ Differ(sup, sup', s) /\ sup'[s].pc = "backoff"
        /\ sup'[s].child = sup[s].child /\ sup'[s].fresh = 0
    <3>1. sup' = WithPc(sup, s, "backoff") /\ "backoff" \in Positions
      BY <1>5 DEF At, WithPc, Positions
    <3> QED
      BY <1>2, <1>3, <3>1, SetPc
  <2>2. SupStep(s) /\ Grows
    BY <1>1, <1>3, <1>5, <2>1, SameChildren DEF SupStep, Active
  <2>3. SupOK(s)'
    BY <1>1, <1>2, <1>5, <2>1, <2>2, SupStepFrame DEF SupOK, Active, Watching, State, Differ
  <2>4. NoOrphanChild'
    BY <1>1, <1>3, <1>5, <2>1 DEF Inv, NoOrphanChild, State, Differ
  <2>5. Types'
    BY <1>1, <1>5, <2>1 DEF Inv, Types, Differ, SupRecord
  <2> QED
    BY <1>5, <2>2, <2>3, <2>4, <2>5, SupStepFrame DEF Inv
<1> QED
  BY <1>4, <1>5 DEF Decide

LEMMA BackoffStep ==
    ASSUME Inv, NEW s \in Children, Backoff(s)
    PROVE  Inv'
<1>1. /\ sup[s].pc = "backoff"
      /\ UNCHANGED <<phase, holder, cfg, conns, batch, supCancel, called>>
  BY DEF Backoff
<1>2. SupOK(s) /\ sup \in [Children -> SupRecord] /\ child \in Seq(ChildRecord)
  BY ChildrenStarted DEF Inv, Types, SupRecord
<1>3. /\ sup[s].child # 0 /\ sup[s].child \in DOMAIN child /\ sup[s].fresh = 0
      /\ State(sup[s].child) = "reaped" /\ sup[s].name \in Names
      /\ child[sup[s].child].launch = sup[s].launch
      /\ sup[s].attempt \in 0 .. MaxAttempts + 1
  BY <1>1, <1>2 DEF SupOK, Active, SupRecord
<1>4. CASE child' = child /\ (At(s, "done")
             \/ sup' = [sup EXCEPT ![s].pc = "decide", ![s].attempt = Min({@ + 1, MaxAttempts + 1})])
  <2>1. /\ Differ(sup, sup', s) /\ sup'[s].pc \in {"done", "decide"}
        /\ sup'[s].child = sup[s].child /\ sup'[s].fresh = 0
    <3>1. CASE At(s, "done")
      <4>1. sup' = WithPc(sup, s, "done") /\ "done" \in Positions
        BY <3>1 DEF At, WithPc, Positions
      <4> QED
        BY <1>2, <1>3, <4>1, SetPc
    <3>2. CASE sup' = [sup EXCEPT ![s].pc = "decide", ![s].attempt = Min({@ + 1, MaxAttempts + 1})]
      <4>1. PICK x : x = WithPc(sup, s, "decide")
        OBVIOUS
      <4>2. "decide" \in Positions
        BY DEF Positions
      <4>3. /\ Differ(sup, x, s) /\ x[s].pc = "decide" /\ x[s].attempt = sup[s].attempt
            /\ x[s].child = sup[s].child /\ x[s].fresh = sup[s].fresh
        BY <1>2, <4>1, <4>2, SetPc
      <4>4. PICK a : a = Min({sup[s].attempt + 1, MaxAttempts + 1})
        OBVIOUS
      <4>5. sup' = WithAttempt(x, s, a)
        <5>1. sup' = [x EXCEPT ![s].attempt = Min({x[s].attempt + 1, MaxAttempts + 1})]
          BY <3>2, <4>1 DEF WithPc
        <5> QED
          BY <4>3, <4>4, <5>1 DEF WithAttempt
      <4>6. a \in 0 .. MaxAttempts + 1 /\ x \in [Children -> SupRecord]
        BY <1>3, <4>3, <4>4, Capped DEF Differ
      <4>7. /\ Differ(x, sup', s) /\ sup'[s].pc = x[s].pc
            /\ sup'[s].child = x[s].child /\ sup'[s].fresh = x[s].fresh
        BY <4>5, <4>6, SetAttempt
      <4> QED
        BY <1>3, <4>3, <4>7 DEF Differ
    <3> QED
      BY <1>4, <3>1, <3>2
  <2>2. SupStep(s) /\ Grows
    BY <1>1, <1>3, <1>4, <2>1, SameChildren DEF SupStep, Active
  <2>3. SupOK(s)'
    BY <1>1, <1>2, <1>3, <1>4, <2>1, <2>2, SupStepFrame DEF SupOK, Active, Watching, State, Differ
  <2>4. NoOrphanChild'
    BY <1>1, <1>3, <1>4, <2>1 DEF Inv, NoOrphanChild, State, Differ
  <2>5. Types'
    BY <1>1, <1>4, <2>1 DEF Inv, Types, Differ, SupRecord
  <2> QED
    BY <1>1, <2>2, <2>3, <2>4, <2>5, SupStepFrame DEF Inv
<1>5. CASE /\ Len(child) < MaxChildren /\ child' = Born(sup[s].name, sup[s].launch)
           /\ sup' = [sup EXCEPT ![s].pc = "launching", ![s].fresh = Len(child) + 1]
  <2>1. PICK k : k = Len(child) + 1
    OBVIOUS
  <2>2. k \in 0 .. MaxChildren /\ k # 0 /\ k \notin DOMAIN child /\ k <= MaxChildren
    BY <1>5, <2>1, ChildrenStarted, BoundsAssumption DEF Inv
  <2>3. /\ Differ(sup, sup', s) /\ sup'[s].pc = "launching"
        /\ sup'[s].child = sup[s].child /\ sup'[s].fresh = k
    <3>1. sup' = WithFresh(WithPc(sup, s, "launching"), s, k) /\ "launching" \in Positions
      BY <1>5, <2>1 DEF WithPc, WithFresh, Positions
    <3> QED
      BY <1>2, <2>2, <3>1, SetPcFresh
  <2>4. sup[s].launch \in Nat \ {0}
    <3>1. child[sup[s].child] \in ChildRecord
      BY <1>3, ChildrenStarted DEF Inv
    <3> QED
      BY <1>3, <3>1 DEF ChildRecord
  <2>5. /\ child' \in Seq(ChildRecord) /\ Len(child') = k
        /\ DOMAIN child' = DOMAIN child \cup {k}
        /\ \A c \in DOMAIN child : child'[c] = child[c]
        /\ child'[k] = [name |-> sup[s].name, launch |-> sup[s].launch, state |-> "up"]
    <3>1. child' = Append(child, [name |-> sup[s].name, launch |-> sup[s].launch, state |-> "up"])
      BY <1>5 DEF Born
    <3> QED
      BY <1>2, <1>3, <3>1, <2>1, <2>4, Birth
  <2>6. SupStep(s) /\ Grows
    BY <1>1, <1>3, <2>2, <2>3, <2>5 DEF SupStep, Active, Grows
  <2>7. SupOK(s)'
    <3>1. Alone(s)'
      BY <2>6, SupStepFrame
    <3> QED
      BY <1>1, <1>2, <1>3, <2>2, <2>3, <2>5, <3>1 DEF SupOK, Active, Watching, State, Differ
  <2>8. NoOrphanChild'
    <3>1. \A c \in DOMAIN child : c # 0
      BY ChildrenStarted DEF Inv
    <3>2. \A t \in Children : t # s => sup'[t].fresh = sup[t].fresh
      BY <2>3 DEF Differ
    <3> QED
      BY <1>1, <1>3, <2>3, <2>5, <3>1, <3>2 DEF Inv, NoOrphanChild, State
  <2>9. Types'
    BY <1>1, <2>2, <2>3, <2>5 DEF Inv, Types, Differ, SupRecord, ChildRecord, ChildStates
  <2> QED
    BY <1>1, <2>6, <2>7, <2>8, <2>9, SupStepFrame DEF Inv
<1> QED
  BY <1>4, <1>5 DEF Backoff

LEMMA LaunchingStep ==
    ASSUME Inv, NEW s \in Children, Launching(s)
    PROVE  Inv'
<1>1. /\ sup[s].pc = "launching"
      /\ UNCHANGED <<phase, holder, cfg, conns, batch, supCancel, called>>
  BY DEF Launching
<1>2. SupOK(s) /\ sup \in [Children -> SupRecord] /\ child \in Seq(ChildRecord)
  BY ChildrenStarted DEF Inv, Types, SupRecord
<1>3. /\ sup[s].child # 0 /\ sup[s].child \in DOMAIN child
      /\ sup[s].fresh # 0 /\ sup[s].fresh \in DOMAIN child
      /\ State(sup[s].child) = "reaped" /\ sup[s].name \in Names
      /\ sup[s].attempt \in 0 .. MaxAttempts + 1
  BY <1>1, <1>2 DEF SupOK, Active, SupRecord
<1>4. CASE At(s, "install") /\ child' = child
  <2>1. /\ Differ(sup, sup', s) /\ sup'[s].pc = "install"
        /\ sup'[s].child = sup[s].child /\ sup'[s].fresh = sup[s].fresh
    <3>1. sup' = WithPc(sup, s, "install") /\ "install" \in Positions
      BY <1>4 DEF At, WithPc, Positions
    <3> QED
      BY <1>2, <3>1, SetPc
  <2>2. SupStep(s) /\ Grows
    <3>1. sup'[s].child = sup[s].child /\ sup'[s].fresh = sup[s].fresh /\ sup'[s].pc # "none"
      BY <2>1
    <3>2. Active(s) /\ Differ(sup, sup', s)
      BY <1>1, <2>1 DEF Active
    <3>3. UNCHANGED <<phase, holder, cfg, conns, batch, supCancel, called>> /\ Grows
      BY <1>1, <1>4, SameChildren
    <3> QED
      BY <3>1, <3>2, <3>3 DEF SupStep
  <2>3. SupOK(s)'
    BY <1>1, <1>2, <1>3, <1>4, <2>1, <2>2, SupStepFrame DEF SupOK, Active, Watching, State, Differ
  <2>4. NoOrphanChild'
    BY <1>1, <1>4, <2>1 DEF Inv, NoOrphanChild, State, Differ
  <2>5. Types'
    BY <1>1, <1>4, <2>1 DEF Inv, Types, Differ, SupRecord
  <2> QED
    BY <1>1, <2>2, <2>3, <2>4, <2>5, SupStepFrame DEF Inv
<1>5. CASE /\ Reap(sup[s].fresh)
           /\ sup' = [sup EXCEPT ![s].pc = "decide", ![s].fresh = 0,
                                 ![s].attempt = Min({@ + 1, MaxAttempts + 1})]
  <2>1. /\ Differ(sup, sup', s) /\ sup'[s].pc = "decide"
        /\ sup'[s].child = sup[s].child /\ sup'[s].fresh = 0
    <3>1. PICK x : x = WithFresh(WithPc(sup, s, "decide"), s, 0)
      OBVIOUS
    <3>2. "decide" \in Positions /\ 0 \in 0 .. MaxChildren
      BY BoundsAssumption DEF Positions
    <3>3. /\ Differ(sup, x, s) /\ x[s].pc = "decide" /\ x[s].attempt = sup[s].attempt
          /\ x[s].child = sup[s].child /\ x[s].fresh = 0
      BY <1>2, <3>1, <3>2, SetPcFresh
    <3>4. PICK a : a = Min({sup[s].attempt + 1, MaxAttempts + 1})
      OBVIOUS
    <3>5. sup' = WithAttempt(x, s, a)
      <4>1. sup' = [x EXCEPT ![s].attempt = Min({x[s].attempt + 1, MaxAttempts + 1})]
        BY <1>5, <3>1 DEF WithPc, WithFresh
      <4> QED
        BY <3>3, <3>4, <4>1 DEF WithAttempt
    <3>6. a \in 0 .. MaxAttempts + 1 /\ x \in [Children -> SupRecord]
      BY <1>3, <3>3, <3>4, Capped DEF Differ
    <3>7. /\ Differ(x, sup', s) /\ sup'[s].pc = x[s].pc
          /\ sup'[s].child = x[s].child /\ sup'[s].fresh = x[s].fresh
      BY <3>5, <3>6, SetAttempt
    <3> QED
      BY <3>3, <3>7 DEF Differ
  <2>2. PICK k : k = sup[s].fresh
    OBVIOUS
  <2>3. /\ child' \in Seq(ChildRecord) /\ Len(child') = Len(child) /\ DOMAIN child' = DOMAIN child
        /\ Grows /\ child'[k].state = "reaped"
        /\ \A d \in DOMAIN child : d # k => child'[d] = child[d]
    <3>1. k \in DOMAIN child /\ child' = [child EXCEPT ![k].state = "reaped"]
      BY <1>3, <1>5, <2>2 DEF Reap
    <3> QED
      BY <1>2, <3>1, Passing DEF Grows, ChildStates
  <2>4. SupStep(s)
    <3>1. sup'[s].child = sup[s].child /\ sup'[s].fresh = 0 /\ sup'[s].pc # "none"
      BY <2>1
    <3>2. Active(s) /\ Differ(sup, sup', s)
      BY <1>1, <2>1 DEF Active
    <3> QED
      BY <1>1, <3>1, <3>2 DEF SupStep
  <2>5. SupOK(s)'
    <3>1. Alone(s)'
      BY <2>3, <2>4, SupStepFrame
    <3> QED
      BY <1>1, <1>2, <1>3, <2>1, <2>3, <3>1 DEF SupOK, Active, Watching, Grows, Differ, State
  <2>6. NoOrphanChild'
    <3>1. \A t \in Children : t # s => sup'[t].fresh = sup[t].fresh
      BY <2>1 DEF Differ
    <3> QED
      BY <1>1, <2>2, <2>3, <3>1 DEF Inv, NoOrphanChild, State
  <2>7. Types'
    BY <1>1, <2>1, <2>3 DEF Inv, Types, Differ, SupRecord, ChildRecord, ChildStates
  <2> QED
    BY <1>1, <2>3, <2>4, <2>5, <2>6, <2>7, SupStepFrame DEF Inv
<1> QED
  BY <1>4, <1>5 DEF Launching

LEMMA InstallStep ==
    ASSUME Inv, NEW s \in Children, Install(s)
    PROVE  Inv'
<1>1. /\ sup[s].pc = "install"
      /\ UNCHANGED <<phase, holder, cfg, batch, supCancel, called>>
  BY DEF Install
<1>2. SupOK(s) /\ sup \in [Children -> SupRecord] /\ child \in Seq(ChildRecord)
  BY ChildrenStarted DEF Inv, Types, SupRecord
<1>3. /\ sup[s].child # 0 /\ sup[s].child \in DOMAIN child
      /\ child[sup[s].child].launch = sup[s].launch
      /\ sup[s].fresh # 0 /\ sup[s].fresh \in DOMAIN child
      /\ child[sup[s].fresh].name = sup[s].name /\ child[sup[s].fresh].launch = sup[s].launch
      /\ State(sup[s].child) = "reaped" /\ sup[s].name \in Names
  BY <1>1, <1>2 DEF SupOK, Active
<1>4. CASE Retired(s)
  <2>1. /\ Reap(sup[s].fresh) /\ UNCHANGED conns
        /\ sup' = [sup EXCEPT ![s].pc = "done", ![s].fresh = 0]
    BY <1>4 DEF Install
  <2>2. /\ Differ(sup, sup', s) /\ sup'[s].pc = "done"
        /\ sup'[s].child = sup[s].child /\ sup'[s].fresh = 0
    <3>1. /\ sup' = WithFresh(WithPc(sup, s, "done"), s, 0)
          /\ "done" \in Positions /\ 0 \in 0 .. MaxChildren
      BY <2>1, BoundsAssumption DEF WithPc, WithFresh, Positions
    <3> QED
      BY <1>2, <3>1, SetPcFresh
  <2>3. PICK k : k = sup[s].fresh
    OBVIOUS
  <2>4. /\ child' \in Seq(ChildRecord) /\ Len(child') = Len(child) /\ DOMAIN child' = DOMAIN child
        /\ Grows /\ child'[k].state = "reaped"
        /\ \A d \in DOMAIN child : d # k => child'[d] = child[d]
    <3>1. k \in DOMAIN child /\ child' = [child EXCEPT ![k].state = "reaped"]
      BY <1>3, <2>1, <2>3 DEF Reap
    <3> QED
      BY <1>2, <3>1, Passing DEF Grows, ChildStates
  <2>5. SupStep(s)
    <3>1. sup'[s].child = sup[s].child /\ sup'[s].fresh = 0 /\ sup'[s].pc # "none"
      BY <2>2
    <3>2. Active(s) /\ Differ(sup, sup', s)
      BY <1>1, <2>2 DEF Active
    <3>3. UNCHANGED <<phase, holder, cfg, conns, batch, supCancel, called>>
      BY <1>1, <2>1
    <3> QED
      BY <3>1, <3>2, <3>3 DEF SupStep
  <2>6. SupOK(s)'
    <3>1. Alone(s)'
      BY <2>4, <2>5, SupStepFrame
    <3> QED
      BY <1>2, <1>3, <2>2, <2>4, <3>1 DEF SupOK, Active, Watching, Grows
  <2>7. NoOrphanChild'
    <3> SUFFICES ASSUME NEW c \in DOMAIN child, child'[c].state # "reaped"
                 PROVE  \/ \E n \in Names : conns'[n] = c \/ batch'[n].child = c
                        \/ \E t \in Children : sup'[t].fresh = c
      BY <2>4 DEF NoOrphanChild, State
    <3>1. c # k /\ child'[c] = child[c]
      BY <2>4
    <3>2. \/ \E n \in Names : conns[n] = c \/ batch[n].child = c
          \/ \E t \in Children : sup[t].fresh = c
      BY <3>1 DEF Inv, NoOrphanChild, State
    <3>3. \A t \in Children : sup[t].fresh = c => sup'[t].fresh = c
      BY <2>2, <2>3, <3>1 DEF Differ
    <3> QED
      BY <1>1, <2>1, <3>2, <3>3
  <2>8. Types'
    BY <1>1, <2>1, <2>2, <2>4 DEF Inv, Types, Differ, SupRecord, ChildRecord, ChildStates
  <2> QED
    BY <2>1, <2>4, <2>5, <2>6, <2>7, <2>8, SupStepFrame DEF Inv
<1>5. CASE ~Retired(s)
  <2>0. PICK n : n = sup[s].name
    OBVIOUS
  <2>1. /\ conns' = [conns EXCEPT ![n] = sup[s].fresh] /\ UNCHANGED child
        /\ sup' = [sup EXCEPT ![s].pc = "watch", ![s].child = sup[s].fresh, ![s].fresh = 0]
    BY <1>5, <2>0 DEF Install
  <2>2. n \in Names /\ Watching(s) /\ conns[n] = sup[s].child /\ supCancel[n] = s
    BY <1>1, <1>2, <1>3, <1>5, <2>0 DEF Retired, Watching, Active, SupOK
  <2>3. PICK k : k = sup[s].fresh
    OBVIOUS
  <2>4. k # 0 /\ k \in DOMAIN child /\ k \in 0 .. MaxChildren
    BY <1>2, <1>3, <2>3 DEF SupRecord
  <2>5. /\ Differ(sup, sup', s) /\ sup'[s].pc = "watch"
        /\ sup'[s].child = k /\ sup'[s].fresh = 0
    <3>1. PICK x : x = WithPc(sup, s, "watch")
      OBVIOUS
    <3>2. PICK y : y = WithChild(x, s, k)
      OBVIOUS
    <3>3. sup' = WithFresh(y, s, 0)
      BY <2>1, <2>3, <3>1, <3>2 DEF WithPc, WithChild, WithFresh
    <3>4. "watch" \in Positions /\ 0 \in 0 .. MaxChildren
      BY BoundsAssumption DEF Positions
    <3>5. Differ(sup, x, s) /\ x[s].pc = "watch"
      BY <1>2, <3>1, <3>4, SetPc
    <3>6. x \in [Children -> SupRecord]
      BY <3>5 DEF Differ
    <3>7. Differ(x, y, s) /\ y[s].pc = "watch" /\ y[s].child = k
      BY <2>4, <3>2, <3>5, <3>6, SetChild
    <3>8. y \in [Children -> SupRecord]
      BY <3>7 DEF Differ
    <3>9. Differ(y, sup', s) /\ sup'[s].pc = "watch" /\ sup'[s].child = k /\ sup'[s].fresh = 0
      BY <3>3, <3>4, <3>7, <3>8, SetFresh
    <3> QED
      BY <3>5, <3>7, <3>9 DEF Differ
  <2>6. /\ conns' \in [Names -> 0 .. MaxChildren] /\ conns'[n] = k
        /\ \A m \in Names : m # n => conns'[m] = conns[m]
    BY <2>1, <2>2, <2>3, <2>4 DEF Inv, Types
  <2>7. ASSUME NEW t \in Children, t # s, Watching(t)
        PROVE  conns'[sup[t].name] = conns[sup[t].name]
    <3>1. supCancel[sup[t].name] = t /\ sup[t].name \in Names
      BY <2>7 DEF Inv, SupOK, Watching
    <3> QED
      BY <2>0, <2>2, <2>6, <2>7, <3>1
  <2>8. SupStep(s) /\ Grows
    BY <1>1, <2>1, <2>3, <2>4, <2>5, <2>7, SameChildren DEF SupStep, Active
  <2>9. SupOK(s)'
    <3>1. Alone(s)'
      BY <2>8, SupStepFrame
    <3> QED
      BY <1>1, <1>2, <1>3, <2>0, <2>1, <2>2, <2>3, <2>4, <2>5, <2>6, <3>1
         DEF SupOK, Active, Watching, Differ
  <2>10. RowOK(n)'
    <3>1. batch[n].stage \in {"none", "retire"} /\ RowOK(n)
      BY <2>0, <2>2 DEF Inv, RowOK, Unwatched, Types, RowRecord, Stages
    <3>2. conns[n] # 0
      BY <1>3, <2>2
    <3> QED
      BY <1>1, <1>3, <2>0, <2>1, <2>2, <2>3, <2>4, <2>6, <3>1, <3>2 DEF RowOK, Setting
  <2>11. \A m \in Names : RowOK(m)'
    <3>1. \A m \in Names : m # n => RowOK(m)'
      BY <2>6, <2>8, SupStepFrame
    <3> QED
      BY <2>10, <3>1
  <2>12. Locked'
    <3>1. \A m \in Names : conns'[m] = 0 \/ conns[m] # 0
      BY <1>3, <2>2, <2>6 DEF Inv, Locked
    <3> QED
      BY <2>8, <3>1, SupStepFrame
  <2>13. NoOrphanChild'
    <3> SUFFICES ASSUME NEW c \in DOMAIN child, child[c].state # "reaped"
                 PROVE  \/ \E m \in Names : conns'[m] = c \/ batch'[m].child = c
                        \/ \E t \in Children : sup'[t].fresh = c
      BY <2>1 DEF NoOrphanChild, State
    <3>1. \/ \E m \in Names : conns[m] = c \/ batch[m].child = c
          \/ \E t \in Children : sup[t].fresh = c
      BY DEF Inv, NoOrphanChild, State
    <3>2. \A m \in Names : conns[m] = c => conns'[m] = c
      BY <1>3, <2>2, <2>6 DEF State
    <3>3. \A t \in Children : sup[t].fresh = c => sup'[t].fresh = c \/ conns'[n] = c
      BY <2>3, <2>5, <2>6 DEF Differ
    <3> QED
      BY <1>1, <2>2, <3>1, <3>2, <3>3
  <2>14. Types'
    BY <1>1, <2>1, <2>5, <2>6 DEF Inv, Types, Differ, SupRecord
  <2> QED
    BY <2>8, <2>9, <2>11, <2>12, <2>13, <2>14, SupStepFrame DEF Inv
<1> QED
  BY <1>4, <1>5

-----------------------------------------------------------------------------
LEMMA StepKeeps ==
    ASSUME Inv, [Next]_vars
    PROVE  Inv'
<1>1. ASSUME NEW n \in Names, Work(n) PROVE Inv'
  BY <1>1, RetireStep, CloseOldStep, DropStep, SpawnStep, HandshakeStep, MergeStep DEF Work
<1>2. ASSUME NEW s \in Children, Step(s) PROVE Inv'
  BY <1>2, WatchStep, DecideStep, BackoffStep, LaunchingStep, InstallStep DEF Step
<1>3. ASSUME NEW c \in Children, Crash(c) PROVE Inv'
  BY <1>3, CrashStep
<1>4. CASE BeginStart \/ BeginReload \/ Finish
  BY <1>4, BeginStartStep, BeginReloadStep, FinishStep
<1>5. CASE CallClose \/ BeginClose \/ JoinSupervisors \/ UNCHANGED vars
  BY <1>5, ClosingStep
<1>6. CASE CloseConns
  BY <1>6, CloseConnsStep
<1> QED
  BY <1>1, <1>2, <1>3, <1>4, <1>5, <1>6 DEF Next

(* The inductive invariant: Start, Reload, Close and the supervisors keep  *)
(* to their parts of the shared state.                                     *)
THEOREM LifecycleInvariant == Safety => []Inv
<1>1. Init => Inv
  <2> SUFFICES ASSUME Init PROVE Inv
    OBVIOUS
  <2>1. /\ phase = "new" /\ holder = "nobody" /\ cfg = 1 /\ child = <<>> /\ called = {}
        /\ \A n \in Names : conns[n] = 0 /\ batch[n] = NoRow /\ supCancel[n] = 0
        /\ \A s \in Children : sup[s] = NoSup
    BY DEF Init
  <2>2. Types
    <3>1. 0 \in 0 .. MaxChildren /\ 0 \in 0 .. MaxAttempts + 1 /\ 0 <= MaxChildren
      BY BoundsAssumption
    <3>2. 1 \in 1 .. Len(Configs)
      <4>1. \A S : Configs \in Seq(S) /\ Configs # <<>> => Len(Configs) \in Nat /\ Len(Configs) > 0
        OBVIOUS
      <4> QED
        BY <4>1, ConfigsAssumption
    <3>3. batch \in [Names -> RowRecord]
      BY <3>1 DEF Init, NoRow, RowRecord, Stages, Kinds
    <3>4. NoSup \in SupRecord
      BY <3>1 DEF NoSup, SupRecord, Positions
    <3>5. sup \in [Children -> SupRecord]
      BY <3>4 DEF Init
    <3>6. child \in Seq(ChildRecord) /\ Len(child) = 0
      BY <2>1
    <3> QED
      BY <2>1, <3>1, <3>2, <3>3, <3>5, <3>6
         DEF Init, Types, RowRecord, SupRecord, ChildRecord, ChildStates
  <2>3. Locked
    BY <2>1 DEF Locked, NoRow
  <2>4. \A s \in Children : ~Active(s) /\ SupOK(s)
    BY <2>1 DEF SupOK, Active, Watching, Alone, NoSup
  <2>5. \A n \in Names : RowOK(n)
    <3> SUFFICES ASSUME NEW n \in Names PROVE RowOK(n)
      OBVIOUS
    <3>1. conns[n] = 0 /\ batch[n].stage = "none" /\ batch[n].child = 0
      BY <2>1 DEF NoRow
    <3> QED
      BY <3>1 DEF RowOK
  <2>6. NoOrphanChild
    BY <2>1 DEF NoOrphanChild
  <2> QED
    BY <2>2, <2>3, <2>4, <2>5, <2>6 DEF Inv
<1> QED
  BY <1>1, StepKeeps, PTL DEF Safety

(* Every variable has its type, and no child is referred to before it has  *)
(* been started.                                                           *)
THEOREM LifecycleTyping == Safety => []TypeOK
<1>1. Inv => TypeOK
  <2> SUFFICES ASSUME Inv PROVE ChildrenExist
    BY DEF Inv, TypeOK
  <2>1. Len(child) \in Nat /\ \A c \in DOMAIN child : c <= Len(child)
    BY ChildrenStarted DEF Inv
  <2> QED
    BY <2>1 DEF Inv, RowOK, SupOK, ChildrenExist
<1> QED
  BY <1>1, LifecycleInvariant, PTL

(* No child process is left over and, between reloads, none runs on an old *)
(* configuration, however crashes, restarts, reloads and Close overlap     *)
(* (superviseUpstream, Reload, Close).                                     *)
THEOREM ChildrenAccounted == Safety => []ChildrenAreAccounted
<1>1. Inv => ChildrenAreAccounted
  <2> SUFFICES ASSUME Inv PROVE RunsAsConfigured
    BY DEF Inv, ChildrenAreAccounted
  <2> QED
    BY DEF Inv, Locked, RowOK, RunsAsConfigured, Live
<1> QED
  BY <1>1, LifecycleInvariant, PTL

(* A name has one supervisor that is not retired, and what is installed    *)
(* under the name is the child it watches.                                 *)
OneWatcher ==
    \A s, t \in Children :
        /\ Watching(s) => conns[sup[s].name] = sup[s].child
        /\ Watching(s) /\ Watching(t) /\ sup[s].name = sup[t].name => s = t

(* A restart hands the watch over: no two supervisors relaunch one name.   *)
THEOREM WatchersAreAlone == Safety => []OneWatcher
<1>1. Inv => OneWatcher
  BY DEF Inv, SupOK, OneWatcher
<1> QED
  BY <1>1, LifecycleInvariant, PTL
-----------------------------------------------------------------------------
(* What CloseReturns rests on, short of fairness: nobody who holds or      *)
(* wants lifecycleMu waits for what cannot happen.                         *)

(* A nonempty set of naturals has a least element. *)
LEMMA Least ==
    ASSUME NEW T \in SUBSET Nat, T # {}
    PROVE  \E x \in T : \A y \in T : x <= y
<1>1. PICK x \in T : \A y \in T : <<y, x>> \notin OpToRel(<, Nat)
  BY NatLessThanWellFounded, WFMin
<1>2. ASSUME NEW y \in T PROVE x <= y
  <2>1. ~(y < x)
    BY <1>1 DEF OpToRel
  <2> QED
    BY <2>1
<1> QED
  BY <1>2

(* What a row waits for has come: its turn among the rows, or only what    *)
(* ends by itself, a close and a handshake.                                *)
RowMoves(n) ==
    \/ batch[n].stage \in {"retire", "launch"} /\ MayWork(n)
    \/ batch[n].stage \in {"close", "drop", "handshake"}
    \/ IsNext(n)

(* Start and Reload have finished their rows or one of them moves; Close   *)
(* has joined the supervisors, or each that it waits for has been told to  *)
(* leave; and the lock is free unless one of the three goes on.            *)
NeverStuck ==
    /\ holder \in {"start", "reload"} =>
          Busy(Stages \ {"none"}) = {} \/ \E n \in Names : RowMoves(n)
    /\ holder = "close" =>
          phase = "joined" \/ (phase = "closing" /\ \A s \in Children : Active(s) => Retired(s))
    /\ holder = "nobody" => phase \in {"new", "running", "closed"}

LEMMA Ranks ==
    ASSUME NEW n \in Names
    PROVE  Rank(n) \in Nat
<1>1. PICK i \in DOMAIN Order : Order[i] = n
  BY OrderAssumption
<1> DEFINE j == CHOOSE k \in DOMAIN Order : Order[k] = n
<1>2. j \in DOMAIN Order
  BY <1>1
<1>3. Len(Order) \in Nat /\ DOMAIN Order \subseteq Nat
  BY OrderAssumption
<1>4. j \in Nat
  BY <1>2, <1>3
<1>5. Rank(n) = j + (IF batch[n].kind = "changed" THEN 0 ELSE Len(Order))
  BY DEF Rank
<1> HIDE DEF j
<1> QED
  BY <1>3, <1>4, <1>5

(* No row waits for another in a circle: the removed ones retire one after *)
(* the other, the others start when these are gone, and the merge takes    *)
(* them in their order.                                                    *)
LEMMA RowsMove ==
    ASSUME Inv, Busy(Stages \ {"none"}) # {}
    PROVE  \E n \in Names : RowMoves(n)
<1>1. \A n \in Names : batch[n].stage \in Stages
  BY DEF Inv, Types
<1>2. CASE Busy({"close", "drop", "handshake"}) # {}
  BY <1>2 DEF Busy, RowMoves
<1>3. CASE /\ Busy({"close", "drop", "handshake"}) = {}
           /\ \E n \in Names : batch[n].kind = "removed" /\ batch[n].stage = "retire"
  <2>1. PICK n \in Names : batch[n].kind = "removed" /\ batch[n].stage = "retire"
    BY <1>3
  <2>2. MayWork(n)
    BY <1>3, <2>1 DEF MayWork, Removing, Busy
  <2> QED
    BY <2>1, <2>2 DEF RowMoves
<1>4. CASE /\ Busy({"close", "drop", "handshake"}) = {}
           /\ ~ \E n \in Names : batch[n].kind = "removed" /\ batch[n].stage = "retire"
           /\ Busy({"retire", "launch"}) # {}
  <2>1. PICK n \in Names : batch[n].stage \in {"retire", "launch"}
    BY <1>4 DEF Busy
  <2>2. \A m \in Names : batch[m].kind # "removed" \/ batch[m].stage = "none"
    BY <1>1, <1>4 DEF Busy, Stages, Inv, RowOK
  <2>3. MayWork(n)
    BY <2>1, <2>2 DEF MayWork
  <2> QED
    BY <2>1, <2>3 DEF RowMoves
<1>5. CASE Busy({"retire", "close", "drop", "launch", "handshake"}) = {}
  <2> DEFINE T == {Rank(n) : n \in Results}
  <2>1. Results # {}
    BY <1>1, <1>5 DEF Busy, Stages, Results
  <2>2. T \in SUBSET Nat /\ T # {}
    BY <2>1, Ranks DEF Results, Busy
  <2> HIDE DEF T
  <2>3. PICK r \in T : \A k \in T : r <= k
    BY <2>2, Least
  <2>4. PICK n \in Results : r = Rank(n)
    BY <2>3 DEF T
  <2>5. \A m \in Results : Rank(n) <= Rank(m)
    BY <2>3, <2>4 DEF T
  <2>6. IsNext(n)
    BY <1>5, <2>5 DEF IsNext
  <2> QED
    BY <2>6 DEF RowMoves, Results, Busy
<1> QED
  BY <1>2, <1>3, <1>4, <1>5 DEF Busy

(* Close gets the lock and gives it back if its steps and those it waits   *)
(* for are taken: no reload's row, no supervisor and no launch is in its   *)
(* way for good (Close, Reload, supervisors.Wait).                         *)
THEOREM CloseIsNeverStuck == Safety => []NeverStuck
<1>1. Inv => NeverStuck
  <2> SUFFICES ASSUME Inv PROVE NeverStuck
    OBVIOUS
  <2>1. holder \in {"start", "reload"} =>
           Busy(Stages \ {"none"}) = {} \/ \E n \in Names : RowMoves(n)
    BY RowsMove
  <2>2. holder = "close" =>
           phase = "joined" \/ (phase = "closing" /\ \A s \in Children : Active(s) => Retired(s))
    BY DEF Inv, Locked, Retired, ProcCancelled
  <2>3. holder = "nobody" => phase \in {"new", "running", "closed"}
    BY DEF Inv, Types, Locked
  <2> QED
    BY <2>1, <2>2, <2>3 DEF NeverStuck
<1> QED
  BY <1>1, LifecycleInvariant, PTL
=============================================================================
