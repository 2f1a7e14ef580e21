------------------------------- MODULE Parts --------------------------------
(***************************************************************************)
(* The components that share no modelled state, side by side: `turn' picks *)
(* the one that runs and the others stay where they start, so the states   *)
(* are the sum of theirs.  Lifecycle keeps its own names.                  *)
(***************************************************************************)
EXTENDS Lifecycle

CONSTANTS   \* HttpUpstream
    Callers, CallKinds, MaxSessions, MaxFailures, MaxEvents, OffersStream

CONSTANTS   \* ConfigReload
    MaxSaves, MaxSignals, MaxRetries

CONSTANTS   \* Catalog, of the upstreams of Lifecycle
    Tools, Uris, Facing, Listed, Matched, PageSize

CONSTANTS   \* Journal
    Keys, CallRecord, Threads, Wanted, LastOnly, MaxNotes, MaxTruncations

CONSTANTS   \* StdioServe
    ClientFrames, MaxFrames, MaxPushes, NotifBuf

VARIABLES
    turn,
    h_session, h_ready, h_call, h_runs, h_live, h_minted, h_failures,
    h_events, h_stream, h_carried, h_lastID, h_partial, h_handed, h_closing,
    c_contents, c_saves, c_present, c_boot, c_registry, c_inForce, c_judged,
    c_det, c_poll, c_hup, c_sig, c_signals,
    k_conns, k_raw, k_aux, k_tools, k_resources, k_templates, k_defects,
    k_version, k_todo, k_cached, k_cacheValid, k_listing,
    j_noted, j_fresh, j_held, j_emitting, j_flushing, j_closing, j_busy,
    j_lines, j_file, j_lost, j_truncations, j_shown, j_follow,
    s_sent, s_hungUp, s_stalled, s_ctx, s_loop, s_out, s_read,
    s_initialized, s_pendingListChanged, s_started, s_running, s_signal,
    s_notifs, s_asking, s_asked, s_clientCaps, s_declared, s_pushes,
    s_replies, s_greeted, s_early, s_untold

ASSUME HttpAssumption ==
    /\ CallKinds \subseteq {"tool", "list"}
    /\ MaxSessions \in Nat \ {0} /\ MaxFailures \in Nat /\ MaxEvents \in Nat
    /\ OffersStream \in BOOLEAN

ASSUME JournalAssumption ==
    /\ "nobody" \notin Threads
    /\ LastOnly \in Nat /\ MaxNotes \in Nat /\ MaxTruncations \in Nat

ASSUME ConfigAssumption ==
    MaxSaves \in Nat \ {0} /\ MaxSignals \in Nat /\ MaxRetries \in Nat

ASSUME StdioAssumption ==
    /\ MaxFrames \in Nat /\ MaxPushes \in Nat /\ NotifBuf \in Nat
    /\ \A f \in ClientFrames : f.able \in BOOLEAN

-----------------------------------------------------------------------------
Http == INSTANCE HttpUpstream WITH
    Kinds <- CallKinds,
    session <- h_session, ready <- h_ready, call <- h_call, runs <- h_runs,
    live <- h_live, minted <- h_minted, failures <- h_failures,
    events <- h_events, stream <- h_stream, carried <- h_carried,
    lastID <- h_lastID, partial <- h_partial, handed <- h_handed,
    closing <- h_closing
httpVars == <<
    h_session, h_ready, h_call, h_runs, h_live, h_minted, h_failures,
    h_events, h_stream, h_carried, h_lastID, h_partial, h_handed, h_closing>>

Config == INSTANCE ConfigReload WITH
    contents <- c_contents, saves <- c_saves, present <- c_present,
    boot <- c_boot, registry <- c_registry, inForce <- c_inForce,
    judged <- c_judged, det <- c_det, poll <- c_poll, hup <- c_hup,
    sig <- c_sig, signals <- c_signals
configVars == <<
    c_contents, c_saves, c_present, c_boot, c_registry, c_inForce, c_judged,
    c_det, c_poll, c_hup, c_sig, c_signals>>

Cat == INSTANCE Catalog WITH
    conns <- k_conns, raw <- k_raw, aux <- k_aux, tools <- k_tools,
    resources <- k_resources, templates <- k_templates, defects <- k_defects,
    version <- k_version, todo <- k_todo, cached <- k_cached,
    cacheValid <- k_cacheValid, listing <- k_listing
catVars == <<
    k_conns, k_raw, k_aux, k_tools, k_resources, k_templates, k_defects,
    k_version, k_todo, k_cached, k_cacheValid, k_listing>>

Log == INSTANCE Journal WITH
    Call <- CallRecord,
    noted <- j_noted, fresh <- j_fresh, held <- j_held,
    emitting <- j_emitting, flushing <- j_flushing, closing <- j_closing,
    busy <- j_busy, lines <- j_lines, file <- j_file, lost <- j_lost,
    truncations <- j_truncations, shown <- j_shown, follow <- j_follow
logVars == <<
    j_noted, j_fresh, j_held, j_emitting, j_flushing, j_closing, j_busy,
    j_lines, j_file, j_lost, j_truncations, j_shown, j_follow>>

Stdio == INSTANCE StdioServe WITH
    sent <- s_sent, hungUp <- s_hungUp, stalled <- s_stalled, ctx <- s_ctx,
    loop <- s_loop, out <- s_out, read <- s_read,
    initialized <- s_initialized, pendingListChanged <- s_pendingListChanged,
    started <- s_started, running <- s_running, signal <- s_signal,
    notifs <- s_notifs, asking <- s_asking, asked <- s_asked,
    clientCaps <- s_clientCaps, declared <- s_declared, pushes <- s_pushes,
    replies <- s_replies, greeted <- s_greeted, early <- s_early,
    untold <- s_untold
stdioVars == <<
    s_sent, s_hungUp, s_stalled, s_ctx, s_loop, s_out, s_read,
    s_initialized, s_pendingListChanged, s_started, s_running, s_signal,
    s_notifs, s_asking, s_asked, s_clientCaps, s_declared, s_pushes,
    s_replies, s_greeted, s_early, s_untold>>

(* Of the configurations only what they make of the tools is known; lists  *)
(* are paged (page_size is not 0).                                         *)
ASSUME CatalogAssumption ==
    /\ Facing \in Seq([Names -> [Tools -> Nat]]) /\ Facing # <<>>
    /\ IsFiniteSet(Names) /\ IsFiniteSet(Cat!FaceNames)
    /\ Listed \in [Names -> SUBSET Uris]
    /\ PageSize \in Nat \ {0}

-----------------------------------------------------------------------------
partsVars == <<turn, httpVars, vars, configVars, catVars, logVars, stdioVars>>

(* The configuration file's contents vary only where they are looked at. *)
PartsInit ==
    /\ turn \in {"http", "life", "config", "cat", "log", "stdio"}
    /\ Http!Init /\ Init /\ Config!Init /\ Cat!Init /\ Log!Init /\ Stdio!Init
    /\ turn # "config" => \A k \in DOMAIN c_contents : c_contents[k] = "good"

HttpStep == turn = "http" /\ Http!Next
    /\ UNCHANGED <<turn, vars, configVars, catVars, logVars, stdioVars>>
LifeStep == turn = "life" /\ Next
    /\ UNCHANGED <<turn, httpVars, configVars, catVars, logVars, stdioVars>>
ConfigStep == turn = "config" /\ Config!Next
    /\ UNCHANGED <<turn, httpVars, vars, catVars, logVars, stdioVars>>
CatStep == turn = "cat" /\ Cat!Next
    /\ UNCHANGED <<turn, httpVars, vars, configVars, logVars, stdioVars>>
LogStep == turn = "log" /\ Log!Next
    /\ UNCHANGED <<turn, httpVars, vars, configVars, catVars, stdioVars>>
StdioStep == turn = "stdio" /\ Stdio!Next
    /\ UNCHANGED <<turn, httpVars, vars, configVars, catVars, logVars>>

PartsNext == HttpStep \/ LifeStep \/ ConfigStep \/ CatStep \/ LogStep \/ StdioStep

(* Each component's own fairness, while it runs. *)
LifeFairness ==
    /\ \A n \in Names : WF_vars(turn = "life" /\ Work(n))
    /\ \A s \in Children : WF_vars(turn = "life" /\ Step(s))
    /\ WF_vars(turn = "life" /\ Finish)
    /\ WF_vars(turn = "life" /\ BeginClose)
    /\ WF_vars(turn = "life" /\ JoinSupervisors)
    /\ WF_vars(turn = "life" /\ CloseConns)

ConfigFairness ==
    /\ WF_configVars(turn = "config" /\ Config!Booting)
    /\ WF_configVars(turn = "config" /\ Config!Polling)
    /\ WF_configVars(turn = "config" /\ Config!Signalled)

StdioFairness ==
    /\ WF_stdioVars(turn = "stdio" /\ Stdio!Loop)
    /\ SF_stdioVars(turn = "stdio" /\ Stdio!CtxDone)
    /\ SF_stdioVars(turn = "stdio" /\ Stdio!CatalogChanged)
    /\ SF_stdioVars(turn = "stdio" /\ Stdio!ServerReq)
    /\ SF_stdioVars(turn = "stdio" /\ (Stdio!Frame \/ Stdio!BeginStart))
    /\ \A i \in Stdio!Frames : WF_stdioVars(turn = "stdio" /\ Stdio!CallReplies(i))

PartsSpec == PartsInit /\ [][PartsNext]_partsVars /\ LifeFairness /\ ConfigFairness /\ StdioFairness

-----------------------------------------------------------------------------
(* Every variable of every component has its type. *)
Typed ==
    /\ turn = "http" => Http!TypeOK
    /\ turn = "life" => TypeOK
    /\ turn = "config" => Config!TypeOK
    /\ turn = "cat" => Cat!TypeOK
    /\ turn = "log" => Log!TypeOK
    /\ turn = "stdio" => Stdio!TypeOK

(* The connection to an HTTP upstream never has a call run twice, nor      *)
(* hands an event in twice or out of order, gives the stream up or leaves  *)
(* it running, whatever expires, fails or closes meanwhile (http.go).      *)
ConnectionIsFaithful ==
    /\ Http!ExecutedOnce /\ Http!HandedInOrder
    /\ Http!PushIsNotGivenUp /\ Http!StreamEndsWithClose

(* What tools/list says is so, and who pages through it while it changes   *)
(* misses nothing that stayed (mergeLocked, paginatedToolsList).           *)
CatalogIsHonest == Cat!CatalogIsTrue /\ Cat!PagesMissNothing

(* Throttling loses no occurrence and following the journal no line        *)
(* (events.go, logs.go).                                                   *)
JournalIsFaithful == Log!CountsAddUp /\ Log!FollowIsFaithful

(* Nothing reaches a stdio client before its handshake nor twice, and the  *)
(* upstreams are told what it declared (Serve).                            *)
HandshakeFirst == Stdio!HandshakeFirst

(* No edit of the file goes unread while the gateway runs (pollConfig).    *)
EditIsJudged == Config!EditIsJudged

(* A client that reads is owed nothing for ever (Serve, writeOrBail).      *)
Serves == Stdio!Serves
=============================================================================
