------------------------------- MODULE Catalog -------------------------------
(***************************************************************************)
(* The aggregated catalog (registry.go: mergeLocked, dropLocked,           *)
(* installLocked and their callers) and a client that pages through it     *)
(* (dispatch.go: handleToolsList).  Every action here is one hold of r.mu. *)
(*                                                                         *)
(* A client-facing name is a number, in the order names sort; Facing says  *)
(* what the tools filter of each configuration makes of an upstream's      *)
(* tools, 0 for one it hides.  An upstream's templates stay together, so   *)
(* its name stands for all of them in the list.                            *)
(***************************************************************************)
EXTENDS Naturals, SequencesExt

CONSTANTS
    Names, Tools,
    Uris,       \* numbers too, none of them a name
    Facing,     \* Facing[v][n][t]: the client-facing name, 0 if filtered out
    Listed,     \* Listed[n]: the uris an upstream lists
    Matched,    \* Matched[n]: the uris its templates match
    PageSize    \* page_size

VARIABLES
    conns,      \* r.conns: the installed upstreams
    raw,        \* r.rawTools
    aux,        \* upstreams whose resources and templates were fetched
    tools,      \* r.tools and r.toolRoute
    resources,  \* r.resources and r.resourceRoute
    templates,  \* r.resourceTemplates
    defects,    \* r.catalogDefects: what was reported as hidden
    version,    \* the configuration in force
    todo,       \* upstreams a reload has yet to re-project
    cached,     \* r.cachedTools ...
    cacheValid, \* ... and whether it is current
    listing     \* a client's tools/list, page by page

catalogVars == <<conns, raw, aux, tools, resources, templates, defects>>
vars == <<catalogVars, version, todo, cached, cacheValid, listing>>

Versions == 1 .. Len(Facing)
FaceOf(n, t)   == Facing[version][n][t]
FaceNames      == {Facing[v][n][t] : v \in Versions, n \in Names, t \in Tools}
Descriptors    == [name : FaceNames, up : Names, orig : Tools]
NamesIn(D)     == {d.name : d \in D}
NoListing      == [open |-> FALSE, cursor |-> 0, seen |-> {}, again |-> FALSE, stayed |-> {}]

TypeOK ==
    /\ conns \subseteq Names /\ aux \subseteq Names
    /\ raw \in [Names -> SUBSET Tools]
    /\ tools \subseteq Descriptors /\ cached \subseteq Descriptors
    /\ resources \subseteq [uri : Uris, up : Names]
    /\ templates \in Seq(Names) /\ Len(templates) <= Cardinality(Names)
    /\ defects \in [Names -> SUBSET (FaceNames \cup Uris)]
    /\ version \in Versions /\ todo \subseteq Names /\ cacheValid \in BOOLEAN
    /\ listing.open \in BOOLEAN /\ listing.again \in BOOLEAN
    /\ listing.cursor \in FaceNames \cup {0}
    /\ listing.seen \subseteq FaceNames /\ listing.stayed \subseteq FaceNames

Init ==
    /\ conns = {} /\ aux = {} /\ raw = [n \in Names |-> {}]
    /\ tools = {} /\ resources = {} /\ templates = <<>>
    /\ defects = [n \in Names |-> {}]
    /\ version = 1 /\ todo = {}
    /\ cached = {} /\ cacheValid = FALSE
    /\ listing = NoListing

-----------------------------------------------------------------------------
(* The catalog without an upstream's entries (dropLocked): by owner, since *)
(* a renamed tool does not carry its upstream's prefix; of templates it    *)
(* has one entry at most.                                                  *)
Without(n) ==
    [tools     |-> {d \in tools : d.up # n},
     resources |-> {d \in resources : d.up # n},
     templates |-> RemoveFirst(templates, n)]

(* What the filter in force projects a raw tool list to                    *)
(* (filterAndRenameTools, filterFor).                                      *)
Projected(n, T) ==
    {[name |-> FaceOf(n, t), up |-> n, orig |-> t] : t \in {t \in T : FaceOf(n, t) # 0}}

(* Keep-first: a name or a uri that is taken already stays with whoever    *)
(* has it (mergeLocked).                                                   *)
FreeTools(n, T, base) == {d \in Projected(n, T) : d.name \notin NamesIn(base.tools)}
FreeUris(n, base)     == {u \in Listed[n] : \A d \in base.resources : d.uri # u}

(* Of an upstream's own tools that come to one name, too, one keeps it:    *)
(* the first in its list, whichever that is.                               *)
Keeps(n, T, base) ==
    {K \in SUBSET FreeTools(n, T, base) :
        /\ NamesIn(K) = NamesIn(FreeTools(n, T, base))
        /\ \A d, e \in K : d.name = e.name => d = e}

(* The collisions a merge that keeps K meets: each is an event unless the  *)
(* upstream's last merge met it too, and together they replace what is     *)
(* remembered.                                                             *)
Found(n, T, base, x, K) ==
    NamesIn(Projected(n, T) \ K) \cup (IF x THEN Listed[n] \ FreeUris(n, base) ELSE {})

(* Whatever the client has been told so far, a name that goes away while   *)
(* it is paging is no longer one that stayed.                              *)
Paging(T) == listing' = IF listing.open THEN [listing EXCEPT !.stayed = @ \cap NamesIn(T)] ELSE listing

(* What an invalid cache still holds is never read: nothing, here. *)
Invalidate == cached' = {} /\ cacheValid' = FALSE

(* mergeLocked: the tools T and, if x, the resources and templates of n,   *)
(* onto base.                                                              *)
Merge(n, T, x, base) ==
    /\ conns' = conns \cup {n}
    /\ raw' = [raw EXCEPT ![n] = T]
    /\ aux' = IF x THEN aux \cup {n} ELSE aux \ {n}
    /\ \E K \in Keeps(n, T, base) :
            /\ tools' = base.tools \cup K
            /\ defects' = [defects EXCEPT ![n] = Found(n, T, base, x, K)]
    /\ resources' = base.resources \cup
            (IF x THEN {[uri |-> u, up |-> n] : u \in FreeUris(n, base)} ELSE {})
    /\ templates' = IF x THEN Append(base.templates, n) ELSE base.templates
    /\ Invalidate
    /\ Paging(tools')

(* MUTANT of Install: the predecessor's entries stay. *)
InstallOnTop(n, T, x) ==
    /\ Merge(n, T, x, [tools |-> tools, resources |-> resources, templates |-> templates])
    /\ UNCHANGED <<version, todo>>

(* merge of an added upstream, or replaceUpstreamIfLive of a restarted     *)
(* one; fetching the resources may have failed.                            *)
Install(n, T, x) ==
    /\ Merge(n, T, x, Without(n))
    /\ UNCHANGED <<version, todo>>

(* replaceUpstreamIfCurrent after a re-list: new tools, everything else    *)
(* carried over.                                                           *)
Relist(n, T) ==
    /\ n \in conns
    /\ Merge(n, T, n \in aux, Without(n))
    /\ UNCHANGED <<version, todo>>

(* dropUpstream and dropUpstreamIfCurrent. *)
Drop(n) ==
    /\ n \in conns
    /\ conns' = conns \ {n} /\ aux' = aux \ {n}
    /\ raw' = [raw EXCEPT ![n] = {}]
    /\ tools' = Without(n).tools
    /\ resources' = Without(n).resources
    /\ templates' = Without(n).templates
    /\ defects' = [defects EXCEPT ![n] = {}]
    /\ Invalidate
    /\ Paging(tools')
    /\ UNCHANGED <<version, todo>>

(* A reload that changes tools filters: the configuration is swapped, and  *)
(* the diff against what is live says whom to re-project at its end.       *)
SwapConfig ==
    /\ todo = {} /\ version < Len(Facing)
    /\ version' = version + 1
    /\ todo' = {n \in conns : Facing[version + 1][n] # Facing[version][n]}
    /\ UNCHANGED <<catalogVars, cached, cacheValid, listing>>

(* MUTANT of Remerge: the loser of a collision is re-projected onto a      *)
(* catalog its own old entries are still in.                               *)
RemergeOnto(n) ==
    /\ n \in todo
    /\ todo' = todo \ {n}
    /\ IF n \in conns
       THEN Merge(n, raw[n], n \in aux, [Without(n) EXCEPT !.tools = tools])
       ELSE UNCHANGED <<catalogVars, cached, cacheValid, listing>>
    /\ UNCHANGED version

(* remergeUpstream: the stored raw list through the filter now in force,   *)
(* if the upstream has not been dropped since.                             *)
Remerge(n) ==
    /\ n \in todo
    /\ todo' = todo \ {n}
    /\ IF n \in conns
       THEN Merge(n, raw[n], n \in aux, Without(n))
       ELSE UNCHANGED <<catalogVars, cached, cacheValid, listing>>
    /\ UNCHANGED version

-----------------------------------------------------------------------------
(* Registry.Tools: rebuilt after a mutation, the same slice otherwise. *)
ListTools == IF cacheValid THEN cached ELSE tools

(* paginatedToolsList: the first names after the cursor, and the last of   *)
(* them, which is the next one.                                            *)
After(cursor) == {k \in NamesIn(ListTools) : k > cursor}
Page(cursor)  == {k \in After(cursor) : Cardinality({m \in After(cursor) : m < k}) < PageSize}
NextCursor(cursor) == IF Page(cursor) = {} THEN cursor ELSE Max(Page(cursor))

(* handleToolsList, for a first page or with the cursor of the last one;   *)
(* the answer carries a cursor as long as there is more.                   *)
ServePage(first) ==
    LET cursor == IF first THEN 0 ELSE listing.cursor
        seen   == IF first THEN {} ELSE listing.seen
    IN
    /\ first \/ listing.open
    /\ cached' = ListTools /\ cacheValid' = TRUE
    /\ listing' = [open   |-> After(NextCursor(cursor)) # {},
                   cursor |-> NextCursor(cursor),
                   seen   |-> seen \cup Page(cursor),
                   again  |-> (~first /\ listing.again) \/ Page(cursor) \cap seen # {},
                   stayed |-> IF first THEN NamesIn(tools) ELSE listing.stayed]
    /\ UNCHANGED <<catalogVars, version, todo>>

-----------------------------------------------------------------------------
Next ==
    \/ \E n \in Names, T \in SUBSET Tools, x \in BOOLEAN : Install(n, T, x)
    \/ \E n \in Names, T \in SUBSET Tools : Relist(n, T)
    \/ \E n \in Names : Drop(n)
    \/ SwapConfig
    \/ \E n \in Names : Remerge(n)
    \/ \E first \in BOOLEAN : ServePage(first)

Safety == Init /\ [][Next]_vars

-----------------------------------------------------------------------------
(* resolveResourceOwner: the exact entry, or the first template of the     *)
(* list that matches.                                                      *)
Fits(u) == {i \in 1 .. Len(templates) : u \in Matched[templates[i]]}
Owner(u) ==
    IF \E d \in resources : d.uri = u
    THEN {d.up : d \in {d \in resources : d.uri = u}}
    ELSE {templates[i] : i \in {i \in Fits(u) : \A j \in Fits(u) : i <= j}}

(* The catalog tells the truth: a name means one tool, of an installed     *)
(* upstream that has it; outside a reload it is what the filter in force   *)
(* makes of that tool; whatever a collision hides was reported; and a uri  *)
(* is read from one installed upstream at most.                            *)
CatalogIsTrue ==
    /\ \A d, e \in tools : d.name = e.name => d = e
    /\ \A d \in tools : d.up \in conns /\ d.orig \in raw[d.up]
    /\ \A d \in tools : d.up \in todo \/ d.name = FaceOf(d.up, d.orig)
    /\ \A n \in conns \ todo : \A d \in Projected(n, raw[n]) : d \in tools \/ d.name \in defects[n]
    /\ \A n \in conns \cap aux : Listed[n] \subseteq
                        {d.uri : d \in {d \in resources : d.up = n}} \cup defects[n]
    /\ \A u \in Uris : Owner(u) \subseteq conns /\ \A m, o \in Owner(u) : m = o

(* A client that has paged to the end has seen every tool that was there   *)
(* all the while, each once: "no duplicates and no skips of tools that     *)
(* existed on both sides of the mutation" (paginatedToolsList).            *)
PagesMissNothing ==
    /\ ~listing.again
    /\ ~listing.open => listing.stayed \subseteq listing.seen
=============================================================================
