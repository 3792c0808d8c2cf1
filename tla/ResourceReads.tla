---------------------------- MODULE ResourceReads ----------------------------
(***************************************************************************)
(* resources/read: the checks against the grants, the TTL cache that all   *)
(* users share, the worker that reads a resource - and a reload that       *)
(* replaces the grants and clears the cache meanwhile.                     *)
(*                                                                         *)
(* Sources: internal/rpc/resources.go (HandleResourcesRead), internal/     *)
(* cache/cache.go (Get, Set, Clear), internal/config/sudo.go               *)
(* (CanReadResourceAsRoot), internal/resources/templates (Handle of file,  *)
(* service, process, disks and docker), internal/worker/spawner.go         *)
(* (SpawnWorker), internal/rpc/handler.go (Reconfigure).                   *)
(*                                                                         *)
(* One URI stands for all that are treated alike.  A user's grants are the *)
(* URIs of its resources: list, and "worker" when its tools: list allows   *)
(* the worker behind a template (files/content, docker/inspect, ...).      *)
(***************************************************************************)
EXTENDS Naturals, FiniteSets

CONSTANTS Users,      \* MCP users
          Reads,      \* resources/read requests, each made at most once
          None,       \* no value
          Uris,       \* the URIs that are asked for
          GrantSets,  \* what mcp-sudo.yaml may grant one user
          MaxEpoch    \* bound on reloads

AllUris == {"uname",       \* os://, system://hostname: read in the master
            "timezone",    \* system://timezone, system://locale: not cached
            "interfaces",  \* network://interfaces
            "routes",      \* network://routes
            "devices",     \* devices://usb, pci, dmi and kernel://modules
            "disks",       \* disks://*/stats, network://interfaces/{name}: not cached
            "file",        \* file://, service://*/status, process://
            "docker"}      \* docker-container://, -image://, -volume://, -network://

ASSUME ResourceReadsAssumption ==
    /\ None \notin Users \cup Reads \cup {"master", "user", "root"}
    /\ Uris \subseteq AllUris
    /\ GrantSets \subseteq SUBSET (AllUris \cup {"worker"})
    /\ MaxEpoch \in Nat

VARIABLES
    epoch,      \* how often h.settings was replaced
    grants,     \* epoch -> user -> its grants
    clearing,   \* Reconfigure has stored the settings and not yet cleared
    clears,     \* how often the cache was cleared
    items,      \* TTLCache.items: the read whose content is stored, or None
    expired,    \* the reads whose stored content is past its time
    pc,         \* where a read is
    user, uri,  \* what it asks for
    snap,       \* the epoch of its sudoCfg snapshot
    since,      \* history: how often the cache had been cleared then
    got,        \* the item Get found, as the read whose content it is
    account,    \* who read the resource for it: "master", "user", "root"
    storedIn,   \* history: how often the cache was cleared when it stored
    by          \* the read whose content is its answer

confVars == <<epoch, grants, clearing, clears>>
argVars  == <<user, uri, snap, since>>
vars == <<confVars, items, expired, pc, argVars, got, account, storedIn, by>>

Epochs == 0..MaxEpoch
Ended  == {"answered", "refused", "failed"}

\* The URIs whose content is put into the cache.
Cached == {"uname", "interfaces", "routes", "devices"}

\* The URIs that are checked before the cache is looked at.
Strict == {"devices"}

\* CanReadResourceAsRoot, and CanRunAsRoot for a template's worker, in the
\* snapshot of the read.
CanReadResourceAsRoot(r) == uri[r] \in grants[snap[r]][user[r]]
CanRunWorkerAsRoot(r)    == "worker" \in grants[snap[r]][user[r]]

Init ==
    /\ epoch = 0 /\ clearing = FALSE /\ clears = 0
    /\ \E g \in [Users -> GrantSets] : grants = [e \in Epochs |-> g]
    /\ items = [u \in AllUris |-> None] /\ expired = {}
    /\ pc = [r \in Reads |-> "idle"]
    /\ user = [r \in Reads |-> None] /\ uri = [r \in Reads |-> None]
    /\ snap = [r \in Reads |-> 0] /\ since = [r \in Reads |-> 0]
    /\ got = [r \in Reads |-> None] /\ account = [r \in Reads |-> None]
    /\ storedIn = [r \in Reads |-> 0] /\ by = [r \in Reads |-> None]

Goto(r, step) == pc' = [pc EXCEPT ![r] = step]

-----------------------------------------------------------------------------
(* The snapshot, the check before the cache, and TTLCache.Get              *)

\* The request arrives and takes its snapshot, sudoCfg.
Arrive(r, u, x) ==
    /\ pc[r] = "idle"
    /\ Goto(r, "arrived")
    /\ user' = [user EXCEPT ![r] = u] /\ uri' = [uri EXCEPT ![r] = x]
    /\ snap' = [snap EXCEPT ![r] = epoch] /\ since' = [since EXCEPT ![r] = clears]
    /\ UNCHANGED <<confVars, items, expired, got, account, storedIn, by>>

\* Mutant: the strict resources are only checked when they are read.
PreAuthorize_Never(r) ==
    /\ pc[r] = "arrived"
    /\ Goto(r, "get")
    /\ UNCHANGED <<confVars, items, expired, argVars, got, account, storedIn, by>>

\* Strictly privileged resources need their grant before anything else.
PreAuthorize(r) ==
    /\ pc[r] = "arrived"
    /\ Goto(r, IF uri[r] \in Strict /\ ~CanReadResourceAsRoot(r) THEN "refused" ELSE "get")
    /\ UNCHANGED <<confVars, items, expired, argVars, got, account, storedIn, by>>

\* Get copies the item under mu.RLock.
GetItem(r) ==
    /\ pc[r] = "get"
    /\ Goto(r, IF items[uri[r]] = None THEN "miss" ELSE "got")
    /\ got' = [got EXCEPT ![r] = items[uri[r]]]
    /\ UNCHANGED <<confVars, items, expired, argVars, account, storedIn, by>>

\* Without the lock it compares the copy's time with the clock: an unexpired
\* copy is the answer.
CheckItem(r) ==
    /\ pc[r] = "got"
    /\ IF got[r] \in expired
       THEN Goto(r, "evict") /\ UNCHANGED by
       ELSE Goto(r, "answered") /\ by' = [by EXCEPT ![r] = got[r]]
    /\ UNCHANGED <<confVars, items, expired, argVars, got, account, storedIn>>

\* An expired one is removed under mu.Lock - whatever the key holds by then.
Evict(r) ==
    /\ pc[r] = "evict"
    /\ Goto(r, "miss")
    /\ items' = [items EXCEPT ![uri[r]] = None]
    /\ UNCHANGED <<confVars, expired, argVars, got, account, storedIn, by>>

-----------------------------------------------------------------------------
(* Reading the resource                                                    *)

\* Who reads each kind of resource, if the grants let anyone: the master
\* itself, a worker of the user, or a root worker.
Reader(r) ==
    CASE uri[r] \in {"uname", "timezone"} -> "master"
      [] uri[r] \in {"interfaces", "disks"} -> "user"
      [] uri[r] \in {"devices", "docker"} -> "root"
      [] OTHER -> IF CanReadResourceAsRoot(r) THEN "root" ELSE "user"

\* What the handlers and SpawnWorker ask for before a root worker starts: the
\* resource's own grant, and for the templates, whose worker is a tool and not
\* one of the internal read_ workers, the grant of that tool as well.
MayRead(r) ==
    Reader(r) = "root" =>
        /\ CanReadResourceAsRoot(r)
        /\ uri[r] \in {"file", "docker"} => CanRunWorkerAsRoot(r)

\* The content is there ...
Produce(r) ==
    /\ pc[r] = "miss"
    /\ MayRead(r)
    /\ Goto(r, "produced")
    /\ account' = [account EXCEPT ![r] = Reader(r)]
    /\ UNCHANGED <<confVars, items, expired, argVars, got, storedIn, by>>

\* ... or is not: a grant is missing, the worker failed or timed out.
Fail(r) ==
    /\ pc[r] = "miss"
    /\ Goto(r, "failed")
    /\ UNCHANGED <<confVars, items, expired, argVars, got, account, storedIn, by>>

\* Set stores what may be cached, and the content is the answer.
Answer(r) ==
    /\ pc[r] = "produced"
    /\ Goto(r, "answered")
    /\ by' = [by EXCEPT ![r] = r]
    /\ storedIn' = [storedIn EXCEPT ![r] = clears]
    /\ items' = IF uri[r] \in Cached THEN [items EXCEPT ![uri[r]] = r] ELSE items
    /\ UNCHANGED <<confVars, expired, argVars, got, account>>

-----------------------------------------------------------------------------
(* The reload, and time                                                    *)

\* Reconfigure replaces the settings ...
StoreSettings(g) ==
    /\ ~clearing /\ epoch < MaxEpoch
    /\ epoch' = epoch + 1 /\ clearing' = TRUE
    /\ grants' = [e \in Epochs |-> IF e <= epoch THEN grants[e] ELSE g]
    /\ UNCHANGED <<clears, items, expired, pc, argVars, got, account, storedIn, by>>

\* Mutant: only what is past its time is dropped.
Clear_ExpiredOnly ==
    /\ clearing /\ clearing' = FALSE
    /\ clears' = clears + 1
    /\ items' = [u \in AllUris |-> IF items[u] \in expired THEN None ELSE items[u]]
    /\ UNCHANGED <<epoch, grants, expired, pc, argVars, got, account, storedIn, by>>

\* ... and then clears the cache.
Clear ==
    /\ clearing /\ clearing' = FALSE
    /\ clears' = clears + 1
    /\ items' = [u \in AllUris |-> None]
    /\ UNCHANGED <<epoch, grants, expired, pc, argVars, got, account, storedIn, by>>

\* 60 or 5 seconds have passed since the content was stored.
Expire(r) ==
    /\ by[r] = r /\ uri[r] \in Cached
    /\ r \notin expired
    /\ expired' = expired \cup {r}
    /\ UNCHANGED <<confVars, items, pc, argVars, got, account, storedIn, by>>

-----------------------------------------------------------------------------

Handle(r) ==
    \/ PreAuthorize(r)
    \/ GetItem(r)
    \/ CheckItem(r)
    \/ Evict(r)
    \/ Produce(r)
    \/ Fail(r)
    \/ Answer(r)

Next ==
    \/ \E r \in Reads, u \in Users, x \in Uris : Arrive(r, u, x)
    \/ \E r \in Reads : Handle(r) \/ Expire(r)
    \/ \E g \in [Users -> GrantSets] : StoreSettings(g)
    \/ Clear

Spec == Init /\ [][Next]_vars

-----------------------------------------------------------------------------
(* Properties                                                              *)

\* Every variable has the values the code can give it; an item is content of
\* the URI it is stored under.
TypeOK ==
    /\ epoch \in Epochs /\ clearing \in BOOLEAN /\ clears \in Epochs
    /\ grants \in [Epochs -> [Users -> GrantSets]]
    /\ items \in [AllUris -> Reads \cup {None}] /\ expired \subseteq Reads
    /\ pc \in [Reads -> {"idle", "arrived", "get", "got", "evict", "miss", "produced"} \cup Ended]
    /\ user \in [Reads -> Users \cup {None}] /\ uri \in [Reads -> Uris \cup {None}]
    /\ snap \in [Reads -> Epochs] /\ since \in [Reads -> Epochs]
    /\ got \in [Reads -> Reads \cup {None}]
    /\ account \in [Reads -> {None, "master", "user", "root"}]
    /\ storedIn \in [Reads -> Epochs] /\ by \in [Reads -> Reads \cup {None}]
    /\ \A x \in AllUris : items[x] # None => uri[items[x]] = x

\* The cache is shared by all users and outlives the grants its content was
\* read under, yet content that a root worker read goes only to a user whose
\* own snapshot grants the resource.  The one exception is network://routes,
\* which is not checked before the cache.
RootContentNeedsGrant ==
    \A r \in Reads : (pc[r] = "answered" /\ account[by[r]] = "root") =>
        \/ CanReadResourceAsRoot(r)
        \/ uri[r] = "routes" /\ by[r] # r

\* The reload's Clear is a barrier (handler.go:58): a read that began after it
\* is never answered with content that was stored before it, whichever Gets,
\* evictions and late Sets of other reads surround it.
ClearIsABarrier ==
    \A r \in Reads : pc[r] = "answered" => storedIn[by[r]] >= since[r]

=============================================================================
