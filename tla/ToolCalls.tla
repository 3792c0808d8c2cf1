------------------------------ MODULE ToolCalls ------------------------------
(***************************************************************************)
(* tools/call from the authenticated message to its result: the snapshot   *)
(* of the grants, the checks in the master, the disks/usage cache with its *)
(* single flights, the worker process - and a reload that switches users,  *)
(* grants and caches meanwhile.                                            *)
(*                                                                         *)
(* Sources: internal/rpc/tools.go (HandleToolsCall), internal/rpc/         *)
(* handler.go (Reconfigure, Sudo), internal/worker/spawner.go              *)
(* (SpawnWorker), internal/config/sudo.go (CanRunAsRoot, GetAllowedPaths,  *)
(* PathAllowed, CoversRoot), cmd/mcpd/reload.go (the swap under cfgMu).    *)
(*                                                                         *)
(* A config is a number, its epoch; grants[e][u] is what config e lets u   *)
(* do as root.  The tools are two of PathTools: files/read, which goes     *)
(* straight to a worker, and disks/usage, which is cached.                 *)
(***************************************************************************)
EXTENDS Naturals, FiniteSets

CONSTANTS Users,     \* MCP users
          Calls,     \* tools/call requests, each made at most once
          None,      \* no value
          Requests,  \* what clients ask for: <<tool, path, privileged>>
          MaxEpoch   \* bound on reloads

VARIABLES
    noRoot,        \* worker.NoRoot: mcpd serves over stdio
    usersEpoch,    \* the config daemonConfig is of
    setEpoch,      \* the config h.settings is of
    grants,        \* epoch -> user -> level
    swap,          \* reloadConfig between cfgMu.Lock and cfgMu.Unlock
    pc,            \* where a call is
    user, tool, path, priv,   \* what it asks for
    authEpoch,     \* the config it was authenticated against
    snap,          \* the config of its sudoCfg snapshot
    worker,        \* the account its worker runs as, or None
    flights,       \* RequestGroup: the calls whose function runs
    flightOf,      \* the flight a call waits for
    cache,         \* RpcCache: the calls whose result is an unexpired entry
    by             \* the call whose worker produced a call's result

confVars == <<noRoot, usersEpoch, setEpoch, grants, swap>>
argVars  == <<user, tool, path, priv, authEpoch>>
vars == <<confVars, argVars, pc, snap, worker, flights, flightOf, cache, by>>

Epochs == 0..MaxEpoch
Tools  == {"files/read", "disks/usage"}
Paths  == {"listed", "other"}

ASSUME ToolCallsAssumption ==
    /\ None \notin Calls \cup Users \cup {"user", "root"}
    /\ Requests \subseteq Tools \X Paths \X BOOLEAN
    /\ MaxEpoch \in Nat

Ended  == {"answered", "refused", "failed"}
Steps  == {"idle", "authenticated", "lookup", "missed", "waiting",
           "spawn", "running", "stored", "erred"} \cup Ended

\* What a grant may look like: nothing; a paths list but allowed: false;
\* allowed without paths; allowed with a paths list; allowed with paths: ["/"].
Levels == {"none", "pathsOnly", "allowedOnly", "some", "all"}

CanRunAsRoot(level) == level \in {"allowedOnly", "some", "all"}
CoversRoot(level)   == level = "all"

\* PathAllowed(path, GetAllowedPaths(...)): the list counts whether or not
\* the grant says allowed.
PathAllowed(level, p) ==
    \/ CoversRoot(level)
    \/ level \in {"pathsOnly", "some"} /\ p = "listed"

\* The grant of a call's user in its own snapshot.
Level(c) == grants[snap[c]][user[c]]

\* The arguments a worker gets carry _no_follow, set by the master only, for
\* root under a list that does not cover "/".
NoFollow(c) == priv[c] /\ ~CoversRoot(Level(c))

\* Mutant: the key leaves the rewritten arguments out.
CacheKey_RawPath(c) == <<user[c], path[c], priv[c]>>

\* cacheKey: the user, the rewritten arguments, the privilege.
CacheKey(c) == <<user[c], path[c], NoFollow(c), priv[c]>>

\* The network daemon starts with the grants of mcp-sudo.yaml; mcpd stdio
\* sets NoRoot and has none, and no reload.
Init ==
    /\ usersEpoch = 0 /\ setEpoch = 0 /\ swap = "idle"
    /\ noRoot \in BOOLEAN
    /\ \E g \in [Users -> Levels] :
          /\ noRoot => g = [u \in Users |-> "none"]
          /\ grants = [e \in Epochs |-> g]
    /\ pc = [c \in Calls |-> "idle"]
    /\ user = [c \in Calls |-> None] /\ tool = [c \in Calls |-> None]
    /\ path = [c \in Calls |-> None] /\ priv = [c \in Calls |-> FALSE]
    /\ authEpoch = [c \in Calls |-> 0] /\ snap = [c \in Calls |-> 0]
    /\ worker = [c \in Calls |-> None]
    /\ flights = {} /\ flightOf = [c \in Calls |-> None]
    /\ cache = {} /\ by = [c \in Calls |-> None]

Goto(c, step) == pc' = [pc EXCEPT ![c] = step]

-----------------------------------------------------------------------------
(* Authentication, snapshot and checks                                     *)

\* Mutant: cfgMu is released before Reconfigure.
CfgMuHeld_UsersOnly == FALSE

\* reloadConfig holds cfgMu from the swap of the users to the end of
\* Reconfigure.
CfgMuHeld == swap # "idle"

\* handleMessage authenticates against daemonConfig, under cfgMu.RLock.
Authenticate(c, u, q) ==
    /\ pc[c] = "idle"
    /\ ~CfgMuHeld
    /\ Goto(c, "authenticated")
    /\ user' = [user EXCEPT ![c] = u] /\ tool' = [tool EXCEPT ![c] = q[1]]
    /\ path' = [path EXCEPT ![c] = q[2]] /\ priv' = [priv EXCEPT ![c] = q[3]]
    /\ authEpoch' = [authEpoch EXCEPT ![c] = usersEpoch]
    /\ UNCHANGED <<confVars, snap, worker, flights, flightOf, cache, by>>

\* Mutant: the path of a root call is not checked.
Permitted_AnyPath(c, level) == ~(priv[c] /\ noRoot)

\* The master's own checks: no root over stdio, and root only on the paths
\* of the grant.
Permitted(c, level) ==
    /\ ~(priv[c] /\ noRoot)
    /\ priv[c] => PathAllowed(level, path[c])

\* HandleToolsCall takes its snapshot, without a lock, and decides on it:
\* refused, or on to RpcCache (disks/usage) or a worker (files/read).
Check(c) ==
    /\ pc[c] = "authenticated"
    /\ snap' = [snap EXCEPT ![c] = setEpoch]
    /\ Goto(c, IF ~Permitted(c, grants[setEpoch][user[c]]) THEN "refused"
               ELSE IF tool[c] = "disks/usage" THEN "lookup" ELSE "spawn")
    /\ UNCHANGED <<confVars, argVars, worker, flights, flightOf, cache, by>>

-----------------------------------------------------------------------------
(* disks/usage: the cache and the single flights                           *)

CacheHit(c, b) ==
    /\ pc[c] = "lookup"
    /\ b \in cache /\ CacheKey(b) = CacheKey(c)
    /\ Goto(c, "answered")
    /\ by' = [by EXCEPT ![c] = b]
    /\ UNCHANGED <<confVars, argVars, snap, worker, flights, flightOf, cache>>

CacheMiss(c) ==
    /\ pc[c] = "lookup"
    /\ \A b \in cache : CacheKey(b) # CacheKey(c)
    /\ Goto(c, "missed")
    /\ UNCHANGED <<confVars, argVars, snap, worker, flights, flightOf, cache, by>>

\* RequestGroup.Do finds a call running for the key and waits for it.
JoinFlight(c, b) ==
    /\ pc[c] = "missed"
    /\ b \in flights /\ CacheKey(b) = CacheKey(c)
    /\ Goto(c, "waiting")
    /\ flightOf' = [flightOf EXCEPT ![c] = b]
    /\ UNCHANGED <<confVars, argVars, snap, worker, flights, cache, by>>

\* Mutant: no single flight, every miss runs.
LeadFlight_Always(c) ==
    /\ pc[c] = "missed"
    /\ Goto(c, "spawn")
    /\ flights' = flights \cup {c}
    /\ UNCHANGED <<confVars, argVars, snap, worker, flightOf, cache, by>>

\* RequestGroup.Do runs the function itself.
LeadFlight(c) ==
    /\ pc[c] = "missed"
    /\ \A b \in flights : CacheKey(b) # CacheKey(c)
    /\ Goto(c, "spawn")
    /\ flights' = flights \cup {c}
    /\ UNCHANGED <<confVars, argVars, snap, worker, flightOf, cache, by>>

\* Mutant: the calls that wait are forgotten.
Landed_LeaderOnly(c) == {c}

\* The calls a flight's return answers.
Landed(c) == {c} \cup {d \in Calls : pc[d] = "waiting" /\ flightOf[d] = c}

\* The flight is over: everyone gets the leader's result, or its error.
FlightEnds(c) ==
    /\ pc[c] \in {"stored", "erred"}
    /\ LET ok == pc[c] = "stored" IN
       /\ pc' = [d \in Calls |-> IF d \notin Landed(c) THEN pc[d]
                                 ELSE IF ok THEN "answered" ELSE "failed"]
       /\ by' = [d \in Calls |-> IF ok /\ d \in Landed(c) THEN c ELSE by[d]]
    /\ flights' = flights \ {c}
    /\ UNCHANGED <<confVars, argVars, snap, worker, flightOf, cache>>

-----------------------------------------------------------------------------
(* SpawnWorker                                                             *)

\* What user.Lookup finds for a name: nothing, an account, one with uid 0.
Accounts == {"none", "user", "root"}

\* Mutant: an account with uid 0 is not refused.
MaySpawn_Uid0(c, account) ==
    /\ account # "none"
    /\ priv[c] => ~noRoot /\ CanRunAsRoot(Level(c))

\* SpawnWorker's early returns.
MaySpawn(c, account) ==
    /\ account = "user"
    /\ priv[c] => ~noRoot /\ CanRunAsRoot(Level(c))

\* An error ends the call, or the function of its flight.
Errs(c) == Goto(c, IF c \in flights THEN "erred" ELSE "failed")

SpawnRefused(c, account) ==
    /\ pc[c] = "spawn"
    /\ ~MaySpawn(c, account)
    /\ Errs(c)
    /\ UNCHANGED <<confVars, argVars, snap, worker, flights, flightOf, cache, by>>

\* The worker runs as root or as the account of the user.
SpawnWorker(c, account) ==
    /\ pc[c] = "spawn"
    /\ MaySpawn(c, account)
    /\ Goto(c, "running")
    /\ worker' = [worker EXCEPT ![c] = IF priv[c] THEN "root" ELSE account]
    /\ UNCHANGED <<confVars, argVars, snap, flights, flightOf, cache, by>>

\* The worker exits with a result, which a flight stores in RpcCache before
\* it ends.
WorkerReturns(c) ==
    /\ pc[c] = "running"
    /\ IF c \in flights
       THEN /\ Goto(c, "stored")
            /\ cache' = {b \in cache : CacheKey(b) # CacheKey(c)} \cup {c}
            /\ UNCHANGED by
       ELSE /\ Goto(c, "answered")
            /\ by' = [by EXCEPT ![c] = c]
            /\ UNCHANGED cache
    /\ UNCHANGED <<confVars, argVars, snap, worker, flights, flightOf>>

\* It fails, or is killed when its context times out.
WorkerFails(c) ==
    /\ pc[c] = "running"
    /\ Errs(c)
    /\ UNCHANGED <<confVars, argVars, snap, worker, flights, flightOf, cache, by>>

-----------------------------------------------------------------------------
(* The reload, and time                                                    *)

\* daemonConfig = next, under cfgMu. A reload parses strictly: it refuses allowed
\* without paths, which the start accepts.
SwapUsers(g) ==
    /\ swap = "idle" /\ ~noRoot
    /\ \A u \in Users : g[u] # "allowedOnly"
    /\ usersEpoch < MaxEpoch
    /\ swap' = "users"
    /\ usersEpoch' = usersEpoch + 1
    /\ grants' = [e \in Epochs |-> IF e <= usersEpoch THEN grants[e] ELSE g]
    /\ UNCHANGED <<noRoot, setEpoch, argVars, pc, snap, worker, flights, flightOf, cache, by>>

\* Reconfigure stores the settings ...
StoreSettings ==
    /\ swap = "users"
    /\ swap' = "settings"
    /\ setEpoch' = usersEpoch
    /\ UNCHANGED <<noRoot, usersEpoch, grants, argVars, pc, snap, worker, flights, flightOf, cache, by>>

\* ... and then drops the cached results.
ClearCache ==
    /\ swap = "settings"
    /\ swap' = "idle"
    /\ cache' = {}
    /\ UNCHANGED <<noRoot, usersEpoch, setEpoch, grants, argVars, pc, snap, worker, flights, flightOf, by>>

\* Sixty seconds pass: an expired entry is never served.
Expire(b) ==
    /\ b \in cache
    /\ cache' = cache \ {b}
    /\ UNCHANGED <<confVars, argVars, pc, snap, worker, flights, flightOf, by>>

-----------------------------------------------------------------------------

Arrive(c) ==
    \E u \in Users, q \in Requests : Authenticate(c, u, q)

Handle(c) ==
    \/ Check(c)
    \/ \E b \in Calls : CacheHit(c, b) \/ JoinFlight(c, b)
    \/ CacheMiss(c)
    \/ LeadFlight(c)
    \/ FlightEnds(c)
    \/ \E a \in Accounts : SpawnWorker(c, a) \/ SpawnRefused(c, a)
    \/ WorkerReturns(c)
    \/ WorkerFails(c)

Reload ==
    \/ \E g \in [Users -> Levels] : SwapUsers(g)
    \/ StoreSettings
    \/ ClearCache

Next ==
    \/ \E c \in Calls : Arrive(c) \/ Handle(c) \/ Expire(c)
    \/ Reload

Spec == Init /\ [][Next]_vars

\* A handler goroutine runs on, and its worker's context ends it after
\* timeoutSeconds at the latest; nothing makes a client call.
FairSpec == Spec /\ \A c \in Calls : WF_vars(Handle(c))

-----------------------------------------------------------------------------
(* Properties                                                              *)

\* Every variable has the values the code can give it; a call that waits
\* waits for a flight under way.
TypeOK ==
    /\ noRoot \in BOOLEAN /\ usersEpoch \in Epochs /\ setEpoch \in Epochs
    /\ swap \in {"idle", "users", "settings"}
    /\ grants \in [Epochs -> [Users -> Levels]]
    /\ pc \in [Calls -> Steps]
    /\ user \in [Calls -> Users \cup {None}] /\ tool \in [Calls -> Tools \cup {None}]
    /\ path \in [Calls -> Paths \cup {None}] /\ priv \in [Calls -> BOOLEAN]
    /\ authEpoch \in [Calls -> Epochs] /\ snap \in [Calls -> Epochs]
    /\ worker \in [Calls -> {None, "user", "root"}]
    /\ flights \subseteq Calls /\ cache \subseteq Calls
    /\ flightOf \in [Calls -> Calls \cup {None}] /\ by \in [Calls -> Calls \cup {None}]
    /\ \A c \in Calls : pc[c] = "waiting" => flightOf[c] \in flights

Started(c) == pc[c] \notin {"idle", "authenticated"}

\* "Users and grants switch together" (reload.go:56): a call never runs under
\* grants older than the users it was authenticated against, so a user added
\* or re-created by a reload never acts on what the name was granted before.
SnapshotNotOlder ==
    \A c \in Calls : Started(c) => snap[c] >= authEpoch[c]

\* Whatever account the name resolves to, and however a reload interleaves, a
\* worker runs with uid 0 only for a call that asked for it, whose own
\* snapshot allows the tool and lists the path, and never over stdio.
RootOnlyByGrant ==
    \A c \in Calls : worker[c] = "root" =>
        /\ priv[c] /\ ~noRoot
        /\ CanRunAsRoot(Level(c)) /\ PathAllowed(Level(c), path[c])

\* A result taken from the cache or from another call's flight, across any
\* reload, is what the call's own worker would have produced: the same user
\* and arguments, the same account, the same treatment of symlinks.
SharedResultsAgree ==
    \A c \in Calls : pc[c] = "answered" =>
        LET b == by[c] IN
        /\ user[b] = user[c] /\ path[b] = path[c] /\ tool[b] = tool[c]
        /\ worker[b] = IF priv[c] THEN "root" ELSE "user"
        /\ priv[c] => (CoversRoot(Level(b)) <=> CoversRoot(Level(c)))

\* Root output needs a grant for the path twice: the caller's own snapshot
\* lists it, and the snapshot the worker ran under allowed the tool on it.
RootResultsWereGranted ==
    \A c \in Calls : (pc[c] = "answered" /\ priv[c]) =>
        /\ PathAllowed(Level(c), path[c])
        /\ CanRunAsRoot(Level(by[c]))

\* The single flight: never two disks/usage workers for one key at a time.
OneWorkerPerKey ==
    \A b, c \in Calls :
        (b # c /\ pc[b] = "running" /\ pc[c] = "running"
           /\ tool[b] = "disks/usage" /\ tool[c] = "disks/usage")
        => CacheKey(b) # CacheKey(c)

\* Every authenticated call ends, joined to a failing flight or not.
EveryCallEnds ==
    \A c \in Calls : (pc[c] = "authenticated") ~> (pc[c] \in Ended)

-----------------------------------------------------------------------------
(* What the documentation says and the code does not do                    *)

\* "One snapshot per request: a concurrent reload can't change the rules
\* between the authorization check and the call it authorizes" (tools.go:723):
\* root output is for callers whose snapshot allows the tool.
RootResultsNeedGrant ==
    \A c \in Calls : (pc[c] = "answered" /\ priv[c]) => CanRunAsRoot(Level(c))

=============================================================================
