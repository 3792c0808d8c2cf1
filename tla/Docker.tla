------------------------------- MODULE Docker -------------------------------
(***************************************************************************)
(* The docker/* tools: the master's preparation of a call (rpc/docker.go,  *)
(* resources/templates/docker), the container allowlist (docker/allow.go), *)
(* and the workers behind the tools (tools/docker/..., docker/client.go).  *)
(*                                                                         *)
(* The Engine API behind the socket is external: a request is one step of  *)
(* the Engine, and between two requests of a worker anybody on the host    *)
(* may rename, stop, remove or create containers. An allowlist is the set  *)
(* of names and IDs its globs match; a reference is a name or an ID (or    *)
(* its prefix), or is not a valid identifier at all.                       *)
(***************************************************************************)
EXTENDS Naturals, FiniteSets

CONSTANTS
    Ids,            \* container IDs, newer ones greater
    Names,          \* container names
    Objs,           \* images, volumes and networks
    KindOf,         \* their kinds
    Precious,       \* tagged images and named volumes
    Uses,           \* what a container uses
    Grants,         \* the grants a user may have
    Requests,       \* what clients ask
    Calls,          \* calls
    MaxOutside,     \* bound: changes made by others
    None            \* nothing; as a reference: not a valid identifier

ContainerTools == {"manage", "logs", "exec", "inspect"}
Actions == {"start", "stop", "restart", "kill", "pause", "unpause", "remove"}
PruneTargets == {"containers", "images", "volumes", "networks", "build-cache"}
Kinds == {"images", "volumes", "networks"}

\* root: the tools with `allowed: true`; list: their containers: lists; prune:
\* the prune: list; res: whether docker-container:// may be read.
GrantType == [root : SUBSET (ContainerTools \cup {"prune", "list"}),
              list : [ContainerTools -> SUBSET (Names \cup Ids)],
              prune : SUBSET PruneTargets, res : BOOLEAN]

\* also: the list that a key spelled like _containers, but not exactly, carries.
RequestType == [tool : ContainerTools \cup {"prune", "list"},
                ref : Names \cup Ids \cup {None}, act : Actions, target : PruneTargets,
                fmt : {"text", "json"}, also : (SUBSET (Names \cup Ids)) \cup {None}]

ASSUME DockerAssumption ==
    /\ Ids \subseteq Nat /\ IsFiniteSet(Ids)
    /\ KindOf \in [Objs -> Kinds] /\ Precious \subseteq Objs
    /\ Uses \in [Ids -> SUBSET Objs]
    /\ Grants \subseteq GrantType /\ Requests \subseteq RequestType
    /\ MaxOutside \in Nat

VARIABLES
    grant,          \* the caller's grant
    conts,          \* the Engine: the containers there are,
    cname, cstate,  \* their names and states,
    objs,           \* the other objects,
    born,           \* and the IDs it has given away
    pc, req,        \* a call, and what was asked
    args,           \* the lists the worker was given
    target,         \* the container Authorize returned
    est,            \* the exec it started: none, created, running, ended
    seen, rows,     \* a listing: the objects read, and who uses them
    out,            \* the answer
    outside,        \* changes made by others (bounded)
    view,           \* history: who had which name when the worker resolved
    had,            \* history: the containers when a listing began
    acted,          \* history: which call acted on or showed which container
    destroyed       \* history: what calls removed, and as what

vars == <<grant, conts, cname, cstate, objs, born, pc, req, args, target, est, seen, rows, out,
          outside, view, had, acted, destroyed>>
engine == <<conts, cname, cstate, objs, born>>
listing == <<seen, rows, had>>
history == <<view, acted, destroyed>>

States == {"running", "paused", "exited"}
Pcs == {"idle", "sent", "spawned", "act", "start", "stream", "ask",
        "members", "done"}
NoArgs == [allow |-> {}, prune |-> {}]
Answer(st, running) == [st |-> st, run |-> running]
NoAnswer == Answer("none", FALSE)

-----------------------------------------------------------------------------
(* internal/docker/allow.go                                                *)

\* Allowed: the name or the ID matches; an empty list allows nothing.
Allowed(name, id, allow) == name \in allow \/ id \in allow

\* Resolve: which container a valid reference means now.
Resolved(ref) == {i \in conts : ref = i \/ ref = cname[i]}

\* Authorize: the containers a worker may act on for this reference - one, or
\* none for an invalid reference, an empty list, and an unknown or uncovered
\* container.
Authorize(ref, allow) ==
    IF ref = None \/ allow = {} THEN {}
    ELSE {i \in Resolved(ref) : Allowed(cname[i], i, allow)}

PruneAllowed(t, allow) == t \in allow

(* internal/rpc/docker.go                                                  *)

\* What the master sets: the keys _containers and _prune are deleted by name and
\* the grant's lists put in their place.
PrepareDockerCall(g, r) ==
    [allow |-> IF r.tool \in ContainerTools THEN g.list[r.tool] ELSE {},
     prune |-> IF r.tool = "prune" THEN g.prune ELSE {}]

\* CommonArgs: the worker decodes the arguments into a struct, and a key that is
\* not spelled exactly fills the same field; one that sorts after the master's
\* stays. (No other spelling of _prune does; a resource read has only the
\* master's arguments.)
Containers(r, a) == IF r.tool # "inspect" /\ r.also # None THEN r.also ELSE a.allow

\* The grant for the tool, and for a resource read the one for the scheme too.
Granted(g, r) == r.tool \in g.root /\ (r.tool = "inspect" => g.res)

(* tools/docker: the listings.                                             *)

\* containers/List: running ones, or all, or those in one state; the Engine
\* applies the limit before the state is looked at.
ContainersList(all, state, limit) ==
    LET asked == {i \in conts : all \/ state # None \/ cstate[i] # "exited"}
        newest == {i \in asked : limit = 0 \/ Cardinality({j \in asked : j > i}) < limit}
    IN  {i \in newest : state = None \/ cstate[i] = state}

\* images/List, and the first request of volumes/List and networks/List.
ImagesList == {o \in objs : KindOf[o] = "images"}
VolumesList == {o \in objs : KindOf[o] = "volumes"}
NetworksList == {o \in objs : KindOf[o] = "networks"}

\* Mutant: the containers are listed without all=true.
VolumeUsersRunning == {p \in Objs \X conts : p[1] \in Uses[p[2]] /\ cstate[p[2]] # "exited"}

\* volumeUsers and networkMembers, from a second request, for all containers.
VolumeUsers == {p \in Objs \X conts : p[1] \in Uses[p[2]] /\ KindOf[p[1]] = "volumes"}
NetworkMembers == {p \in Objs \X conts : p[1] \in Uses[p[2]] /\ KindOf[p[1]] = "networks"}

-----------------------------------------------------------------------------
(* The Engine.                                                             *)

\* Lifecycle requests: the next state, or the status of a refusal.
Lifecycle(a, st) ==
    CASE a = "start" -> IF st = "exited" THEN "running" ELSE "304"
      [] a = "stop" -> IF st = "exited" THEN "304" ELSE "exited"
      [] a = "restart" -> "running"
      [] a = "kill" -> IF st = "exited" THEN "409" ELSE "exited"
      [] a = "pause" -> IF st = "running" THEN "paused" ELSE "409"
      [] a = "unpause" -> IF st = "paused" THEN "running" ELSE "409"

\* DELETE /containers/{id}, with force as the query says.
Removable(i, force) == i \in conts /\ (force \/ cstate[i] = "exited")

\* POST /{kind}/prune, with the filter all (named volumes, tagged images) as
\* the query says: what goes. The build cache is not among Objs.
Prunable(k, all) ==
    {o \in objs : /\ KindOf[o] = k
                  /\ all \/ o \notin Precious
                  /\ \A i \in conts : o \notin Uses[i]}

Running(c) == est[c] \in {"created", "running"}

-----------------------------------------------------------------------------
Init ==
    /\ grant \in Grants
    /\ conts = {i \in Ids : i < Cardinality(Ids)}
    /\ \E f \in [Ids -> Names] : cname = f /\ \A i, j \in Ids : i # j => f[i] # f[j]
    /\ cstate \in [Ids -> {"running", "exited"}]
    /\ \A i \in Ids \ conts : cstate[i] = "exited"
    /\ objs = Objs
    /\ born = conts
    /\ pc = [c \in Calls |-> "idle"]
    /\ req \in [Calls -> Requests]
    /\ args = [c \in Calls |-> NoArgs]
    /\ target = [c \in Calls |-> None]
    /\ est = [c \in Calls |-> "none"]
    /\ seen = [c \in Calls |-> {}]
    /\ rows = [c \in Calls |-> {}]
    /\ out = [c \in Calls |-> NoAnswer]
    /\ outside = 0
    /\ view = [c \in Calls |-> cname]
    /\ had = [c \in Calls |-> {}]
    /\ acted = {}
    /\ destroyed = {}

Answered(c, a) == pc' = [pc EXCEPT ![c] = "done"] /\ out' = [out EXCEPT ![c] = a]
\* The answer to a request the Engine has carried out; it may not come in time.
Replied(c) == Answered(c, Answer("ok", FALSE)) \/ Answered(c, Answer("error", FALSE))
Goto(c, l) == pc' = [pc EXCEPT ![c] = l] /\ UNCHANGED out

Ask(c) ==
    /\ pc[c] = "idle"
    /\ Goto(c, "sent")
    /\ UNCHANGED <<grant, listing, engine, req, args, target, est, outside, history>>

\* The master: refused, or a root worker is spawned with the lists set here.
Master(c) ==
    /\ pc[c] = "sent"
    /\ IF Granted(grant, req[c])
         THEN /\ args' = [args EXCEPT ![c] = PrepareDockerCall(grant, req[c])]
              /\ Goto(c, "spawned")
         ELSE Answered(c, Answer("error", FALSE)) /\ UNCHANGED args
    /\ UNCHANGED <<grant, listing, engine, req, target, est, outside, history>>

\* A worker for one container: Authorize, the only step that sees the reference.
AuthorizeStep(c) ==
    /\ pc[c] = "spawned" /\ req[c].tool \in ContainerTools
    /\ LET found == Authorize(req[c].ref, Containers(req[c], args[c])) IN
         IF found = {}
           THEN Answered(c, Answer("error", FALSE)) /\ UNCHANGED target
           ELSE /\ target' = [target EXCEPT ![c] = CHOOSE i \in found : TRUE]
                /\ Goto(c, "act")
    /\ view' = [view EXCEPT ![c] = cname]
    /\ UNCHANGED <<grant, listing, engine, req, args, est, outside, acted, destroyed>>

\* Any request may fail without effect: no socket, a status the worker has no
\* use for. (One that fails with its effect is in Replied, and an exec's in this
\* step after the next.)
Fail(c) ==
    /\ pc[c] \in {"spawned", "act", "start", "stream", "ask"}
    /\ Answered(c, Answer("error", FALSE))
    /\ UNCHANGED <<grant, listing, engine, req, args, target, est, outside, history>>

\* Mutant: the request is for the caller's reference again.
TargetByRef(c) ==
    IF Resolved(req[c].ref) = {} THEN target[c] ELSE CHOOSE i \in Resolved(req[c].ref) : TRUE

\* The container a request is for: the ID that was authorized.
Target(c) == target[c]

\* Mutant: the removal is forced.
RemoveForced(c) ==
    /\ pc[c] = "act" /\ req[c].tool = "manage" /\ req[c].act = "remove"
    /\ Removable(Target(c), TRUE)
    /\ conts' = conts \ {Target(c)}
    /\ destroyed' = destroyed \cup {[kind |-> "containers", live |-> cstate[Target(c)] # "exited",
                                     precious |-> FALSE, by |-> "manage"]}
    /\ acted' = acted \cup {<<c, Target(c)>>}
    /\ Replied(c)
    /\ UNCHANGED <<grant, listing, born, cname, cstate, objs, req, args, target, est, outside, view>>

\* manage, remove: DELETE without force; 409 for a container that is not
\* stopped, 404 for one that is gone, are errors (Fail).
Remove(c) ==
    /\ pc[c] = "act" /\ req[c].tool = "manage" /\ req[c].act = "remove"
    /\ Removable(Target(c), FALSE)
    /\ conts' = conts \ {Target(c)}
    /\ destroyed' = destroyed \cup {[kind |-> "containers", live |-> cstate[Target(c)] # "exited",
                                     precious |-> FALSE, by |-> "manage"]}
    /\ acted' = acted \cup {<<c, Target(c)>>}
    /\ Replied(c)
    /\ UNCHANGED <<grant, listing, born, cname, cstate, objs, req, args, target, est, outside, view>>

\* manage, the other actions: 304 is "unchanged", another refusal an error.
Manage(c) ==
    /\ pc[c] = "act" /\ req[c].tool = "manage" /\ req[c].act # "remove"
    /\ LET i == Target(c)
           st == Lifecycle(req[c].act, cstate[i])
       IN  /\ i \in conts
           /\ IF st \in States
                THEN /\ cstate' = [cstate EXCEPT ![i] = st]
                     /\ est' = [d \in Calls |-> IF st = "exited" /\ target[d] = i /\ Running(d)
                                                 THEN "ended" ELSE est[d]]
                     /\ acted' = acted \cup {<<c, i>>}
                     /\ Replied(c)
                ELSE /\ Answered(c, Answer(IF st = "304" THEN "unchanged" ELSE "error", FALSE))
                     /\ UNCHANGED <<cstate, est, acted>>
    /\ UNCHANGED <<grant, listing, born, conts, cname, objs, req, args, target, outside, view, destroyed>>

\* logs: one stream of the authorized ID, flattened and cut at maxLogBytes.
Logs(c) ==
    /\ pc[c] = "act" /\ req[c].tool = "logs" /\ Target(c) \in conts
    /\ acted' = acted \cup {<<c, Target(c)>>}
    /\ Answered(c, Answer("ok", FALSE))
    /\ UNCHANGED <<grant, listing, engine, req, args, target, est, outside, view, destroyed>>

\* inspect: the container's inspect, status, stats or top.
Inspect(c) ==
    /\ pc[c] = "act" /\ req[c].tool = "inspect" /\ Target(c) \in conts
    /\ acted' = acted \cup {<<c, Target(c)>>}
    /\ Answered(c, Answer("ok", FALSE))
    /\ UNCHANGED <<grant, listing, engine, req, args, target, est, outside, view, destroyed>>

\* exec: created in the running container, ...
ExecCreate(c) ==
    /\ pc[c] = "act" /\ req[c].tool = "exec"
    /\ Target(c) \in conts /\ cstate[Target(c)] = "running"
    /\ est' = [est EXCEPT ![c] = "created"]
    /\ acted' = acted \cup {<<c, Target(c)>>}
    /\ Goto(c, "start")
    /\ UNCHANGED <<grant, listing, engine, req, args, target, outside, view, destroyed>>

\* ... started, ...
ExecStart(c) ==
    /\ pc[c] = "start" /\ est[c] = "created"
    /\ est' = [est EXCEPT ![c] = "running"]
    /\ Goto(c, "stream")
    /\ UNCHANGED <<grant, listing, engine, req, args, target, outside, history>>

\* ... ended by itself, ...
ExecEnd(c) ==
    /\ est[c] = "running"
    /\ est' = [est EXCEPT ![c] = "ended"]
    /\ UNCHANGED <<grant, listing, engine, pc, req, args, target, out, outside, history>>

\* ... its output read to the end, or until maxOutputBytes, with the command
\* still running, ...
ExecStream(c) ==
    /\ pc[c] = "stream"
    /\ Goto(c, "ask")
    /\ UNCHANGED <<grant, listing, engine, req, args, target, est, outside, history>>

\* Mutant: the state is not asked for.
ExecAnswerUnasked(c) ==
    /\ pc[c] = "ask"
    /\ Answered(c, Answer("exit", FALSE))
    /\ UNCHANGED <<grant, listing, engine, req, args, target, est, outside, history>>

\* ... and its state asked for: the JSON says whether it is running, the text
\* shows the exit code only.
ExecAnswer(c) ==
    /\ pc[c] = "ask"
    /\ Answered(c, Answer("exit", req[c].fmt = "json" /\ est[c] # "ended"))
    /\ UNCHANGED <<grant, listing, engine, req, args, target, est, outside, history>>

\* prune: one target, in the list, without filters. Stopped containers for one
\* target; unused objects of one kind for the others.
Prune(c) ==
    LET t == req[c].target
        stopped == IF t = "containers" THEN {i \in conts : cstate[i] = "exited"} ELSE {}
        gone == Prunable(t, FALSE)
    IN  /\ pc[c] = "spawned" /\ req[c].tool = "prune"
        /\ IF PruneAllowed(t, args[c].prune)
             THEN /\ conts' = conts \ stopped
                  /\ objs' = objs \ gone
                  /\ destroyed' = destroyed
                        \cup {[kind |-> KindOf[o], live |-> FALSE, precious |-> o \in Precious,
                               by |-> "prune"] : o \in gone}
                        \cup {[kind |-> "containers", live |-> cstate[i] # "exited",
                               precious |-> FALSE, by |-> "prune"] : i \in stopped}
                  /\ Replied(c)
             ELSE Answered(c, Answer("error", FALSE)) /\ UNCHANGED <<conts, objs, destroyed>>
        /\ UNCHANGED <<grant, listing, born, cname, cstate, req, args, target, est, outside, view, acted>>

\* A listing: containers and images from one request, ...
List(c) ==
    LET k == req[c].target IN
    /\ pc[c] = "spawned" /\ req[c].tool = "list"
    /\ k # "build-cache"
    /\ seen' = [seen EXCEPT ![c] = IF k = "containers" THEN ContainersList(FALSE, None, 0)
                                   ELSE IF k = "images" THEN ImagesList
                                   ELSE IF k = "volumes" THEN VolumesList
                                   ELSE NetworksList]
    /\ had' = [had EXCEPT ![c] = conts]
    /\ IF k \in {"volumes", "networks"} THEN Goto(c, "members")
                                        ELSE Answered(c, Answer("ok", FALSE))
    /\ UNCHANGED <<grant, engine, req, args, target, est, rows, outside, history>>

\* ... volumes and networks from two; without the second the listing is
\* answered all the same, with nobody using anything.
ListMembers(c) ==
    /\ pc[c] = "members"
    /\ \/ /\ rows' = [rows EXCEPT ![c] = IF req[c].target = "volumes" THEN VolumeUsers
                                                                   ELSE NetworkMembers]
          /\ Answered(c, Answer("rows", FALSE))
       \/ /\ Answered(c, Answer("partial", FALSE))
          /\ UNCHANGED rows
    /\ UNCHANGED <<grant, engine, req, args, target, est, seen, had, outside, history>>

-----------------------------------------------------------------------------
(* Everybody else on the host.                                             *)

Outside == outside < MaxOutside /\ outside' = outside + 1

Rename(i, n) ==
    /\ Outside /\ i \in conts
    /\ \A j \in conts : cname[j] # n
    /\ cname' = [cname EXCEPT ![i] = n]
    /\ UNCHANGED <<grant, listing, born, conts, cstate, objs, pc, req, args, target, est, out, history>>

\* A container is created, under a name that is free.
Create(i, n) ==
    /\ Outside /\ i \notin born
    /\ \A j \in conts : cname[j] # n
    /\ born' = born \cup {i}
    /\ conts' = conts \cup {i}
    /\ cname' = [cname EXCEPT ![i] = n]
    /\ cstate' = [cstate EXCEPT ![i] = "running"]
    /\ objs' = objs \cup Uses[i]
    /\ UNCHANGED <<grant, listing, pc, req, args, target, est, out, history>>

\* One starts or stops.
Toggle(i) ==
    /\ Outside /\ i \in conts
    /\ cstate' = [cstate EXCEPT ![i] = IF @ = "exited" THEN "running" ELSE "exited"]
    /\ est' = [d \in Calls |-> IF cstate[i] # "exited" /\ target[d] = i /\ Running(d)
                                THEN "ended" ELSE est[d]]
    /\ UNCHANGED <<grant, listing, born, conts, cname, objs, pc, req, args, target, out, history>>

\* One is removed, by force (docker rm -f), with what runs in it.
Delete(i) ==
    /\ Outside /\ i \in conts
    /\ conts' = conts \ {i}
    /\ est' = [d \in Calls |-> IF target[d] = i /\ Running(d) THEN "ended" ELSE est[d]]
    /\ UNCHANGED <<grant, listing, born, cname, cstate, objs, pc, req, args, target, out, history>>

Call(c) ==
    \/ Ask(c) \/ Master(c) \/ AuthorizeStep(c) \/ Fail(c)
    \/ Remove(c) \/ Manage(c) \/ Logs(c) \/ Inspect(c)
    \/ ExecCreate(c) \/ ExecStart(c) \/ ExecEnd(c) \/ ExecStream(c) \/ ExecAnswer(c)
    \/ Prune(c) \/ List(c) \/ ListMembers(c)

Next ==
    \/ \E c \in Calls : Call(c)
    \/ \E i \in Ids : Toggle(i) \/ Delete(i) \/ \E n \in Names : Rename(i, n) \/ Create(i, n)

Spec == Init /\ [][Next]_vars

-----------------------------------------------------------------------------
\* The type of the state.
TypeOK ==
    /\ grant \in GrantType
    /\ conts \subseteq born /\ born \subseteq Ids
    /\ cname \in [Ids -> Names] /\ cstate \in [Ids -> States]
    /\ objs \subseteq Objs
    /\ pc \in [Calls -> Pcs] /\ req \in [Calls -> RequestType]
    /\ args \in [Calls -> [allow : SUBSET (Names \cup Ids), prune : SUBSET PruneTargets]]
    /\ target \in [Calls -> Ids \cup {None}]
    /\ est \in [Calls -> {"none", "created", "running", "ended"}]
    /\ seen \in [Calls -> SUBSET (Objs \cup Ids)] /\ rows \in [Calls -> SUBSET (Objs \X Ids)]
    /\ out \in [Calls -> [st : {"none", "ok", "unchanged", "error", "exit", "rows", "partial"},
                          run : BOOLEAN]]
    /\ outside \in Nat
    /\ view \in [Calls -> [Ids -> Names]] /\ had \in [Calls -> SUBSET Ids]
    /\ acted \subseteq Calls \X Ids
    /\ destroyed \subseteq [kind : Kinds \cup {"containers"}, live : BOOLEAN,
                            precious : BOOLEAN, by : {"prune", "manage"}]

\* What the grant says of a call on container i that has the name n: the tool is
\* granted, and its list covers the container - provided no key of the call was
\* spelled like _containers without being it.
Covers(g, r, n, i) ==
    /\ Granted(g, r)
    /\ r.tool = "inspect" \/ r.also = None => Allowed(n, i, g.list[r.tool])

\* A call acts on, or shows, only a container that the caller's list for this
\* very tool covers, by its ID or by the name it had when the worker resolved
\* the reference - whatever the reference was, and whoever renames or recreates
\* containers meanwhile (allow.go:141). A call with a key in another spelling
\* acts only if the tool is granted, on any container.
ActsOnWhatIsGranted ==
    \A p \in acted : LET c == p[1]  i == p[2] IN Covers(grant, req[c], view[c][i], i)

\* What prepareDockerCall says of the lists (rpc/docker.go:176): they "are
\* delete-then-set, so a caller can never supply any of them". Only keys in
\* their exact spelling are deleted.
ListsOutOfReach ==
    \A p \in acted :
        LET c == p[1]  i == p[2] IN Allowed(view[c][i], i, grant.list[req[c].tool])

\* No sequence of calls destroys what it must not: a container that is not
\* stopped, a named volume, a tagged image, or a kind of object that no grant
\* names - containers go by manage or by prune, the rest by prune alone.
DestroysOnlyWaste ==
    \A d \in destroyed :
        /\ ~d.live /\ ~d.precious
        /\ d.by = "prune" => d.kind \in grant.prune
        /\ d.by = "manage" => d.kind = "containers"

\* A listing of volumes or networks shows everyone that uses them, running or
\* stopped: a container that was there before its first request and is still
\* there is listed with what it uses - a volume shown as unused is not in
\* somebody's use. Only a failed second request leaves the users out.
ListingShowsUsers ==
    \A c \in Calls : out[c].st = "rows" =>
        \A i \in had[c] \cap conts, o \in seen[c] : o \in Uses[i] => <<o, i>> \in rows[c]

\* An exec that is answered as not running has ended: its exit code and output
\* are final, although the output may be cut at its limit with the command
\* still writing, and the container may be stopped at any time.
ExecEndIsReal ==
    \A c \in Calls : out[c].st = "exit" /\ req[c].fmt = "json" /\ ~out[c].run => est[c] = "ended"

\* What the tool's description says of its text answer (rpc/docker.go:85): it
\* "returns its stdout, stderr and exit code", "Text shows `Exit code: N`". A
\* command cut at maxOutputBytes is still running, and has no exit code yet.
ExitCodeIsReal ==
    \A c \in Calls : out[c].st = "exit" /\ ~out[c].run => est[c] = "ended"
=============================================================================
