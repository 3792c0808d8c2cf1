------------------------------ MODULE MCDocker ------------------------------
(* Small instances of Docker for TLC.                                      *)
EXTENDS Docker, TLC

\* Objects as model values of the cfg.
CONSTANTS image, anon, named, web, db, lb

MCIds == 1..3
MCNames == {web, db, lb}
MCObjs == {image, anon, named}
MCKindOf == [o \in MCObjs |-> IF o = image THEN "images" ELSE "volumes"]
MCPrecious == {named}
MCUses == [i \in MCIds |-> IF i = 1 THEN {image, anon} ELSE {named}]

\* All tools on the container web; exec on the container with ID 2; two prune
\* targets. And no lists at all.
MCGrants ==
    {[root |-> ContainerTools \cup {"prune", "list"},
      list |-> [t \in ContainerTools |-> IF t = "exec" THEN {2} ELSE {web}],
      prune |-> {"containers", "volumes"}, res |-> TRUE],
     [root |-> {"manage", "prune", "inspect"}, list |-> [t \in ContainerTools |-> {}],
      prune |-> {}, res |-> FALSE]}

Request(t, r, a, g) ==
    [tool |-> t, ref |-> r, act |-> a, target |-> g, fmt |-> "json", also |-> None]
MCRequests ==
    {Request("manage", web, a, "images") : a \in {"stop", "pause", "remove"}}
      \cup {Request("manage", None, "kill", "images"), Request("manage", 1, "remove", "images")}
      \cup {Request("logs", web, "stop", "images"), Request("inspect", web, "stop", "images"),
            Request("exec", web, "stop", "images"), Request("list", None, "stop", "volumes"),
            [Request("exec", 2, "stop", "images") EXCEPT !.fmt = "text"],
            Request("list", None, "stop", "containers")}
      \cup {[Request("manage", 2, "stop", "images") EXCEPT !.also = {2}]}
      \cup {Request("prune", None, "stop", g) : g \in {"containers", "volumes"}}

\* Calls are interchangeable, and so are the names no grant or request has.
Symmetry == Permutations(Calls) \cup Permutations({db, lb})
=============================================================================
