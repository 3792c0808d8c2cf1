--------------------------- MODULE ToolCallsProofs ---------------------------
(***************************************************************************)
(* ToolCalls, for any users, calls, requests and number of reloads: no     *)
(* call runs under grants older than its users, no worker is root without  *)
(* a grant of its call's snapshot, and a shared result is the caller's.    *)
(***************************************************************************)
EXTENDS ToolCalls, TLAPS

\* The settings lag behind the users only inside the reload.
Switched ==
    /\ setEpoch <= usersEpoch
    /\ swap # "users" => setEpoch = usersEpoch

\* A call that arrived was authenticated against users whose grants are in
\* effect.
Arrived ==
    \A c \in Calls : pc[c] # "idle" =>
        /\ user[c] \in Users /\ tool[c] \in Tools /\ path[c] \in Paths
        /\ authEpoch[c] <= setEpoch

\* A snapshot is one of the past, and not older than the users.
Snapped ==
    \A c \in Calls : Started(c) => authEpoch[c] <= snap[c] /\ snap[c] <= setEpoch

\* What the call's own snapshot says of it.
Passed(c) == Permitted(c, Level(c))
Rooted(c) == CanRunAsRoot(Level(c))

\* A call past the checks is permitted by its own snapshot.
Allowed ==
    \A c \in Calls : pc[c] \notin {"idle", "authenticated", "refused"} =>
        Passed(c)

\* A worker runs as what its call asked for, root by a grant of the snapshot.
Working ==
    \A c \in Calls :
        /\ worker[c] # None =>
              /\ pc[c] \in {"running", "stored", "erred", "answered", "failed"}
              /\ worker[c] = IF priv[c] THEN "root" ELSE "user"
              /\ priv[c] => Rooted(c)
        /\ pc[c] \in {"running", "stored"} => worker[c] # None

\* Two calls a cache key cannot tell apart.
Same(b, c) ==
    /\ user[b] = user[c] /\ tool[b] = tool[c]
    /\ path[b] = path[c] /\ priv[b] = priv[c]
    /\ NoFollow(b) = NoFollow(c)

\* Only disks/usage calls look at the cache and fly; one that waits, waits for
\* a flight of the same call.
Flying ==
    \A c \in Calls :
        /\ pc[c] \in {"lookup", "missed", "waiting"} => tool[c] = "disks/usage"
        /\ c \in flights => tool[c] = "disks/usage" /\ pc[c] \in {"spawn", "running", "stored", "erred"}
        /\ pc[c] \in {"stored", "erred"} => c \in flights
        /\ pc[c] = "waiting" => Same(flightOf[c], c)

\* An entry is the result of a worker of a disks/usage call.
Storing ==
    \A b \in cache :
        /\ pc[b] \in {"stored", "answered"}
        /\ tool[b] = "disks/usage" /\ worker[b] # None

\* An answer is the result of a worker of the same call.
Answered ==
    \A c \in Calls : pc[c] = "answered" =>
        by[c] \in Calls /\ worker[by[c]] # None /\ Same(by[c], c)

IInv ==
    /\ TypeOK /\ Switched /\ Arrived /\ Snapped /\ Allowed
    /\ Working /\ Flying /\ Storing /\ Answered

-----------------------------------------------------------------------------

\* The initial states satisfy the invariant.
LEMMA InitInv == Init => IInv
<1> SUFFICES ASSUME Init PROVE IInv
  OBVIOUS
<1> USE ToolCallsAssumption
<1> PICK g \in [Users -> Levels] : grants = [e \in Epochs |-> g]
  BY DEF Init
<1>0. 0 \in Epochs
  BY DEF Epochs
<1>1. TypeOK
  BY <1>0 DEF Init, TypeOK, Steps, Ended
<1>2. Switched /\ Arrived /\ Snapped /\ Allowed
  BY DEF Init, Switched, Arrived, Snapped, Started, Allowed
<1>3. Working /\ Flying /\ Storing /\ Answered
  BY DEF Init, Working, Flying, Storing, Answered
<1> QED
  BY <1>1, <1>2, <1>3 DEF IInv

\* Equal keys are equal calls, but for the tool.
LEMMA KeyParts ==
  ASSUME NEW b \in Calls, NEW c \in Calls, CacheKey(b) = CacheKey(c), tool[b] = tool[c]
  PROVE  Same(b, c)
BY DEF CacheKey, Same

\* A step that leaves config, arguments and snapshots alone leaves alone what
\* they say.
LEMMA Frame ==
  ASSUME UNCHANGED <<confVars, argVars, snap>>
  PROVE  /\ \A c : (Passed(c)' <=> Passed(c)) /\ (Rooted(c)' <=> Rooted(c))
         /\ \A b, c : Same(b, c)' <=> Same(b, c)
BY DEF confVars, argVars, Level, Passed, Rooted, Permitted, CanRunAsRoot, Same, NoFollow

\* A handler's steps past its checks leave the checks' results valid.
LEMMA ChecksKept ==
  ASSUME IInv, UNCHANGED <<confVars, argVars, snap>>,
         \A c \in Calls : \/ pc'[c] = pc[c]
                          \/ /\ pc[c] \notin {"idle", "authenticated", "refused"}
                             /\ pc'[c] \notin {"idle", "authenticated"}
  PROVE  Switched' /\ Arrived' /\ Snapped' /\ Allowed'
<1>1. Switched' /\ Arrived' /\ Snapped'
  BY DEF IInv, Switched, Arrived, Snapped, Started, confVars, argVars
<1>2. Allowed'
  BY Frame DEF IInv, Allowed
<1> QED
  BY <1>1, <1>2
-----------------------------------------------------------------------------

\* A call arrives: nothing of it existed before.
LEMMA AuthenticateInv ==
  ASSUME IInv, NEW c \in Calls, NEW u \in Users, NEW q \in Requests, Authenticate(c, u, q)
  PROVE  IInv'
<1> USE ToolCallsAssumption
<1>0. /\ q[1] \in Tools /\ q[2] \in Paths /\ q[3] \in BOOLEAN
      /\ pc[c] = "idle" /\ usersEpoch = setEpoch
  BY DEF Authenticate, CfgMuHeld, IInv, Switched
<1>1. TypeOK'
  BY <1>0 DEF IInv, TypeOK, Authenticate, Goto, confVars, Steps
<1>2. Switched' /\ Snapped'
  BY DEF IInv, TypeOK, Switched, Snapped, Started, Authenticate, Goto, confVars
<1>3. Arrived'
  BY <1>0 DEF IInv, TypeOK, Arrived, Authenticate, Goto, confVars, Epochs
<1>4. \A d \in Calls \ {c} : (Passed(d)' <=> Passed(d)) /\ (Rooted(d)' <=> Rooted(d))
  BY DEF IInv, TypeOK, Authenticate, confVars, Level, Passed, Rooted, Permitted, CanRunAsRoot
<1>b. \A d \in Calls \ {c} : pc'[d] = pc[d] /\ tool'[d] = tool[d] /\ priv'[d] = priv[d]
  BY DEF IInv, TypeOK, Authenticate, Goto
<1>5. \A b, d \in Calls \ {c} : Same(b, d)' <=> Same(b, d)
  BY DEF IInv, TypeOK, Authenticate, confVars, Level, Same, NoFollow
<1>6. Allowed'
  BY <1>4, <1>b DEF IInv, TypeOK, Allowed, Authenticate, Goto
<1>7. worker[c] = None /\ c \notin flights /\ c \notin cache
  BY <1>0 DEF IInv, Working, Flying, Storing
<1>8. Working'
  BY <1>4, <1>7, <1>b DEF IInv, TypeOK, Working, Authenticate, Goto
<1>9. Flying'
  <2>1. \A d \in Calls \ {c} : pc[d] = "waiting" => flightOf[d] \in Calls \ {c}
    BY <1>7 DEF IInv, TypeOK
  <2> QED
    BY <1>4, <1>5, <1>7, <1>b, <2>1 DEF IInv, TypeOK, Flying, Authenticate, Goto
<1>10. Storing' /\ Answered'
  BY <1>4, <1>5, <1>7, <1>b DEF IInv, TypeOK, Storing, Answered, Authenticate, Goto
<1> QED
  BY <1>1, <1>2, <1>3, <1>6, <1>8, <1>9, <1>10 DEF IInv

\* A call takes its snapshot and is checked against it.
LEMMA CheckInv ==
  ASSUME IInv, NEW c \in Calls, Check(c)
  PROVE  IInv'
<1> USE ToolCallsAssumption
<1>0. pc[c] = "authenticated" /\ pc'[c] \in {"refused", "lookup", "spawn"}
  BY DEF Check, Goto, IInv, TypeOK
<1>1. TypeOK'
  BY <1>0 DEF IInv, TypeOK, Check, Goto, confVars, argVars, Steps, Ended
<1>2. Switched' /\ Arrived'
  BY <1>0 DEF IInv, TypeOK, Switched, Arrived, Check, Goto, confVars, argVars
<1>3. Snapped'
  BY <1>0 DEF IInv, TypeOK, Snapped, Started, Arrived, Check, Goto, confVars, argVars, Epochs
<1>4. \A d \in Calls \ {c} : (Passed(d)' <=> Passed(d)) /\ (Rooted(d)' <=> Rooted(d))
  BY DEF IInv, TypeOK, Check, confVars, argVars, Level, Passed, Rooted, Permitted, CanRunAsRoot
<1>b. \A d \in Calls \ {c} : pc'[d] = pc[d] /\ tool'[d] = tool[d] /\ priv'[d] = priv[d]
  BY DEF IInv, TypeOK, Check, Goto, argVars
<1>5. \A b, d \in Calls \ {c} : Same(b, d)' <=> Same(b, d)
  BY DEF IInv, TypeOK, Check, confVars, argVars, Level, Same, NoFollow
<1>6. Allowed'
  <2>1. pc'[c] # "refused" => Passed(c)'
    BY DEF IInv, TypeOK, Check, Goto, confVars, argVars, Level, Passed, Permitted, PathAllowed, CoversRoot
  <2> QED
    BY <1>0, <1>4, <1>b, <2>1 DEF IInv, Allowed
<1>7. worker[c] = None /\ c \notin flights /\ c \notin cache
  BY <1>0 DEF IInv, Working, Flying, Storing
<1>a. UNCHANGED <<worker, flights, flightOf, cache, by, tool, priv>>
  BY DEF Check, argVars
<1>8. Working'
  BY <1>0, <1>4, <1>7, <1>a, <1>b DEF IInv, Working
<1>9. Flying'
  <2>1. tool[c] = "disks/usage" \/ pc'[c] # "lookup"
    BY DEF IInv, TypeOK, Check, Goto
  <2>2. \A d \in Calls : pc[d] = "waiting" => flightOf[d] \in Calls \ {c}
    BY <1>7 DEF IInv, TypeOK
  <2> QED
    BY <1>0, <1>4, <1>5, <1>7, <1>b, <1>a, <2>1, <2>2 DEF IInv, Flying
<1>10. Storing' /\ Answered'
  BY <1>0, <1>4, <1>5, <1>7, <1>b, <1>a DEF IInv, TypeOK, Storing, Answered
<1> QED
  BY <1>1, <1>2, <1>3, <1>6, <1>8, <1>9, <1>10 DEF IInv

\* The cache lookup and the joining of a flight.
LEMMA CacheInv ==
  ASSUME IInv, NEW c \in Calls,
         \/ \E b \in Calls : CacheHit(c, b) \/ JoinFlight(c, b)
         \/ CacheMiss(c) \/ LeadFlight(c)
  PROVE  IInv'
<1> USE ToolCallsAssumption
<1>0. /\ UNCHANGED <<confVars, argVars, snap, worker, cache>>
      /\ pc[c] \in {"lookup", "missed"} /\ tool[c] = "disks/usage"
      /\ pc'[c] \in {"answered", "missed", "waiting", "spawn"}
      /\ \A d \in Calls \ {c} : pc'[d] = pc[d]
  <2>1. pc \in [Calls -> Steps]
    BY DEF IInv, TypeOK
  <2>2. pc[c] \in {"lookup", "missed"} => tool[c] = "disks/usage"
    BY DEF IInv, Flying
  <2> QED
    BY <2>1, <2>2 DEF CacheHit, JoinFlight, CacheMiss, LeadFlight, Goto
<1>a. worker[c] = None /\ c \notin flights /\ c \notin cache
  BY <1>0 DEF IInv, Flying, Working, Storing
<1>1. Switched' /\ Arrived' /\ Snapped' /\ Allowed'
  BY <1>0, ChecksKept
<1>b. UNCHANGED <<tool, priv>> /\ \A d \in Calls : Rooted(d)' <=> Rooted(d)
  BY <1>0, Frame DEF argVars
<1>2. Working' /\ Storing'
  <2>1. Working'
    BY <1>0, <1>a, <1>b DEF IInv, Working
  <2>2. Storing'
    BY <1>0, <1>a, <1>b DEF IInv, TypeOK, Storing
  <2> QED
    BY <2>1, <2>2
<1>3. ASSUME NEW b \in Calls, CacheHit(c, b)
      PROVE  TypeOK' /\ Flying' /\ Answered'
  <2>1. Same(b, c) /\ worker[b] # None
    BY <1>0, <1>a, <1>3, KeyParts DEF CacheHit, IInv, Storing
  <2>2. TypeOK'
    BY <1>3 DEF IInv, TypeOK, CacheHit, Goto, confVars, argVars, Steps, Ended
  <2>3. Flying'
    BY <1>0, <1>a, <1>3, Frame DEF IInv, TypeOK, Flying, CacheHit, Goto, argVars
  <2>4. Answered'
    BY <1>0, <1>a, <1>3, <2>1, Frame DEF IInv, TypeOK, Answered, CacheHit, Goto
  <2> QED
    BY <2>2, <2>3, <2>4
<1>4. ASSUME NEW b \in Calls, JoinFlight(c, b)
      PROVE  TypeOK' /\ Flying' /\ Answered'
  <2>1. Same(b, c)
    BY <1>0, <1>a, <1>4, KeyParts DEF JoinFlight, IInv, Flying
  <2>2. TypeOK'
    BY <1>4 DEF IInv, TypeOK, JoinFlight, Goto, confVars, argVars, Steps, Ended
  <2>3. Flying'
    BY <1>0, <1>a, <1>4, <2>1, Frame DEF IInv, TypeOK, Flying, JoinFlight, Goto, argVars
  <2>4. Answered'
    BY <1>0, <1>a, <1>4, Frame DEF IInv, TypeOK, Answered, JoinFlight, Goto
  <2> QED
    BY <2>2, <2>3, <2>4
<1>5. ASSUME CacheMiss(c) \/ LeadFlight(c)
      PROVE  TypeOK' /\ Flying' /\ Answered'
  <2>1. pc' \in [Calls -> Steps] /\ (\A d \in Calls : pc'[d] = "waiting" => pc[d] = "waiting")
        /\ flights' \subseteq Calls /\ flights \subseteq flights'
    <3>1. CASE CacheMiss(c)
      BY <3>1 DEF IInv, TypeOK, CacheMiss, Goto, Steps
    <3>2. CASE LeadFlight(c)
      BY <3>2 DEF IInv, TypeOK, LeadFlight, Goto, Steps
    <3> QED
      BY <1>5, <3>1, <3>2
  <2>2. TypeOK'
    BY <1>5, <2>1 DEF IInv, TypeOK, CacheMiss, LeadFlight, confVars, argVars
  <2>3. Flying'
    BY <1>0, <1>a, <1>5, Frame DEF IInv, TypeOK, Flying, CacheMiss, LeadFlight, Goto, argVars
  <2>4. Answered'
    BY <1>0, <1>a, <1>5, Frame DEF IInv, TypeOK, Answered, CacheMiss, LeadFlight, Goto
  <2> QED
    BY <2>2, <2>3, <2>4
<1> QED
  BY <1>1, <1>2, <1>3, <1>4, <1>5 DEF IInv

\* The steps around a worker.
LEMMA WorkerInv ==
  ASSUME IInv, NEW c \in Calls,
         \/ \E a \in Accounts : SpawnWorker(c, a) \/ SpawnRefused(c, a)
         \/ WorkerReturns(c) \/ WorkerFails(c)
  PROVE  IInv'
<1> USE ToolCallsAssumption
<1>0. /\ UNCHANGED <<confVars, argVars, snap, flights, flightOf>>
      /\ pc[c] \in {"spawn", "running"}
      /\ pc' = [pc EXCEPT ![c] = pc'[c]]
      /\ pc'[c] \in {"running", "stored", "erred", "answered", "failed"}
      /\ c \in flights <=> pc'[c] \in {"stored", "erred"} \/ (pc'[c] = "running" /\ c \in flights)
  <2>1. pc \in [Calls -> Steps]
    BY DEF IInv, TypeOK
  <2>2. CASE \E a \in Accounts : SpawnWorker(c, a)
    BY <2>1, <2>2 DEF SpawnWorker, Goto
  <2>3. CASE \E a \in Accounts : SpawnRefused(c, a)
    BY <2>1, <2>3 DEF SpawnRefused, Errs, Goto
  <2>4. CASE WorkerReturns(c)
    BY <2>1, <2>4 DEF WorkerReturns, Goto
  <2>5. CASE WorkerFails(c)
    BY <2>1, <2>5 DEF WorkerFails, Errs, Goto
  <2> QED
    BY <2>2, <2>3, <2>4, <2>5
<1>a. \A d \in Calls \ {c} : pc'[d] = pc[d]
  BY <1>0 DEF IInv, TypeOK
<1>b. UNCHANGED <<tool, priv>> /\ (\A d \in Calls : Rooted(d)' <=> Rooted(d))
      /\ \A b, d \in Calls : Same(b, d)' <=> Same(b, d)
  BY <1>0, Frame DEF argVars
<1>1. Switched' /\ Arrived' /\ Snapped' /\ Allowed'
  BY <1>0, <1>a, ChecksKept
<1>2. Flying'
  <2>1. \A d \in Calls : pc[d] = "waiting" => flightOf[d] \in Calls
    BY DEF IInv, TypeOK
  <2> QED
    BY <1>0, <1>a, <1>b, <2>1 DEF IInv, Flying
<1>c. c \notin cache
  BY <1>0 DEF IInv, Storing
<1>3. pc' \in [Calls -> Steps] /\ \A d \in Calls : pc'[d] = "waiting" => pc[d] = "waiting"
  <2>1. pc'[c] \in Steps /\ pc'[c] # "waiting"
    BY <1>0 DEF Steps, Ended
  <2>2. pc \in [Calls -> Steps]
    BY DEF IInv, TypeOK
  <2>3. pc' \in [Calls -> Steps]
    BY <1>0, <2>1, <2>2
  <2> QED
    BY <1>a, <2>1, <2>3
<1>4. ASSUME NEW a \in Accounts, SpawnWorker(c, a)
      PROVE  TypeOK' /\ Working' /\ Storing' /\ Answered'
  <2>0. /\ UNCHANGED <<cache, by>> /\ worker' = [worker EXCEPT ![c] = worker'[c]]
        /\ worker'[c] = (IF priv[c] THEN "root" ELSE "user") /\ (priv[c] => Rooted(c))
        /\ pc'[c] = "running"
    BY <1>4 DEF IInv, TypeOK, SpawnWorker, MaySpawn, Rooted, Goto
  <2>1. worker' \in [Calls -> {None, "user", "root"}]
    BY <2>0 DEF IInv, TypeOK
  <2>2. TypeOK'
    BY <1>0, <1>3, <2>0, <2>1 DEF IInv, TypeOK, confVars, argVars
  <2>3. \A d \in Calls \ {c} : worker'[d] = worker[d]
    BY <2>0 DEF IInv, TypeOK
  <2>4. Working'
    BY <1>a, <1>b, <2>0, <2>3 DEF IInv, Working
  <2>5. Storing'
    BY <1>a, <1>b, <1>c, <2>0, <2>3 DEF IInv, TypeOK, Storing
  <2>6. Answered'
    BY <1>a, <1>b, <2>0, <2>3 DEF IInv, Answered
  <2> QED
    BY <2>2, <2>4, <2>5, <2>6
<1>5. ASSUME UNCHANGED <<worker, cache, by>>, pc'[c] \in {"erred", "failed"}
      PROVE  TypeOK' /\ Working' /\ Storing' /\ Answered'
  <2>1. TypeOK'
    BY <1>0, <1>3, <1>5 DEF IInv, TypeOK, confVars, argVars
  <2>2. Working'
    BY <1>a, <1>b, <1>5 DEF IInv, Working
  <2>3. Storing'
    BY <1>a, <1>b, <1>c, <1>5 DEF IInv, TypeOK, Storing
  <2>4. Answered'
    BY <1>a, <1>b, <1>5 DEF IInv, Answered
  <2> QED
    BY <2>1, <2>2, <2>3, <2>4
<1>6. ASSUME WorkerReturns(c)
      PROVE  TypeOK' /\ Working' /\ Storing' /\ Answered'
  <2>0. UNCHANGED worker /\ pc[c] = "running" /\ worker[c] # None
    BY <1>6 DEF WorkerReturns, IInv, Working
  <2>1. CASE c \in flights
    <3>0. pc'[c] = "stored" /\ by' = by /\ cache' \subseteq cache \cup {c} /\ tool[c] = "disks/usage"
      BY <1>6, <2>1 DEF WorkerReturns, IInv, TypeOK, Goto, Flying
    <3>1. TypeOK'
      BY <1>0, <1>3, <2>0, <3>0 DEF IInv, TypeOK, confVars, argVars
    <3>2. Working'
      BY <1>a, <1>b, <2>0, <3>0 DEF IInv, Working
    <3>3. Storing'
      BY <1>a, <1>b, <2>0, <3>0 DEF IInv, TypeOK, Storing
    <3>4. Answered'
      BY <1>a, <1>b, <2>0, <3>0 DEF IInv, Answered
    <3> QED
      BY <3>1, <3>2, <3>3, <3>4
  <2>2. CASE c \notin flights
    <3>0. pc'[c] = "answered" /\ by' = [by EXCEPT ![c] = c] /\ cache' = cache
      BY <1>6, <2>2 DEF WorkerReturns, IInv, TypeOK, Goto
    <3>1. TypeOK'
      BY <1>0, <1>3, <2>0, <3>0 DEF IInv, TypeOK, confVars, argVars
    <3>2. Working'
      BY <1>a, <1>b, <2>0, <3>0 DEF IInv, Working
    <3>3. Storing'
      BY <1>a, <1>b, <1>c, <2>0, <3>0 DEF IInv, TypeOK, Storing
    <3>4. Same(c, c)
      BY DEF Same
    <3>5. Answered'
      BY <1>a, <1>b, <2>0, <3>0, <3>4 DEF IInv, TypeOK, Answered
    <3> QED
      BY <3>1, <3>2, <3>3, <3>5
  <2> QED
    BY <2>1, <2>2
<1>7. CASE (\E a \in Accounts : SpawnRefused(c, a)) \/ WorkerFails(c)
  <2>1. UNCHANGED <<worker, cache, by>> /\ pc'[c] \in {"erred", "failed"}
    BY <1>7 DEF SpawnRefused, WorkerFails, Errs, Goto, IInv, TypeOK
  <2> QED
    BY <1>1, <1>2, <1>5, <2>1 DEF IInv
<1> QED
  BY <1>1, <1>2, <1>4, <1>6, <1>7 DEF IInv

\* The end of a flight answers everyone who waited for it.
LEMMA FlightEndsInv ==
  ASSUME IInv, NEW c \in Calls, FlightEnds(c)
  PROVE  IInv'
<1> USE ToolCallsAssumption
<1>0. /\ UNCHANGED <<confVars, argVars, snap, worker, flightOf, cache>>
      /\ pc[c] \in {"stored", "erred"} /\ flights' = flights \ {c}
      /\ pc' = [d \in Calls |-> IF d \notin Landed(c) THEN pc[d]
                                ELSE IF pc[c] = "stored" THEN "answered" ELSE "failed"]
      /\ by' = [d \in Calls |-> IF pc[c] = "stored" /\ d \in Landed(c) THEN c ELSE by[d]]
  BY DEF FlightEnds
<1>1. \A d \in Calls : d \in Landed(c) <=> d = c \/ (pc[d] = "waiting" /\ flightOf[d] = c)
  BY DEF Landed
<1>2. \A d \in Calls \ Landed(c) : pc'[d] = pc[d] /\ by'[d] = by[d]
  BY <1>0
<1>3. \A d \in Landed(c) \cap Calls : pc'[d] = IF pc[c] = "stored" THEN "answered" ELSE "failed"
  BY <1>0
<1>b. UNCHANGED <<tool, priv>> /\ (\A d \in Calls : Rooted(d)' <=> Rooted(d))
      /\ \A b, d \in Calls : Same(b, d)' <=> Same(b, d)
  BY <1>0, Frame DEF argVars
<1>4. Switched' /\ Arrived' /\ Snapped' /\ Allowed'
  <2>1. \A d \in Calls \cap Landed(c) : pc[d] \in {"stored", "erred", "waiting"}
    BY <1>0, <1>1
  <2> QED
    BY <1>0, <1>2, <1>3, <2>1, ChecksKept
<1>5. TypeOK'
  <2>1. pc' \in [Calls -> Steps]
    BY <1>0 DEF IInv, TypeOK, Steps, Ended
  <2>2. by' \in [Calls -> Calls \cup {None}]
    BY <1>0 DEF IInv, TypeOK
  <2>3. \A d \in Calls : pc'[d] = "waiting" => flightOf[d] \in flights'
    BY <1>0, <1>1, <1>2, <1>3 DEF IInv, TypeOK
  <2> QED
    BY <1>0, <2>1, <2>2, <2>3 DEF IInv, TypeOK, confVars, argVars
<1>6. Working'
  <2>1. \A d \in Calls \cap Landed(c) : worker[d] # None => d = c
    BY <1>1 DEF IInv, Working
  <2> QED
    BY <1>0, <1>2, <1>3, <1>b, <2>1 DEF IInv, Working
<1>7. Flying'
  <2>1. \A d \in Calls : pc[d] = "waiting" => flightOf[d] \in Calls
    BY DEF IInv, TypeOK
  <2>2. \A d \in Calls \cap Landed(c) : d \in flights => d = c
    BY <1>1 DEF IInv, Flying
  <2>3. c \in Landed(c)
    BY <1>1
  <2> QED
    BY <1>0, <1>2, <1>3, <1>b, <2>1, <2>2, <2>3 DEF IInv, Flying
<1>8. Storing'
  <2>1. \A b \in cache : b \in Calls /\ (b \in Landed(c) => b = c /\ pc[c] = "stored")
    BY <1>0, <1>1 DEF IInv, TypeOK, Storing
  <2> QED
    BY <1>0, <1>2, <1>3, <1>b, <2>1 DEF IInv, Storing
<1>9. Answered'
  <2>1. \A d \in Calls \cap Landed(c) : Same(c, d)
    BY <1>1 DEF IInv, Flying, Same
  <2>2. pc[c] = "stored" => worker[c] # None
    BY DEF IInv, Working
  <2>3. \A d \in Calls \cap Landed(c) : pc'[d] = "answered" => by'[d] = c /\ pc[c] = "stored"
    BY <1>0, <1>3
  <2> QED
    BY <1>0, <1>2, <1>b, <2>1, <2>2, <2>3 DEF IInv, Answered
<1> QED
  BY <1>4, <1>5, <1>6, <1>7, <1>8, <1>9 DEF IInv

\* A reload leaves every snapshot as it was.
LEMMA ReloadInv ==
  ASSUME IInv, Reload \/ \E b \in Calls : Expire(b)
  PROVE  IInv'
<1> USE ToolCallsAssumption
<1>1. CASE \E g \in [Users -> Levels] : SwapUsers(g)
  <2> PICK g \in [Users -> Levels] : SwapUsers(g)
    BY <1>1
  <2>0. /\ UNCHANGED <<noRoot, setEpoch, argVars, pc, snap, worker, flights, flightOf, cache, by>>
        /\ usersEpoch' = usersEpoch + 1 /\ usersEpoch < MaxEpoch /\ swap' = "users"
        /\ swap = "idle" /\ grants' = [e \in Epochs |-> IF e <= usersEpoch THEN grants[e] ELSE g]
    BY DEF SwapUsers
  <2>1. TypeOK'
    BY <2>0 DEF IInv, TypeOK, Epochs, argVars
  <2>2. Switched' /\ Arrived' /\ Snapped'
    BY <2>0 DEF IInv, TypeOK, Switched, Arrived, Snapped, Started, Epochs, argVars
  <2>3. \A c \in Calls : Started(c) => Level(c)' = Level(c)
    <3> SUFFICES ASSUME NEW c \in Calls, Started(c) PROVE Level(c)' = Level(c)
      OBVIOUS
    <3>1. snap[c] \in Epochs /\ snap[c] <= usersEpoch
      BY DEF IInv, TypeOK, Snapped, Switched, Epochs
    <3>2. grants'[snap[c]] = grants[snap[c]]
      BY <2>0, <3>1
    <3> QED
      BY <2>0, <3>2 DEF Level, argVars
  <2>4. \A c \in Calls : Started(c) => (Passed(c)' <=> Passed(c)) /\ (Rooted(c)' <=> Rooted(c))
    BY <2>0, <2>3 DEF Passed, Rooted, Permitted, PathAllowed, CoversRoot, CanRunAsRoot, argVars
  <2>5. \A b, c \in Calls : Started(b) /\ Started(c) => (Same(b, c)' <=> Same(b, c))
    BY <2>0, <2>3 DEF Same, NoFollow, CoversRoot, argVars
  <2>6. Allowed' /\ Working'
    BY <2>0, <2>4 DEF IInv, Allowed, Working, Started, argVars
  <2>7. Flying'
    <3>1. \A c \in Calls : pc[c] = "waiting" => flightOf[c] \in Calls /\ Started(flightOf[c])
      BY DEF IInv, TypeOK, Flying, Started
    <3> QED
      BY <2>0, <2>5, <3>1 DEF IInv, Flying, Started, argVars
  <2>8. Storing'
    BY <2>0 DEF IInv, Storing, argVars
  <2>9. Answered'
    <3>1. \A c \in Calls : worker[c] # None => Started(c)
      BY DEF IInv, Working, Started
    <3> QED
      BY <2>0, <2>5, <3>1 DEF IInv, Answered, Started
  <2> QED
    BY <2>1, <2>2, <2>6, <2>7, <2>8, <2>9 DEF IInv
<1>2. ASSUME UNCHANGED <<noRoot, usersEpoch, grants, argVars, pc, snap, worker, flights, flightOf, by>>,
             setEpoch' = usersEpoch \/ setEpoch' = setEpoch,
             cache' \subseteq cache,
             swap' \in {"idle", "users", "settings"}, swap' # "users" => setEpoch' = usersEpoch
      PROVE  IInv'
  <2>1. TypeOK'
    BY <1>2 DEF IInv, TypeOK, argVars
  <2>2. Switched' /\ Arrived' /\ Snapped'
    BY <1>2 DEF IInv, TypeOK, Switched, Arrived, Snapped, Started, Epochs, argVars
  <2>3. /\ \A c \in Calls : (Passed(c)' <=> Passed(c)) /\ (Rooted(c)' <=> Rooted(c))
        /\ \A b, c \in Calls : Same(b, c)' <=> Same(b, c)
    BY <1>2 DEF Passed, Rooted, Permitted, Level, CanRunAsRoot, Same, NoFollow, argVars
  <2>4. Allowed' /\ Working' /\ Storing'
    BY <1>2, <2>3 DEF IInv, Allowed, Working, Storing, argVars
  <2>5. Flying' /\ Answered'
    BY <1>2, <2>3 DEF IInv, TypeOK, Flying, Answered, argVars
  <2> QED
    BY <2>1, <2>2, <2>4, <2>5 DEF IInv
<1>3. CASE StoreSettings \/ ClearCache
  BY <1>2, <1>3 DEF StoreSettings, ClearCache, IInv, Switched
<1>4. CASE \E b \in Calls : Expire(b)
  BY <1>2, <1>4 DEF Expire, confVars, IInv, TypeOK, Switched
<1> QED
  BY <1>1, <1>3, <1>4 DEF Reload

\* Every step keeps the invariant.
LEMMA StepInv == IInv /\ [Next]_vars => IInv'
<1> SUFFICES ASSUME IInv, [Next]_vars PROVE IInv'
  OBVIOUS
<1>1. CASE \E c \in Calls : Arrive(c)
  BY <1>1, AuthenticateInv DEF Arrive
<1>2. CASE \E c \in Calls : Handle(c)
  BY <1>2, CheckInv, CacheInv, FlightEndsInv, WorkerInv DEF Handle
<1>3. CASE Reload \/ \E c \in Calls : Expire(c)
  BY <1>3, ReloadInv
<1>4. CASE UNCHANGED vars
  <2>1. UNCHANGED <<confVars, argVars, snap, pc, worker, flights, flightOf, cache, by>>
    BY <1>4 DEF vars
  <2>2. Switched' /\ Arrived' /\ Snapped' /\ Allowed'
    BY <2>1, ChecksKept
  <2>3. TypeOK'
    BY <2>1 DEF IInv, TypeOK, confVars, argVars
  <2>4. Working' /\ Flying' /\ Storing' /\ Answered'
    BY <2>1, Frame DEF IInv, Working, Flying, Storing, Answered, argVars
  <2> QED
    BY <2>2, <2>3, <2>4 DEF IInv
<1> QED
  BY <1>1, <1>2, <1>3, <1>4 DEF Next

\* The inductive invariant.
THEOREM ToolCallsInvariant == Spec => []IInv
BY InitInv, StepInv, PTL DEF Spec

\* Every variable keeps its type, and a call that waits, waits for a flight
\* that is under way.
THEOREM ToolCallsTypeCorrect == Spec => []TypeOK
<1>1. IInv => TypeOK
  BY DEF IInv
<1> QED
  BY <1>1, ToolCallsInvariant, PTL

\* Because reloadConfig holds cfgMu until Reconfigure returns, no call runs
\* under grants older than the users it was authenticated against.
THEOREM GrantsNotOlderThanUsers == Spec => []SnapshotNotOlder
<1>1. IInv => SnapshotNotOlder
  BY DEF IInv, TypeOK, Snapped, SnapshotNotOlder, Epochs
<1> QED
  BY <1>1, ToolCallsInvariant, PTL

\* SpawnWorker starts a root worker only for a call that asked for it and whose
\* own snapshot allows the tool and lists the path, and never over stdio.
THEOREM RootNeedsGrant == Spec => []RootOnlyByGrant
<1>1. IInv => RootOnlyByGrant
  BY ToolCallsAssumption DEF IInv, Working, Allowed, Passed, Rooted, Permitted, RootOnlyByGrant
<1> QED
  BY <1>1, ToolCallsInvariant, PTL

\* What a call gets from RpcCache or from a flight it joined is the result its
\* own worker would have produced.
THEOREM SharingIsSound == Spec => []SharedResultsAgree
<1>1. IInv => SharedResultsAgree
  BY DEF IInv, TypeOK, Working, Answered, Same, NoFollow, SharedResultsAgree
<1> QED
  BY <1>1, ToolCallsInvariant, PTL

\* Root output was granted to the worker that produced it, and the path to the
\* caller that gets it.
THEOREM RootOutputWasGranted == Spec => []RootResultsWereGranted
<1>1. IInv => RootResultsWereGranted
  BY DEF IInv, Working, Allowed, Answered, Same, Passed, Rooted, Permitted, RootResultsWereGranted
<1> QED
  BY <1>1, ToolCallsInvariant, PTL

-----------------------------------------------------------------------------
(* The single flight                                                       *)

\* No two flights have one key, and a disks/usage call that has, or is about
\* to have, a worker is a flight.
SingleFlights ==
    /\ \A b, c \in flights : b # c => CacheKey(b) # CacheKey(c)
    /\ \A c \in Calls : tool[c] = "disks/usage" /\ pc[c] \in {"spawn", "running"} => c \in flights

\* The key of a call is fixed from its snapshot on, whatever is reloaded.
LEMMA KeysStay ==
  ASSUME IInv, [Next]_vars, NEW c \in Calls, Started(c)
  PROVE  CacheKey(c)' = CacheKey(c) /\ tool'[c] = tool[c]
<1>1. ASSUME UNCHANGED <<grants, snap, user, path, priv, tool>>
      PROVE  CacheKey(c)' = CacheKey(c) /\ tool'[c] = tool[c]
  BY <1>1 DEF CacheKey, NoFollow, Level, CoversRoot
<1>2. ASSUME NEW d \in Calls, NEW u \in Users, NEW q \in Requests, Authenticate(d, u, q)
      PROVE  CacheKey(c)' = CacheKey(c) /\ tool'[c] = tool[c]
  <2>1. d # c
    BY <1>2 DEF Authenticate, Started
  <2>2. /\ user'[c] = user[c] /\ path'[c] = path[c] /\ priv'[c] = priv[c]
        /\ tool'[c] = tool[c] /\ grants' = grants /\ snap' = snap
    BY <1>2, <2>1 DEF Authenticate, IInv, TypeOK, confVars
  <2> QED
    BY <2>2 DEF CacheKey, NoFollow, Level, CoversRoot
<1>3. ASSUME NEW d \in Calls, Check(d)
      PROVE  CacheKey(c)' = CacheKey(c) /\ tool'[c] = tool[c]
  <2>1. d # c
    BY <1>3 DEF Check, Started
  <2>2. UNCHANGED <<user, path, priv, tool, grants>> /\ snap'[c] = snap[c]
    BY <1>3, <2>1 DEF Check, IInv, TypeOK, confVars, argVars
  <2> QED
    BY <2>2 DEF CacheKey, NoFollow, Level, CoversRoot
<1>4. ASSUME NEW g \in [Users -> Levels], SwapUsers(g)
      PROVE  CacheKey(c)' = CacheKey(c) /\ tool'[c] = tool[c]
  <2>1. snap[c] \in Epochs /\ snap[c] <= usersEpoch
    BY DEF IInv, TypeOK, Snapped, Switched, Epochs
  <2>2. grants'[snap[c]] = grants[snap[c]] /\ UNCHANGED <<snap, user, path, priv, tool>>
    BY <1>4, <2>1 DEF SwapUsers, argVars
  <2> QED
    BY <2>2 DEF CacheKey, NoFollow, Level, CoversRoot
<1>5. ASSUME NEW d \in Calls, Handle(d), ~Check(d)
      PROVE  UNCHANGED <<grants, snap, user, path, priv, tool>>
  BY <1>5 DEF Handle, CacheHit, JoinFlight, CacheMiss, LeadFlight, FlightEnds, SpawnWorker,
              SpawnRefused, WorkerReturns, WorkerFails, confVars, argVars
<1>6. ASSUME StoreSettings \/ ClearCache \/ (\E b \in Calls : Expire(b)) \/ UNCHANGED vars
      PROVE  UNCHANGED <<grants, snap, user, path, priv, tool>>
  BY <1>6 DEF StoreSettings, ClearCache, Expire, vars, confVars, argVars
<1> QED
  BY <1>1, <1>2, <1>3, <1>4, <1>5, <1>6 DEF Next, Arrive, Reload

\* A call joins the flights only where none has its key, and a disks/usage call
\* gets to a worker in no other way.
LEMMA FlightSteps ==
  ASSUME IInv, [Next]_vars
  PROVE  /\ \A c \in flights' \ flights :
               Started(c) /\ \A b \in flights : CacheKey(b) # CacheKey(c)
         /\ \A b, c \in flights' \ flights : b = c
         /\ \A c \in Calls : tool'[c] = "disks/usage" /\ pc'[c] \in {"spawn", "running"} =>
               \/ c \in flights'
               \/ Started(c) /\ pc[c] \in {"spawn", "running"} /\ c \notin flights
<1> DEFINE Joins == \A c \in flights' \ flights :
                       Started(c) /\ \A b \in flights : CacheKey(b) # CacheKey(c)
           Alone == \A b, c \in flights' \ flights : b = c
           Leads == \A c \in Calls : tool'[c] = "disks/usage" /\ pc'[c] \in {"spawn", "running"} =>
                       \/ c \in flights'
                       \/ Started(c) /\ pc[c] \in {"spawn", "running"} /\ c \notin flights
<1>t. pc \in [Calls -> Steps] /\ tool \in [Calls -> Tools \cup {None}] /\ flights \subseteq Calls
  BY DEF IInv, TypeOK
<1>1. ASSUME NEW d \in Calls, LeadFlight(d)
      PROVE  Joins /\ Alone /\ Leads
  <2>1. /\ flights' = flights \cup {d} /\ pc' = [pc EXCEPT ![d] = "spawn"] /\ tool' = tool
        /\ pc[d] = "missed" /\ \A b \in flights : CacheKey(b) # CacheKey(d)
    BY <1>1 DEF LeadFlight, Goto, argVars
  <2>2. Started(d)
    BY <2>1 DEF Started
  <2>3. Joins /\ Alone
    BY <2>1, <2>2
  <2>4. Leads
    BY <1>t, <2>1 DEF Started
  <2> QED
    BY <2>3, <2>4
<1>2. ASSUME NEW d \in Calls, FlightEnds(d)
      PROVE  Joins /\ Alone /\ Leads
  <2>1. flights' = flights \ {d} /\ tool' = tool /\ pc[d] \in {"stored", "erred"}
        /\ \A c \in Calls : pc'[c] = pc[c] \/ pc'[c] \in {"answered", "failed"}
    BY <1>2 DEF FlightEnds, argVars
  <2> QED
    BY <2>1 DEF Started
<1>3. ASSUME UNCHANGED flights, 
             \A c \in Calls : tool'[c] = "disks/usage" /\ pc'[c] \in {"spawn", "running"} =>
                Started(c) /\ pc[c] \in {"spawn", "running"}
      PROVE  Joins /\ Alone /\ Leads
  BY <1>3
<1>4. ASSUME NEW d \in Calls, Arrive(d)
      PROVE  Joins /\ Alone /\ Leads
  <2> PICK u \in Users, q \in Requests : Authenticate(d, u, q)
    BY <1>4 DEF Arrive
  <2>1. UNCHANGED flights /\ pc' = [pc EXCEPT ![d] = "authenticated"]
        /\ tool' = [tool EXCEPT ![d] = q[1]]
    BY DEF Authenticate, Goto
  <2> HIDE DEF Joins, Alone, Leads
  <2> QED
    BY <1>t, <1>3, <2>1 DEF Started
<1>5. ASSUME NEW d \in Calls, Check(d)
      PROVE  Joins /\ Alone /\ Leads
  <2>1. UNCHANGED <<flights, tool>> 
        /\ \E s \in Steps : pc' = [pc EXCEPT ![d] = s] /\ (tool[d] = "disks/usage" => s \in {"refused", "lookup"})
    BY <1>5 DEF Check, Goto, argVars, Steps, Ended
  <2> HIDE DEF Joins, Alone, Leads
  <2> QED
    BY <1>t, <1>3, <2>1 DEF Started
<1>6. ASSUME NEW d \in Calls, Handle(d), ~LeadFlight(d), ~FlightEnds(d), ~Check(d)
      PROVE  Joins /\ Alone /\ Leads
  <2>1. UNCHANGED <<flights, tool>> 
        /\ \E s : pc' = [pc EXCEPT ![d] = s] /\ (s \in {"spawn", "running"} => pc[d] = "spawn")
    BY <1>6 DEF Handle, CacheHit, JoinFlight, CacheMiss, SpawnWorker, SpawnRefused,
                WorkerReturns, WorkerFails, Errs, Goto, argVars
  <2> HIDE DEF Joins, Alone, Leads
  <2> QED
    BY <1>t, <1>3, <2>1 DEF Started
<1>7. ASSUME Reload \/ (\E b \in Calls : Expire(b)) \/ UNCHANGED vars
      PROVE  Joins /\ Alone /\ Leads
  <2>1. UNCHANGED <<flights, tool, pc>>
    BY <1>7 DEF Reload, SwapUsers, StoreSettings, ClearCache, Expire, vars, argVars
  <2> HIDE DEF Joins, Alone, Leads
  <2> QED
    BY <1>3, <2>1 DEF Started
<1> HIDE DEF Joins, Alone, Leads
<1>8. Joins /\ Alone /\ Leads
  BY <1>1, <1>2, <1>4, <1>5, <1>6, <1>7 DEF Next
<1> QED
  BY <1>8 DEF Joins, Alone, Leads

\* Every step keeps the flights apart.
LEMMA SingleFlightsStep ==
  ASSUME IInv, SingleFlights, [Next]_vars
  PROVE  SingleFlights'
<1>0. IInv'
  BY StepInv
<1>1. \A c \in flights' : c \in Calls /\ Started(c)
  <2>1. \A c \in flights : c \in Calls /\ Started(c)
    BY DEF IInv, TypeOK, Flying, Started
  <2> QED
    BY <1>0, <2>1, FlightSteps DEF IInv, TypeOK
<1>2. \A c \in flights' : CacheKey(c)' = CacheKey(c)
  BY <1>1, KeysStay
<1>3. \A b, c \in flights' : b # c => CacheKey(b) # CacheKey(c)
  BY FlightSteps DEF SingleFlights
<1>4. \A b, c \in flights' : b # c => CacheKey(b)' # CacheKey(c)'
  BY <1>2, <1>3
<1>5. \A c \in Calls : tool'[c] = "disks/usage" /\ pc'[c] \in {"spawn", "running"} => c \in flights'
  BY FlightSteps, KeysStay DEF SingleFlights
<1> QED
  BY <1>4, <1>5 DEF SingleFlights

\* RequestGroup lets one disks/usage call per cache key run at a time: there are
\* never two workers for one key, also when the grants are reloaded between.
THEOREM OneFlightPerKey == Spec => []OneWorkerPerKey
<1>1. Init => SingleFlights
  BY DEF Init, SingleFlights
<1>2. IInv /\ SingleFlights /\ [Next]_vars => SingleFlights'
  BY SingleFlightsStep
<1>3. IInv /\ SingleFlights => OneWorkerPerKey
  BY DEF IInv, TypeOK, SingleFlights, OneWorkerPerKey
<1> QED
  BY <1>1, <1>2, <1>3, ToolCallsInvariant, PTL DEF Spec

=============================================================================
