---------------------------- MODULE DockerProofs ----------------------------
(***************************************************************************)
(* Docker, for every set of containers, objects, grants, requests and      *)
(* calls: its type invariant, and that calls act only on containers their  *)
(* grant covers, destroy only what is unused and unnamed, answer "not      *)
(* running" only for an exec that ended, and list everyone who uses a      *)
(* volume or network.                                                      *)
(*                                                                         *)
(* The Engine changes between the steps of a call, so the invariant keeps  *)
(* what each step has established for the next one: the lists the master   *)
(* set (Prepared), the container Authorize chose (Authorized), what the    *)
(* first request of a listing returned (Listed); and that a call which     *)
(* acted does not resolve again, and one which answered is over (Settled). *)
(***************************************************************************)
EXTENDS Docker, TLAPS

\* The tool is granted and the worker has the lists of the grant.
Prepared ==
    \A c \in Calls :
        pc[c] \in {"spawned", "act", "start", "stream", "ask", "members"} =>
            Granted(grant, req[c]) /\ args[c] = PrepareDockerCall(grant, req[c])

\* Past Authorize the target is one the grant covers.
Authorized ==
    \A c \in Calls :
        pc[c] \in {"act", "start", "stream", "ask"} =>
            /\ req[c].tool \in ContainerTools /\ target[c] \in Ids
            /\ Covers(grant, req[c], view[c][target[c]], target[c])

\* A call that acted on a container is past resolving one, and one that has
\* answered is over.
Settled ==
    /\ \A p \in acted : pc[p[1]] \in {"start", "stream", "ask", "done"}
    /\ \A c \in Calls : out[c].st # "none" => pc[c] = "done"

\* The containers a listing began with existed then; between its requests it
\* holds objects of the one kind asked for.
Listed ==
    \A c \in Calls :
        /\ had[c] \subseteq born
        /\ pc[c] = "members" =>
              /\ req[c].target \in {"volumes", "networks"}
              /\ seen[c] \subseteq {o \in Objs : KindOf[o] = req[c].target}

IInv ==
    /\ TypeOK /\ Prepared /\ Authorized /\ Settled /\ Listed
    /\ ActsOnWhatIsGranted /\ DestroysOnlyWaste /\ ExecEndIsReal /\ ListingShowsUsers

-----------------------------------------------------------------------------
LEMMA InitInv == Init => IInv
  <1> SUFFICES ASSUME Init PROVE IInv OBVIOUS
  <1>0. /\ grant \in GrantType /\ req \in [Calls -> RequestType]
    BY DockerAssumption DEF Init
  <1>1. TypeOK BY <1>0 DEF Init, TypeOK, States, Pcs, NoArgs, NoAnswer, Answer
  <1>2. Prepared /\ Authorized /\ Settled /\ Listed
    BY DEF Init, Prepared, Authorized, Settled, Listed, NoAnswer, Answer
  <1>3. ActsOnWhatIsGranted /\ DestroysOnlyWaste /\ ExecEndIsReal /\ ListingShowsUsers
    BY DEF Init, ActsOnWhatIsGranted, DestroysOnlyWaste, ExecEndIsReal, ListingShowsUsers,
       NoAnswer, Answer
  <1> QED BY <1>1, <1>2, <1>3 DEF IInv

\* What remains true of execs that were answered for.
LEMMA ExecsKeep ==
    ASSUME IInv, NEW c \in Calls, UNCHANGED req, out'[c].st # "exit",
           \A d \in Calls \ {c} : out'[d] = out[d],
           \A d \in Calls \ {c} : est[d] = "ended" => est'[d] = "ended"
    PROVE  ExecEndIsReal'
  BY DEF IInv, ExecEndIsReal

\* What remains true of listings that were answered: containers that existed
\* may go, and new ones are not among those a listing began with.
LEMMA UsersKeep ==
    ASSUME IInv, NEW c \in Calls, out'[c].st # "rows", conts' \cap born \subseteq conts,
           \A d \in Calls \ {c} : /\ out'[d] = out[d] /\ seen'[d] = seen[d]
                                  /\ had'[d] = had[d] /\ rows'[d] = rows[d]
    PROVE  ListingShowsUsers'
  BY DEF IInv, ListingShowsUsers, Listed

\* A call past Authorize acts on its target.
LEMMA ActsOnTarget ==
    ASSUME IInv, NEW c \in Calls, pc[c] = "act", UNCHANGED <<grant, req, view>>,
           acted' = acted \cup {<<c, target[c]>>}
    PROVE  acted' \subseteq Calls \X Ids /\ ActsOnWhatIsGranted'
  <1>1. target[c] \in Ids /\ Covers(grant, req[c], view[c][target[c]], target[c])
    BY DEF IInv, Authorized
  <1>2. acted' \subseteq Calls \X Ids BY <1>1 DEF IInv, TypeOK
  <1>3. ASSUME NEW p \in acted'
        PROVE  Covers(grant, req[p[1]], view[p[1]][p[2]], p[2])
    <2>1. CASE p \in acted BY <2>1 DEF IInv, ActsOnWhatIsGranted
    <2>2. CASE p = <<c, target[c]>>
      <3>1. p[1] = c /\ p[2] = target[c] BY <2>2
      <3> QED BY <3>1, <1>1
    <2> QED BY <2>1, <2>2
  <1>4. ActsOnWhatIsGranted' BY <1>3 DEF ActsOnWhatIsGranted, Covers, Granted, Allowed
  <1> QED BY <1>2, <1>4

\* A call that does not act keeps the past; one that resolves has not acted.
LEMMA ActsKeep ==
    ASSUME IInv, UNCHANGED <<grant, req, acted>>,
           \A c \in Calls : view'[c] = view[c] \/ pc[c] = "spawned"
    PROVE  ActsOnWhatIsGranted'
  <1> SUFFICES ASSUME NEW p \in acted
               PROVE  Covers(grant, req[p[1]], view'[p[1]][p[2]], p[2])
    BY DEF ActsOnWhatIsGranted, Covers, Granted, Allowed
  <1>1. p[1] \in Calls /\ pc[p[1]] # "spawned" BY DEF IInv, TypeOK, Settled
  <1>2. view'[p[1]] = view[p[1]] BY <1>1
  <1> QED BY <1>2 DEF IInv, ActsOnWhatIsGranted

\* The type of an answer.
LEMMA AnswerTypes ==
    ASSUME TypeOK, NEW c \in Calls, NEW b \in BOOLEAN,
           NEW st \in {"none", "ok", "unchanged", "error", "exit", "rows", "partial"},
           out' = [out EXCEPT ![c] = [st |-> st, run |-> b]]
    PROVE  out' \in [Calls -> [st : {"none", "ok", "unchanged", "error", "exit", "rows", "partial"},
                               run : BOOLEAN]]
  <1>1. [st |-> st, run |-> b] \in
           [st : {"none", "ok", "unchanged", "error", "exit", "rows", "partial"}, run : BOOLEAN]
    OBVIOUS
  <1> QED BY <1>1 DEF TypeOK

\* The types a step of a call relies on.
LEMMA CallTypes ==
    ASSUME IInv
    PROVE  /\ pc \in [Calls -> Pcs] /\ req \in [Calls -> RequestType]
           /\ out \in [Calls -> [st : {"none", "ok", "unchanged", "error", "exit", "rows", "partial"},
                                 run : BOOLEAN]]
           /\ target \in [Calls -> Ids \cup {None}]
           /\ est \in [Calls -> {"none", "created", "running", "ended"}]
           /\ grant \in GrantType
           /\ conts \subseteq Ids /\ cname \in [Ids -> Names] /\ cstate \in [Ids -> States]
  BY DEF IInv, TypeOK

-----------------------------------------------------------------------------
LEMMA AskInv ==
    ASSUME IInv, NEW c \in Calls, Ask(c)
    PROVE  IInv'
  <1> USE DEF Ask, Answered, Goto, Answer, Target, engine, listing, history
  <1>1. TypeOK' BY DEF IInv, TypeOK, Pcs, States
  <1>2. Prepared' BY DEF IInv, TypeOK, Prepared, Granted
  <1>3. Authorized' BY DEF IInv, TypeOK, Authorized, Covers, Granted, Allowed
  <1>4. Settled' BY DEF IInv, TypeOK, Settled
  <1>5. Listed' BY DEF IInv, TypeOK, Listed
  <1>6. ActsOnWhatIsGranted' BY DEF IInv, TypeOK, ActsOnWhatIsGranted, Covers, Granted, Allowed
  <1>7. DestroysOnlyWaste' BY DEF IInv, TypeOK, DestroysOnlyWaste
  <1>8. ExecEndIsReal' BY DEF IInv, TypeOK, ExecEndIsReal
  <1>9. ListingShowsUsers' BY DEF IInv, TypeOK, ListingShowsUsers
  <1> QED BY <1>1, <1>2, <1>3, <1>4, <1>5, <1>6, <1>7, <1>8, <1>9 DEF IInv

LEMMA MasterInv ==
    ASSUME IInv, NEW c \in Calls, Master(c)
    PROVE  IInv'
  <1> USE DEF Master, Answered, Goto, Answer, Target, engine, listing, history
  <1>0. /\ out'[c].st \notin {"exit", "rows"} /\ UNCHANGED <<req, est, conts, seen, had, rows>>
        /\ \A d \in Calls \ {c} : out'[d] = out[d] /\ pc'[d] = pc[d]
    BY CallTypes DEF IInv, Settled
  <1>1. TypeOK'
    <2>1. PrepareDockerCall(grant, req[c]) \in
             [allow : SUBSET (Names \cup Ids), prune : SUBSET PruneTargets]
      BY CallTypes DEF PrepareDockerCall, GrantType
    <2>2. args' \in [Calls -> [allow : SUBSET (Names \cup Ids), prune : SUBSET PruneTargets]]
      BY <2>1 DEF IInv, TypeOK
    <2>3. /\ pc' \in [Calls -> Pcs]
          /\ out' \in [Calls -> [st : {"none", "ok", "unchanged", "error", "exit", "rows", "partial"},
                                run : BOOLEAN]]
      <3>1. pc' \in [Calls -> Pcs] BY CallTypes DEF Pcs
      <3> QED BY <3>1, CallTypes, AnswerTypes DEF IInv
    <2> QED BY <2>2, <2>3 DEF IInv, TypeOK
  <1>2. Prepared'
    <2>1. \A d \in Calls : pc'[d] # "done" => args'[d] = IF d = c THEN PrepareDockerCall(grant, req[c])
                                                                ELSE args[d]
      BY CallTypes DEF IInv, TypeOK
    <2>2. \A d \in Calls : PrepareDockerCall(grant, req[d])' = PrepareDockerCall(grant, req[d])
      BY DEF PrepareDockerCall
    <2>3. Granted(grant, req[c]) \/ pc'[c] = "done" BY CallTypes
    <2>4. \A d \in Calls : Granted(grant, req[d])' = Granted(grant, req[d]) BY DEF Granted
    <2> QED BY <2>1, <2>2, <2>3, <2>4, CallTypes DEF IInv, Prepared
  <1>3. Authorized' BY DEF IInv, TypeOK, Authorized, Covers, Granted, Allowed
  <1>4. Settled' BY DEF IInv, TypeOK, Settled
  <1>5. Listed' BY DEF IInv, TypeOK, Listed
  <1>6. ActsOnWhatIsGranted' BY DEF IInv, TypeOK, ActsOnWhatIsGranted, Covers, Granted, Allowed
  <1>7. DestroysOnlyWaste' BY DEF IInv, TypeOK, DestroysOnlyWaste
  <1>8. ExecEndIsReal' BY <1>0, ExecsKeep
  <1>9. ListingShowsUsers' BY <1>0, UsersKeep
  <1> QED BY <1>1, <1>2, <1>3, <1>4, <1>5, <1>6, <1>7, <1>8, <1>9 DEF IInv

LEMMA AuthorizeStepInv ==
    ASSUME IInv, NEW c \in Calls, AuthorizeStep(c)
    PROVE  IInv'
  <1> USE DEF AuthorizeStep, Answered, Goto, Answer, Target, engine, listing, history
  <1> DEFINE found == Authorize(req[c].ref, Containers(req[c], args[c]))
  <1>b. \A i \in found : i \in Ids /\ Covers(grant, req[c], cname[i], i)
    <2>1. Granted(grant, req[c]) /\ args[c] = PrepareDockerCall(grant, req[c])
      BY DEF IInv, Prepared
    <2>2. args[c].allow = grant.list[req[c].tool] BY <2>1 DEF PrepareDockerCall
    <2>3. req[c].tool = "inspect" \/ req[c].also = None =>
             Containers(req[c], args[c]) = grant.list[req[c].tool]
      BY <2>2 DEF Containers
    <2>4. \A i \in found : i \in Ids /\ Allowed(cname[i], i, Containers(req[c], args[c]))
      BY CallTypes DEF Authorize, Resolved
    <2> HIDE DEF found
    <2> QED BY <2>1, <2>3, <2>4 DEF Covers
  <1>a. /\ pc[c] = "spawned" /\ req[c].tool \in ContainerTools
        /\ \/ /\ pc' = [pc EXCEPT ![c] = "done"] /\ UNCHANGED target
              /\ out' = [out EXCEPT ![c] = [st |-> "error", run |-> FALSE]]
           \/ /\ pc' = [pc EXCEPT ![c] = "act"] /\ UNCHANGED out
              /\ \E i \in found : target' = [target EXCEPT ![c] = i]
        /\ view' = [view EXCEPT ![c] = cname]
        /\ UNCHANGED <<grant, listing, engine, req, args, est, outside, acted, destroyed>>
    OBVIOUS
  <1> HIDE DEF AuthorizeStep, found
  <1>0. /\ out'[c].st \notin {"exit", "rows"} /\ UNCHANGED <<req, est, conts, seen, had, rows>>
        /\ \A d \in Calls \ {c} : out'[d] = out[d] /\ pc'[d] = pc[d]
    BY <1>a, <1>b, CallTypes DEF IInv, Settled
  <1>1. TypeOK'
    <2>1. target' \in [Calls -> Ids \cup {None}] BY <1>a, <1>b, CallTypes
    <2>2. view' \in [Calls -> [Ids -> Names]] BY <1>a, CallTypes DEF IInv, TypeOK
    <2>3. /\ pc' \in [Calls -> Pcs]
          /\ out' \in [Calls -> [st : {"none", "ok", "unchanged", "error", "exit", "rows", "partial"},
                                run : BOOLEAN]]
      <3>1. pc' \in [Calls -> Pcs] BY <1>a, CallTypes DEF Pcs
      <3> QED BY <3>1, <1>a, CallTypes, AnswerTypes DEF IInv
    <2> QED BY <1>a, <2>1, <2>2, <2>3 DEF IInv, TypeOK
  <1>2. Prepared' BY <1>a DEF IInv, TypeOK, Prepared, PrepareDockerCall, Granted
  <1>3. Authorized'
    <2> SUFFICES ASSUME NEW d \in Calls, pc'[d] \in {"act", "start", "stream", "ask"}
                 PROVE  /\ req[d].tool \in ContainerTools /\ target'[d] \in Ids
                        /\ Covers(grant, req[d], view'[d][target'[d]], target'[d])
      BY <1>a DEF Authorized, Covers, Granted, Allowed
    <2>1. CASE d = c BY <2>1, <1>a, <1>b, CallTypes DEF IInv, TypeOK
    <2>2. CASE d # c BY <2>2, <1>a, CallTypes DEF IInv, TypeOK, Authorized
    <2> QED BY <2>1, <2>2
  <1>4. Settled' BY <1>a, CallTypes DEF IInv, TypeOK, Settled
  <1>5. Listed' BY <1>a, CallTypes DEF IInv, TypeOK, Listed
  <1>6. ActsOnWhatIsGranted' BY <1>a, CallTypes, ActsKeep DEF IInv, TypeOK
  <1>7. DestroysOnlyWaste' BY <1>a DEF IInv, DestroysOnlyWaste
  <1>8. ExecEndIsReal' BY <1>0, ExecsKeep
  <1>9. ListingShowsUsers' BY <1>0, UsersKeep
  <1> QED BY <1>1, <1>2, <1>3, <1>4, <1>5, <1>6, <1>7, <1>8, <1>9 DEF IInv

LEMMA FailInv ==
    ASSUME IInv, NEW c \in Calls, Fail(c)
    PROVE  IInv'
  <1> USE DEF Fail, Answered, Goto, Answer, Target, engine, listing, history
  <1>1. TypeOK' BY DEF IInv, TypeOK, Pcs, States
  <1>2. Prepared' BY DEF IInv, TypeOK, Prepared, Granted
  <1>3. Authorized' BY DEF IInv, TypeOK, Authorized, Covers, Granted, Allowed
  <1>4. Settled' BY DEF IInv, TypeOK, Settled
  <1>5. Listed' BY DEF IInv, TypeOK, Listed
  <1>6. ActsOnWhatIsGranted' BY DEF IInv, TypeOK, ActsOnWhatIsGranted, Covers, Granted, Allowed
  <1>7. DestroysOnlyWaste' BY DEF IInv, TypeOK, DestroysOnlyWaste
  <1>8. ExecEndIsReal' BY DEF IInv, TypeOK, ExecEndIsReal
  <1>9. ListingShowsUsers' BY DEF IInv, TypeOK, ListingShowsUsers
  <1> QED BY <1>1, <1>2, <1>3, <1>4, <1>5, <1>6, <1>7, <1>8, <1>9 DEF IInv

LEMMA RemoveInv ==
    ASSUME IInv, NEW c \in Calls, Remove(c)
    PROVE  IInv'
  <1> USE DEF Remove, Replied, Answered, Goto, Answer, Target, engine, listing, history
  <1>a. acted' \subseteq Calls \X Ids /\ ActsOnWhatIsGranted' BY ActsOnTarget
  <1>0. /\ conts' \subseteq conts
        /\ out'[c].st \notin {"exit", "rows"} /\ UNCHANGED <<req, est, seen, had, rows>>
        /\ \A d \in Calls \ {c} : out'[d] = out[d] /\ pc'[d] = pc[d]
    BY CallTypes DEF IInv, Settled
  <1>1. TypeOK'
    <2>1. [kind |-> "containers", live |-> cstate[target[c]] # "exited", precious |-> FALSE,
           by |-> "manage"] \in [kind : Kinds \cup {"containers"}, live : BOOLEAN,
                                 precious : BOOLEAN, by : {"prune", "manage"}]
      OBVIOUS
    <2>2. /\ pc' \in [Calls -> Pcs]
          /\ out' \in [Calls -> [st : {"none", "ok", "unchanged", "error", "exit", "rows", "partial"},
                                run : BOOLEAN]]
      <3>1. pc' \in [Calls -> Pcs] BY CallTypes DEF Pcs
      <3> QED BY <3>1, CallTypes, AnswerTypes DEF IInv
    <2>3. /\ UNCHANGED <<grant, listing, born, cname, cstate, objs, req, args, target, est, outside, view>>
          /\ conts' \subseteq conts
          /\ destroyed' = destroyed \cup {[kind |-> "containers", live |-> cstate[target[c]] # "exited",
                                           precious |-> FALSE, by |-> "manage"]}
      OBVIOUS
    <2> HIDE DEF Remove
    <2> QED BY <2>1, <2>2, <2>3, <1>a DEF IInv, TypeOK
  <1>2. Prepared' BY DEF IInv, TypeOK, Prepared, Granted
  <1>3. Authorized' BY DEF IInv, TypeOK, Authorized, Covers, Granted, Allowed
  <1>4. Settled'
    <2>1. /\ pc' = [pc EXCEPT ![c] = "done"] /\ acted' = acted \cup {<<c, target[c]>>}
          /\ \A d \in Calls \ {c} : out'[d] = out[d]
      BY <1>0
    <2>2. \A p \in acted' : p \in acted \/ p[1] = c BY <2>1
    <2>3. \A p \in acted' : p[1] \in Calls BY <1>a
    <2> HIDE DEF Remove
    <2> QED BY <2>1, <2>2, <2>3, CallTypes DEF IInv, Settled
  <1>5. Listed' BY DEF IInv, TypeOK, Listed
  <1>6. ActsOnWhatIsGranted' BY <1>a
  <1>7. DestroysOnlyWaste'
    <2> DEFINE gone == [kind |-> "containers", live |-> cstate[target[c]] # "exited",
                        precious |-> FALSE, by |-> "manage"]
    <2>1. gone.kind = "containers" /\ ~gone.live /\ ~gone.precious /\ gone.by = "manage"
      BY DEF Removable
    <2>2. destroyed' = destroyed \cup {gone} /\ UNCHANGED grant OBVIOUS
    <2> HIDE DEF gone
    <2> QED BY <2>1, <2>2 DEF IInv, DestroysOnlyWaste
  <1>8. ExecEndIsReal' BY <1>0, ExecsKeep
  <1>9. ListingShowsUsers' BY <1>0, UsersKeep
  <1> QED BY <1>1, <1>2, <1>3, <1>4, <1>5, <1>6, <1>7, <1>8, <1>9 DEF IInv

LEMMA LogsInv ==
    ASSUME IInv, NEW c \in Calls, Logs(c)
    PROVE  IInv'
  <1> USE DEF Logs, Answered, Goto, Answer, Target, engine, listing, history
  <1>a. acted' \subseteq Calls \X Ids /\ ActsOnWhatIsGranted' BY ActsOnTarget
  <1>1. TypeOK' BY <1>a, CallTypes DEF IInv, TypeOK, Pcs
  <1>2. Prepared' BY DEF IInv, TypeOK, Prepared, Granted
  <1>3. Authorized' BY DEF IInv, TypeOK, Authorized, Covers, Granted, Allowed
  <1>4. Settled' BY DEF IInv, TypeOK, Settled
  <1>5. Listed' BY DEF IInv, TypeOK, Listed
  <1>6. ActsOnWhatIsGranted' BY <1>a
  <1>7. DestroysOnlyWaste' BY DEF IInv, TypeOK, DestroysOnlyWaste
  <1>8. ExecEndIsReal' BY DEF IInv, TypeOK, ExecEndIsReal
  <1>9. ListingShowsUsers' BY DEF IInv, TypeOK, ListingShowsUsers
  <1> QED BY <1>1, <1>2, <1>3, <1>4, <1>5, <1>6, <1>7, <1>8, <1>9 DEF IInv

LEMMA InspectInv ==
    ASSUME IInv, NEW c \in Calls, Inspect(c)
    PROVE  IInv'
  <1> USE DEF Inspect, Answered, Goto, Answer, Target, engine, listing, history
  <1>a. acted' \subseteq Calls \X Ids /\ ActsOnWhatIsGranted' BY ActsOnTarget
  <1>1. TypeOK' BY <1>a, CallTypes DEF IInv, TypeOK, Pcs
  <1>2. Prepared' BY DEF IInv, TypeOK, Prepared, Granted
  <1>3. Authorized' BY DEF IInv, TypeOK, Authorized, Covers, Granted, Allowed
  <1>4. Settled' BY DEF IInv, TypeOK, Settled
  <1>5. Listed' BY DEF IInv, TypeOK, Listed
  <1>6. ActsOnWhatIsGranted' BY <1>a
  <1>7. DestroysOnlyWaste' BY DEF IInv, TypeOK, DestroysOnlyWaste
  <1>8. ExecEndIsReal' BY DEF IInv, TypeOK, ExecEndIsReal
  <1>9. ListingShowsUsers' BY DEF IInv, TypeOK, ListingShowsUsers
  <1> QED BY <1>1, <1>2, <1>3, <1>4, <1>5, <1>6, <1>7, <1>8, <1>9 DEF IInv

LEMMA ExecCreateInv ==
    ASSUME IInv, NEW c \in Calls, ExecCreate(c)
    PROVE  IInv'
  <1> USE DEF ExecCreate, Answered, Goto, Answer, Target, engine, listing, history
  <1>a. acted' \subseteq Calls \X Ids /\ ActsOnWhatIsGranted' BY ActsOnTarget
  <1>0. /\ out'[c].st # "exit" /\ UNCHANGED <<req, out>>
        /\ \A d \in Calls \ {c} : est[d] = "ended" => est'[d] = "ended"
    BY CallTypes DEF IInv, Settled
  <1>1. TypeOK' BY <1>a, CallTypes DEF IInv, TypeOK, Pcs
  <1>2. Prepared' BY DEF IInv, TypeOK, Prepared, Granted
  <1>3. Authorized' BY DEF IInv, TypeOK, Authorized, Covers, Granted, Allowed
  <1>4. Settled' BY DEF IInv, TypeOK, Settled
  <1>5. Listed' BY DEF IInv, TypeOK, Listed
  <1>6. ActsOnWhatIsGranted' BY <1>a
  <1>7. DestroysOnlyWaste' BY DEF IInv, TypeOK, DestroysOnlyWaste
  <1>8. ExecEndIsReal' BY <1>0, ExecsKeep
  <1>9. ListingShowsUsers' BY DEF IInv, TypeOK, ListingShowsUsers
  <1> QED BY <1>1, <1>2, <1>3, <1>4, <1>5, <1>6, <1>7, <1>8, <1>9 DEF IInv

LEMMA ExecStartInv ==
    ASSUME IInv, NEW c \in Calls, ExecStart(c)
    PROVE  IInv'
  <1> USE DEF ExecStart, Answered, Goto, Answer, Target, engine, listing, history
  <1>1. TypeOK' BY DEF IInv, TypeOK, Pcs, States
  <1>2. Prepared' BY DEF IInv, TypeOK, Prepared, Granted
  <1>3. Authorized' BY DEF IInv, TypeOK, Authorized, Covers, Granted, Allowed
  <1>4. Settled' BY DEF IInv, TypeOK, Settled
  <1>5. Listed' BY DEF IInv, TypeOK, Listed
  <1>6. ActsOnWhatIsGranted' BY DEF IInv, TypeOK, ActsOnWhatIsGranted, Covers, Granted, Allowed
  <1>7. DestroysOnlyWaste' BY DEF IInv, TypeOK, DestroysOnlyWaste
  <1>8. ExecEndIsReal' BY DEF IInv, TypeOK, ExecEndIsReal
  <1>9. ListingShowsUsers' BY DEF IInv, TypeOK, ListingShowsUsers
  <1> QED BY <1>1, <1>2, <1>3, <1>4, <1>5, <1>6, <1>7, <1>8, <1>9 DEF IInv

LEMMA ExecEndInv ==
    ASSUME IInv, NEW c \in Calls, ExecEnd(c)
    PROVE  IInv'
  <1> USE DEF ExecEnd, Answered, Goto, Answer, Target, engine, listing, history
  <1>1. TypeOK' BY DEF IInv, TypeOK, Pcs, States
  <1>2. Prepared' BY DEF IInv, TypeOK, Prepared, Granted
  <1>3. Authorized' BY DEF IInv, TypeOK, Authorized, Covers, Granted, Allowed
  <1>4. Settled' BY DEF IInv, TypeOK, Settled
  <1>5. Listed' BY DEF IInv, TypeOK, Listed
  <1>6. ActsOnWhatIsGranted' BY DEF IInv, TypeOK, ActsOnWhatIsGranted, Covers, Granted, Allowed
  <1>7. DestroysOnlyWaste' BY DEF IInv, TypeOK, DestroysOnlyWaste
  <1>8. ExecEndIsReal' BY DEF IInv, TypeOK, ExecEndIsReal
  <1>9. ListingShowsUsers' BY DEF IInv, TypeOK, ListingShowsUsers
  <1> QED BY <1>1, <1>2, <1>3, <1>4, <1>5, <1>6, <1>7, <1>8, <1>9 DEF IInv

LEMMA ExecStreamInv ==
    ASSUME IInv, NEW c \in Calls, ExecStream(c)
    PROVE  IInv'
  <1> USE DEF ExecStream, Answered, Goto, Answer, Target, engine, listing, history
  <1>1. TypeOK' BY DEF IInv, TypeOK, Pcs, States
  <1>2. Prepared' BY DEF IInv, TypeOK, Prepared, Granted
  <1>3. Authorized' BY DEF IInv, TypeOK, Authorized, Covers, Granted, Allowed
  <1>4. Settled' BY DEF IInv, TypeOK, Settled
  <1>5. Listed' BY DEF IInv, TypeOK, Listed
  <1>6. ActsOnWhatIsGranted' BY DEF IInv, TypeOK, ActsOnWhatIsGranted, Covers, Granted, Allowed
  <1>7. DestroysOnlyWaste' BY DEF IInv, TypeOK, DestroysOnlyWaste
  <1>8. ExecEndIsReal' BY DEF IInv, TypeOK, ExecEndIsReal
  <1>9. ListingShowsUsers' BY DEF IInv, TypeOK, ListingShowsUsers
  <1> QED BY <1>1, <1>2, <1>3, <1>4, <1>5, <1>6, <1>7, <1>8, <1>9 DEF IInv

LEMMA ExecAnswerInv ==
    ASSUME IInv, NEW c \in Calls, ExecAnswer(c)
    PROVE  IInv'
  <1> USE DEF ExecAnswer, Answered, Goto, Answer, Target, engine, listing, history
  <1>1. TypeOK' BY DEF IInv, TypeOK, Pcs, States
  <1>2. Prepared' BY DEF IInv, TypeOK, Prepared, Granted
  <1>3. Authorized' BY DEF IInv, TypeOK, Authorized, Covers, Granted, Allowed
  <1>4. Settled' BY DEF IInv, TypeOK, Settled
  <1>5. Listed' BY DEF IInv, TypeOK, Listed
  <1>6. ActsOnWhatIsGranted' BY DEF IInv, TypeOK, ActsOnWhatIsGranted, Covers, Granted, Allowed
  <1>7. DestroysOnlyWaste' BY DEF IInv, TypeOK, DestroysOnlyWaste
  <1>8. ExecEndIsReal' BY DEF IInv, TypeOK, ExecEndIsReal
  <1>9. ListingShowsUsers' BY DEF IInv, TypeOK, ListingShowsUsers
  <1> QED BY <1>1, <1>2, <1>3, <1>4, <1>5, <1>6, <1>7, <1>8, <1>9 DEF IInv

LEMMA ListMembersInv ==
    ASSUME IInv, NEW c \in Calls, ListMembers(c)
    PROVE  IInv'
  <1> USE DEF ListMembers, Answered, Goto, Answer, Target, engine, listing, history
  <1>1. TypeOK'
    <2>1. VolumeUsers \subseteq Objs \X Ids /\ NetworkMembers \subseteq Objs \X Ids
      BY CallTypes DEF VolumeUsers, NetworkMembers
    <2>2. rows' \in [Calls -> SUBSET (Objs \X Ids)] BY <2>1 DEF IInv, TypeOK
    <2>3. /\ pc' \in [Calls -> Pcs]
          /\ out' \in [Calls -> [st : {"none", "ok", "unchanged", "error", "exit", "rows", "partial"},
                                run : BOOLEAN]]
      <3>1. pc' \in [Calls -> Pcs] BY CallTypes DEF Pcs
      <3> QED BY <3>1, CallTypes, AnswerTypes DEF IInv
    <2> QED BY <2>2, <2>3 DEF IInv, TypeOK
  <1>2. Prepared' BY DEF IInv, TypeOK, Prepared, Granted
  <1>3. Authorized' BY DEF IInv, TypeOK, Authorized, Covers, Granted, Allowed
  <1>4. Settled' BY DEF IInv, TypeOK, Settled
  <1>5. Listed' BY DEF IInv, TypeOK, Listed
  <1>6. ActsOnWhatIsGranted' BY DEF IInv, TypeOK, ActsOnWhatIsGranted, Covers, Granted, Allowed
  <1>7. DestroysOnlyWaste' BY DEF IInv, TypeOK, DestroysOnlyWaste
  <1>8. ExecEndIsReal' BY ExecsKeep, CallTypes
  <1>9. ListingShowsUsers'
    <2>1. CASE out' = [out EXCEPT ![c] = [st |-> "partial", run |-> FALSE]] /\ UNCHANGED rows
      BY <2>1, UsersKeep, CallTypes
    <2>2. CASE rows' = [rows EXCEPT ![c] = IF req[c].target = "volumes" THEN VolumeUsers
                                                                   ELSE NetworkMembers]
      <3> SUFFICES ASSUME NEW d \in Calls, out'[d].st = "rows",
                          NEW i \in had[d] \cap conts, NEW o \in seen[d], o \in Uses[i]
                   PROVE  <<o, i>> \in rows'[d]
        BY DEF ListingShowsUsers
      <3>1. CASE d # c BY <3>1, <2>2, CallTypes DEF IInv, TypeOK, ListingShowsUsers
      <3>2. CASE d = c
        <4>1. o \in Objs /\ KindOf[o] = req[c].target /\ req[c].target \in {"volumes", "networks"}
          BY <3>2 DEF IInv, Listed
        <4>2. <<o, i>> \in IF req[c].target = "volumes" THEN VolumeUsers ELSE NetworkMembers
          BY <4>1 DEF VolumeUsers, NetworkMembers
        <4> QED BY <3>2, <2>2, <4>2 DEF IInv, TypeOK
      <3> QED BY <3>1, <3>2
    <2> QED BY <2>1, <2>2
  <1> QED BY <1>1, <1>2, <1>3, <1>4, <1>5, <1>6, <1>7, <1>8, <1>9 DEF IInv

LEMMA ListInv ==
    ASSUME IInv, NEW c \in Calls, List(c)
    PROVE  IInv'
  <1> USE DEF List, Answered, Goto, Answer, Target, engine, listing, history
  <1> DEFINE k == req[c].target
             found == IF k = "containers" THEN ContainersList(FALSE, None, 0)
                      ELSE IF k = "images" THEN ImagesList
                      ELSE IF k = "volumes" THEN VolumesList
                      ELSE NetworksList
  <1>d. found \in SUBSET (Objs \cup Ids) /\ (k \in {"volumes", "networks"} =>
                                               found \subseteq {o \in Objs : KindOf[o] = k})
    <2>1. ContainersList(FALSE, None, 0) \subseteq Ids BY CallTypes DEF ContainersList
    <2>2. objs \subseteq Objs BY DEF IInv, TypeOK
    <2>3. ImagesList \subseteq Objs /\ VolumesList \subseteq {o \in Objs : KindOf[o] = "volumes"}
      BY <2>2 DEF ImagesList, VolumesList
    <2>4. NetworksList \subseteq {o \in Objs : KindOf[o] = "networks"} BY <2>2 DEF NetworksList
    <2> QED BY <2>1, <2>3, <2>4
  <1>c. seen' = [seen EXCEPT ![c] = found] OBVIOUS
  <1>a. /\ pc[c] = "spawned"
        /\ \/ /\ pc' = [pc EXCEPT ![c] = "done"]
              /\ out' = [out EXCEPT ![c] = [st |-> "ok", run |-> FALSE]]
           \/ /\ pc' = [pc EXCEPT ![c] = "members"] /\ UNCHANGED out
              /\ k \in {"volumes", "networks"}
        /\ had' = [had EXCEPT ![c] = conts]
        /\ UNCHANGED <<grant, engine, req, args, target, est, rows, outside, history>>
    OBVIOUS
  <1> HIDE DEF List, found
  <1>1. TypeOK'
    <2>1. seen' \in [Calls -> SUBSET (Objs \cup Ids)] BY <1>c, <1>d DEF IInv, TypeOK
    <2>2. had' \in [Calls -> SUBSET Ids] BY <1>a, CallTypes DEF IInv, TypeOK
    <2>3. /\ pc' \in [Calls -> Pcs]
          /\ out' \in [Calls -> [st : {"none", "ok", "unchanged", "error", "exit", "rows", "partial"},
                                run : BOOLEAN]]
      <3>1. pc' \in [Calls -> Pcs] BY <1>a, CallTypes DEF Pcs
      <3> QED BY <3>1, <1>a, CallTypes, AnswerTypes DEF IInv
    <2> QED BY <1>a, <2>1, <2>2, <2>3 DEF IInv, TypeOK
  <1>2. Prepared' BY <1>a DEF IInv, TypeOK, Prepared, PrepareDockerCall, Granted
  <1>3. Authorized' BY <1>a DEF IInv, TypeOK, Authorized, Covers, Granted, Allowed
  <1>4. Settled' BY <1>a DEF IInv, TypeOK, Settled
  <1>5. Listed'
    <2> SUFFICES ASSUME NEW d \in Calls
                 PROVE  /\ had'[d] \subseteq born
                        /\ pc'[d] = "members" =>
                              /\ req[d].target \in {"volumes", "networks"}
                              /\ seen'[d] \subseteq {o \in Objs : KindOf[o] = req[d].target}
      BY <1>a DEF Listed
    <2>1. CASE d = c BY <2>1, <1>a, <1>c, <1>d DEF IInv, TypeOK
    <2>2. CASE d # c BY <2>2, <1>a, <1>c DEF IInv, TypeOK, Listed
    <2> QED BY <2>1, <2>2
  <1>6. ActsOnWhatIsGranted' BY <1>a, ActsKeep
  <1>7. DestroysOnlyWaste' BY <1>a DEF IInv, DestroysOnlyWaste
  <1>8. ExecEndIsReal' BY <1>a, ExecsKeep, CallTypes DEF IInv, Settled
  <1>9. ListingShowsUsers'
    <2>1. out'[c].st # "rows" BY <1>a, CallTypes DEF IInv, Settled
    <2> QED BY <2>1, <1>a, <1>c, UsersKeep, CallTypes DEF IInv, TypeOK
  <1> QED BY <1>1, <1>2, <1>3, <1>4, <1>5, <1>6, <1>7, <1>8, <1>9 DEF IInv

LEMMA PruneInv ==
    ASSUME IInv, NEW c \in Calls, Prune(c)
    PROVE  IInv'
  <1> USE DEF Prune, Replied, Answered, Goto, Answer, Target, engine, listing, history
  <1> DEFINE t == req[c].target
             stopped == IF t = "containers" THEN {i \in conts : cstate[i] = "exited"} ELSE {}
             gone == Prunable(t, FALSE)
             objects == {[kind |-> KindOf[o], live |-> FALSE, precious |-> o \in Precious,
                          by |-> "prune"] : o \in gone}
             containers == {[kind |-> "containers", live |-> cstate[i] # "exited",
                             precious |-> FALSE, by |-> "prune"] : i \in stopped}
  <1>a. /\ pc[c] = "spawned" /\ req[c].tool = "prune"
        /\ pc' = [pc EXCEPT ![c] = "done"]
        /\ \E st \in {"ok", "error"} : out' = [out EXCEPT ![c] = [st |-> st, run |-> FALSE]]
        /\ conts' \subseteq conts /\ objs' \subseteq objs
        /\ \/ /\ t \in args[c].prune
              /\ destroyed' = destroyed \cup objects \cup containers
           \/ UNCHANGED destroyed
        /\ UNCHANGED <<grant, listing, born, cname, cstate, req, args, target, est, outside, view, acted>>
    BY DEF PruneAllowed
  <1> HIDE DEF Prune
  <1>1. TypeOK'
    <2>1. /\ pc' \in [Calls -> Pcs]
          /\ out' \in [Calls -> [st : {"none", "ok", "unchanged", "error", "exit", "rows", "partial"},
                                run : BOOLEAN]]
      <3>1. pc' \in [Calls -> Pcs] BY <1>a, CallTypes DEF Pcs
      <3> QED BY <3>1, <1>a, CallTypes, AnswerTypes DEF IInv
    <2>2. \A o \in gone : KindOf[o] \in Kinds
      BY DockerAssumption DEF IInv, TypeOK, Prunable
    <2>3. destroyed' \subseteq [kind : Kinds \cup {"containers"}, live : BOOLEAN,
                               precious : BOOLEAN, by : {"prune", "manage"}]
      <3> DEFINE T == [kind : Kinds \cup {"containers"}, live : BOOLEAN,
                       precious : BOOLEAN, by : {"prune", "manage"}]
      <3>1. ASSUME NEW o \in gone
            PROVE  [kind |-> KindOf[o], live |-> FALSE, precious |-> o \in Precious, by |-> "prune"] \in T
        <4>1. (o \in Precious) = FALSE
          <5>1. o \notin Precious BY DEF Prunable
          <5> HIDE DEF gone
          <5> QED BY <5>1
        <4> HIDE DEF gone
        <4>2. KindOf[o] \in Kinds BY <2>2
        <4>3. [kind |-> KindOf[o], live |-> FALSE, precious |-> FALSE, by |-> "prune"] \in T
          BY <4>2
        <4> HIDE DEF T
        <4> QED BY <4>1, <4>3
      <3>2. ASSUME NEW i \in stopped
            PROVE  [kind |-> "containers", live |-> cstate[i] # "exited", precious |-> FALSE,
                    by |-> "prune"] \in T
        OBVIOUS
      <3>3. objects \subseteq T
        <4> HIDE DEF gone, T
        <4> QED BY <3>1
      <3>4. containers \subseteq T
        <4> HIDE DEF stopped, T
        <4> QED BY <3>2
      <3> HIDE DEF objects, containers
      <3> QED BY <3>3, <3>4, <1>a DEF IInv, TypeOK
    <2> QED BY <1>a, <2>1, <2>3 DEF IInv, TypeOK
  <1>2. Prepared' BY <1>a DEF IInv, TypeOK, Prepared, PrepareDockerCall, Granted
  <1>3. Authorized' BY <1>a DEF IInv, TypeOK, Authorized, Covers, Granted, Allowed
  <1>4. Settled' BY <1>a DEF IInv, TypeOK, Settled
  <1>5. Listed' BY <1>a DEF IInv, TypeOK, Listed
  <1>6. ActsOnWhatIsGranted' BY <1>a, ActsKeep
  <1>7. DestroysOnlyWaste'
    <2>1. ASSUME t \in args[c].prune, NEW x \in objects \cup containers
          PROVE  ~x.live /\ ~x.precious /\ x.by = "prune" /\ x.kind \in grant.prune
      <3>0. args[c] = PrepareDockerCall(grant, req[c]) BY <1>a DEF IInv, Prepared
      <3>1. args[c].prune = grant.prune BY <1>a, <3>0 DEF PrepareDockerCall
      <3>2. CASE x \in objects
        <4>1. PICK o \in gone : x = [kind |-> KindOf[o], live |-> FALSE, precious |-> o \in Precious,
                                     by |-> "prune"]
          BY <3>2
        <4>2. KindOf[o] = t /\ o \notin Precious BY DEF Prunable
        <4> HIDE DEF gone
        <4> QED BY <2>1, <3>1, <4>1, <4>2
      <3>3. CASE x \in containers
        <4>1. PICK i \in stopped : x = [kind |-> "containers", live |-> cstate[i] # "exited",
                                        precious |-> FALSE, by |-> "prune"]
          BY <3>3
        <4>2. cstate[i] = "exited" /\ t = "containers" OBVIOUS
        <4> HIDE DEF stopped
        <4> QED BY <2>1, <3>1, <4>1, <4>2
      <3> QED BY <3>2, <3>3
    <2> HIDE DEF objects, containers
    <2> QED BY <1>a, <2>1 DEF IInv, DestroysOnlyWaste
  <1>8. ExecEndIsReal' BY <1>a, ExecsKeep, CallTypes DEF IInv, Settled
  <1>9. ListingShowsUsers'
    <2>1. out'[c].st # "rows" BY <1>a, CallTypes DEF IInv, Settled
    <2> QED BY <2>1, <1>a, UsersKeep, CallTypes DEF IInv, TypeOK
  <1> QED BY <1>1, <1>2, <1>3, <1>4, <1>5, <1>6, <1>7, <1>8, <1>9 DEF IInv

LEMMA ManageInv ==
    ASSUME IInv, NEW c \in Calls, Manage(c)
    PROVE  IInv'
  <1> USE DEF Manage, Replied, Answered, Goto, Answer, Target, engine, listing, history
  <1> DEFINE i == target[c]
             st == Lifecycle(req[c].act, cstate[i])
  <1>a. /\ pc[c] = "act" /\ pc' = [pc EXCEPT ![c] = "done"]
        /\ \E a \in {"ok", "unchanged", "error"} : out' = [out EXCEPT ![c] = [st |-> a, run |-> FALSE]]
        /\ \/ /\ \E x \in States : cstate' = [cstate EXCEPT ![i] = x]
              /\ acted' = acted \cup {<<c, i>>}
              /\ est' \in [Calls -> {"none", "created", "running", "ended"}]
              /\ \A d \in Calls : est[d] = "ended" => est'[d] = "ended"
           \/ UNCHANGED <<cstate, est, acted>>
        /\ UNCHANGED <<grant, listing, born, conts, cname, objs, req, args, target, outside, view,
                        destroyed>>
    <2> HIDE DEF st
    <2>1. CASE st \in States
      <3>1. est' = [d \in Calls |-> IF st = "exited" /\ target[d] = i /\ Running(d)
                                     THEN "ended" ELSE est[d]]
        BY <2>1 DEF st
      <3>2. /\ est' \in [Calls -> {"none", "created", "running", "ended"}]
            /\ \A d \in Calls : est[d] = "ended" => est'[d] = "ended"
        BY <3>1, CallTypes
      <3> QED BY <2>1, <3>2 DEF st
    <2>2. CASE st \notin States BY <2>2 DEF st
    <2> QED BY <2>1, <2>2
  <1>b. acted' \subseteq Calls \X Ids /\ ActsOnWhatIsGranted'
    BY <1>a, ActsOnTarget, ActsKeep DEF IInv, TypeOK
  <1> HIDE DEF Manage
  <1>1. TypeOK'
    <2>1. /\ pc' \in [Calls -> Pcs]
          /\ out' \in [Calls -> [st : {"none", "ok", "unchanged", "error", "exit", "rows", "partial"},
                                run : BOOLEAN]]
      <3>1. pc' \in [Calls -> Pcs] BY <1>a, CallTypes DEF Pcs
      <3> QED BY <3>1, <1>a, CallTypes, AnswerTypes DEF IInv
    <2>2. cstate' \in [Ids -> States] BY <1>a, CallTypes
    <2>3. est' \in [Calls -> {"none", "created", "running", "ended"}] BY <1>a, CallTypes
    <2> QED BY <1>a, <1>b, <2>1, <2>2, <2>3 DEF IInv, TypeOK
  <1>2. Prepared' BY <1>a DEF IInv, TypeOK, Prepared, PrepareDockerCall, Granted
  <1>3. Authorized' BY <1>a DEF IInv, TypeOK, Authorized, Covers, Granted, Allowed
  <1>4. Settled'
    <2>1. \A p \in acted' : p \in acted \/ p[1] = c BY <1>a
    <2>2. \A p \in acted' : p[1] \in Calls BY <1>b
    <2> QED BY <1>a, <2>1, <2>2, CallTypes DEF IInv, Settled
  <1>5. Listed' BY <1>a DEF IInv, TypeOK, Listed
  <1>6. ActsOnWhatIsGranted' BY <1>b
  <1>7. DestroysOnlyWaste' BY <1>a DEF IInv, DestroysOnlyWaste
  <1>8. ExecEndIsReal' BY <1>a, ExecsKeep, CallTypes
  <1>9. ListingShowsUsers' BY <1>a, UsersKeep, CallTypes
  <1> QED BY <1>1, <1>2, <1>3, <1>4, <1>5, <1>6, <1>7, <1>8, <1>9 DEF IInv

LEMMA ToggleInv ==
    ASSUME IInv, NEW i \in Ids, Toggle(i)
    PROVE  IInv'
  <1> USE DEF Toggle, Outside, engine, listing, history
  <1>1. TypeOK' BY DEF IInv, TypeOK, Pcs, States
  <1>2. Prepared' BY DEF IInv, TypeOK, Prepared, Granted
  <1>3. Authorized' BY DEF IInv, TypeOK, Authorized, Covers, Granted, Allowed
  <1>4. Settled' BY DEF IInv, TypeOK, Settled
  <1>5. Listed' BY DEF IInv, TypeOK, Listed
  <1>6. ActsOnWhatIsGranted' BY DEF IInv, TypeOK, ActsOnWhatIsGranted, Covers, Granted, Allowed
  <1>7. DestroysOnlyWaste' BY DEF IInv, TypeOK, DestroysOnlyWaste
  <1>8. ExecEndIsReal' BY DEF IInv, TypeOK, ExecEndIsReal
  <1>9. ListingShowsUsers' BY DEF IInv, TypeOK, ListingShowsUsers
  <1> QED BY <1>1, <1>2, <1>3, <1>4, <1>5, <1>6, <1>7, <1>8, <1>9 DEF IInv

LEMMA DeleteInv ==
    ASSUME IInv, NEW i \in Ids, Delete(i)
    PROVE  IInv'
  <1> USE DEF Delete, Outside, engine, listing, history
  <1>1. TypeOK' BY DEF IInv, TypeOK, Pcs, States
  <1>2. Prepared' BY DEF IInv, TypeOK, Prepared, Granted
  <1>3. Authorized' BY DEF IInv, TypeOK, Authorized, Covers, Granted, Allowed
  <1>4. Settled' BY DEF IInv, TypeOK, Settled
  <1>5. Listed' BY DEF IInv, TypeOK, Listed
  <1>6. ActsOnWhatIsGranted' BY DEF IInv, TypeOK, ActsOnWhatIsGranted, Covers, Granted, Allowed
  <1>7. DestroysOnlyWaste' BY DEF IInv, TypeOK, DestroysOnlyWaste
  <1>8. ExecEndIsReal' BY DEF IInv, TypeOK, ExecEndIsReal
  <1>9. ListingShowsUsers' BY DEF IInv, TypeOK, ListingShowsUsers
  <1> QED BY <1>1, <1>2, <1>3, <1>4, <1>5, <1>6, <1>7, <1>8, <1>9 DEF IInv

LEMMA RenameInv ==
    ASSUME IInv, NEW i \in Ids, NEW n \in Names, Rename(i, n)
    PROVE  IInv'
  <1> USE DEF Rename, Outside, engine, listing, history
  <1>1. TypeOK' BY DEF IInv, TypeOK, Pcs, States
  <1>2. Prepared' BY DEF IInv, TypeOK, Prepared, Granted
  <1>3. Authorized' BY DEF IInv, TypeOK, Authorized, Covers, Granted, Allowed
  <1>4. Settled' BY DEF IInv, TypeOK, Settled
  <1>5. Listed' BY DEF IInv, TypeOK, Listed
  <1>6. ActsOnWhatIsGranted' BY DEF IInv, TypeOK, ActsOnWhatIsGranted, Covers, Granted, Allowed
  <1>7. DestroysOnlyWaste' BY DEF IInv, TypeOK, DestroysOnlyWaste
  <1>8. ExecEndIsReal' BY DEF IInv, TypeOK, ExecEndIsReal
  <1>9. ListingShowsUsers' BY DEF IInv, TypeOK, ListingShowsUsers
  <1> QED BY <1>1, <1>2, <1>3, <1>4, <1>5, <1>6, <1>7, <1>8, <1>9 DEF IInv

LEMMA CreateInv ==
    ASSUME IInv, NEW i \in Ids, NEW n \in Names, Create(i, n)
    PROVE  IInv'
  <1> USE DEF Create, Outside, engine, listing, history
  <1>1. TypeOK'
    <2>1. Uses[i] \subseteq Objs BY DockerAssumption
    <2> QED BY <2>1 DEF IInv, TypeOK, States
  <1>2. Prepared' BY DEF IInv, TypeOK, Prepared, Granted
  <1>3. Authorized' BY DEF IInv, TypeOK, Authorized, Covers, Granted, Allowed
  <1>4. Settled' BY DEF IInv, TypeOK, Settled
  <1>5. Listed' BY DEF IInv, TypeOK, Listed
  <1>6. ActsOnWhatIsGranted' BY DEF IInv, TypeOK, ActsOnWhatIsGranted, Covers, Granted, Allowed
  <1>7. DestroysOnlyWaste' BY DEF IInv, TypeOK, DestroysOnlyWaste
  <1>8. ExecEndIsReal' BY DEF IInv, TypeOK, ExecEndIsReal
  <1>9. ListingShowsUsers' BY DEF IInv, TypeOK, Listed, ListingShowsUsers
  <1> QED BY <1>1, <1>2, <1>3, <1>4, <1>5, <1>6, <1>7, <1>8, <1>9 DEF IInv

LEMMA NextInv == IInv /\ [Next]_vars => IInv'
  <1> SUFFICES ASSUME IInv, [Next]_vars PROVE IInv' OBVIOUS
  <1>1. ASSUME NEW c \in Calls, Call(c) PROVE IInv'
    BY <1>1, AskInv, MasterInv, AuthorizeStepInv, FailInv, RemoveInv, ManageInv, LogsInv,
       InspectInv, ExecCreateInv, ExecStartInv, ExecEndInv, ExecStreamInv, ExecAnswerInv,
       PruneInv, ListInv, ListMembersInv
    DEF Call
  <1>2. ASSUME NEW i \in Ids, Toggle(i) \/ Delete(i) \/ \E n \in Names : Rename(i, n) \/ Create(i, n)
        PROVE  IInv'
    BY <1>2, ToggleInv, DeleteInv, RenameInv, CreateInv
  <1>3. CASE UNCHANGED vars
    <2> USE <1>3 DEF vars
    <2>1. TypeOK' /\ Prepared' /\ Authorized' /\ Settled' /\ Listed'
      BY DEF IInv, TypeOK, Prepared, Authorized, Settled, Listed, PrepareDockerCall, Covers, Granted, Allowed
    <2>2. ActsOnWhatIsGranted' /\ DestroysOnlyWaste' /\ ExecEndIsReal' /\ ListingShowsUsers'
      BY DEF IInv, ActsOnWhatIsGranted, DestroysOnlyWaste, ExecEndIsReal, ListingShowsUsers, Covers, Granted, Allowed
    <2> QED BY <2>1, <2>2 DEF IInv
  <1> QED BY <1>1, <1>2, <1>3 DEF Next

LEMMA Invariance == Spec => []IInv
  <1> QED BY InitInv, NextInv, PTL DEF Spec

-----------------------------------------------------------------------------
\* The state of calls and Engine keeps its types; the Engine's containers are
\* always among those it created.
THEOREM DockerTypeCorrect == Spec => []TypeOK
  <1>1. IInv => TypeOK BY DEF IInv
  <1> QED BY <1>1, Invariance, PTL

\* Whatever the reference, and whoever renames or recreates containers, a call
\* whose keys are spelled exactly acts only on what its tool's list covers, and
\* any call only with its tool granted: Authorize returns an ID, and every later
\* request is for that ID.
THEOREM ActsAreGranted == Spec => []ActsOnWhatIsGranted
  <1>1. IInv => ActsOnWhatIsGranted BY DEF IInv
  <1> QED BY <1>1, Invariance, PTL

\* No sequence of manage and prune calls removes a container that runs, a
\* named volume, a tagged image, or a kind the prune: list does not name.
THEOREM OnlyWasteGoes == Spec => []DestroysOnlyWaste
  <1>1. IInv => DestroysOnlyWaste BY DEF IInv
  <1> QED BY <1>1, Invariance, PTL

\* An exec's JSON answer says "not running" only after its end, however its
\* output was cut and whoever stopped the container.
THEOREM EndsAreReal == Spec => []ExecEndIsReal
  <1>1. IInv => ExecEndIsReal BY DEF IInv
  <1> QED BY <1>1, Invariance, PTL

\* A complete listing of volumes or networks names every user that was there
\* throughout, although it takes two requests.
THEOREM UsersAreShown == Spec => []ListingShowsUsers
  <1>1. IInv => ListingShowsUsers BY DEF IInv
  <1> QED BY <1>1, Invariance, PTL
=============================================================================
