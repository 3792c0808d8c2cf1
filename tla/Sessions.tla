------------------------------ MODULE Sessions ------------------------------
(***************************************************************************)
(* The network daemon's SSE sessions: GET /sse streams, POST /message      *)
(* requests, the goroutine each accepted request runs in, and the config   *)
(* reload that closes the streams of removed or re-keyed users.            *)
(*                                                                         *)
(* Sources: cmd/mcpd/http.go (authenticateRequest, handleSSE,              *)
(* handleMessage), cmd/mcpd/reload.go (reloadConfig, configChanges,        *)
(* closeSessions), internal/rpc/rpc.go (ProcessJSONRPC),                   *)
(* internal/rpc/types.go (Session.Close), internal/rpc/resources.go (the   *)
(* two answers a read sends by itself).                                    *)
(*                                                                         *)
(* Every lock-protected block of the code is one step; between two such    *)
(* blocks any other goroutine may run.  A token is abstracted to its       *)
(* generation: 0 means "no such user", two different non-zero numbers are  *)
(* two different tokens.  UID pinning is module UidPin.                    *)
(***************************************************************************)
EXTENDS Naturals, Sequences, FiniteSets

CONSTANTS Users,     \* MCP users that may appear in users.yaml
          Sids,      \* session identifiers, each handed out at most once
          Reqs,      \* POST /message requests, each sent at most once
          None,      \* "no value yet"
          EventCap,  \* capacity of Session.Event (10 in handleSSE)
          MaxGen     \* bound on token generations

ASSUME SessionsAssumption ==
    /\ None \notin Users \cup Sids \cup Reqs
    /\ EventCap \in Nat \ {0}
    /\ MaxGen \in Nat \ {0}

VARIABLES
    up,          \* is the mcpd process running?
    epoch,       \* how often a config took effect (reload or restart)
    token,       \* daemonConfig.Users: each user's token generation
    lastChange,  \* history: the epoch at which a user's token last changed
    (* the GET /sse handlers *)
    st,          \* "free" -> "authed" -> "open" (in the sessions map) -> "ending" -> "closed"
    owner,       \* Session.User
    gen,         \* the token generation the handler authenticated with
    born,        \* the epoch it authenticated in
    late,        \* history: sessions registered in a later epoch than born
    done,        \* sessions whose Done channel is closed
    gone,        \* sessions whose client hung up (r.Context() is done)
    stuck,       \* sessions whose handler is blocked writing to a client that stopped reading
    chan,        \* Session.Event
    wire,        \* history: the answers written to the client
    (* the POST /message requests and their goroutines *)
    phase,       \* "idle" -> "authed" -> "running" -> "answering" -> "finished"
    poster,      \* the authenticated user
    target,      \* the session the goroutine answers on
    kind,        \* what the request turns out to be
    left,        \* sends on Session.Event still to do
    (* reloadConfig *)
    reloader,    \* the request holding reloadMu
    stage,       \* "idle" -> "read" -> "swapped"
    next,        \* the users read from users.yaml
    closing      \* closeUsers

configVars  == <<up, epoch, token, lastChange>>
streamVars  == <<st, owner, gen, born, late, done, gone, stuck>>
requestVars == <<phase, poster, target, kind, left>>
reloadVars  == <<reloader, stage, next, closing>>
vars == <<configVars, streamVars, chan, wire, requestVars, reloadVars>>

Gens == 0..MaxGen

\* "direct" is a resources/read answered from the cache or refused up front:
\* HandleResourcesRead sends the answer and ProcessJSONRPC sends it again.
Kinds == {"notification", "call", "direct", "reload"}

\* How often ProcessJSONRPC and the handler it calls send on Session.Event.
Answers(k) ==
    CASE k = "notification" -> 0
      [] k = "direct"       -> 2
      [] OTHER              -> 1

NoUsers == [u \in Users |-> 0]

\* main loads the files and serves with an empty session map.  The tokens
\* found then are generation 1.
Init ==
    /\ up = TRUE
    /\ epoch = 0
    /\ token \in [Users -> {0, 1}]
    /\ lastChange = [u \in Users |-> 0]
    /\ st = [s \in Sids |-> "free"]
    /\ owner = [s \in Sids |-> None]
    /\ gen = [s \in Sids |-> 0]
    /\ born = [s \in Sids |-> 0]
    /\ late = {} /\ done = {} /\ gone = {} /\ stuck = {}
    /\ chan = [s \in Sids |-> <<>>]
    /\ wire = [s \in Sids |-> <<>>]
    /\ phase = [r \in Reqs |-> "idle"]
    /\ poster = [r \in Reqs |-> None]
    /\ target = [r \in Reqs |-> None]
    /\ kind = [r \in Reqs |-> None]
    /\ left = [r \in Reqs |-> 0]
    /\ reloader = None /\ stage = "idle" /\ next = NoUsers /\ closing = {}

-----------------------------------------------------------------------------
(* GET /sse                                                                *)

\* loggingMiddleware authenticates against a copy of the users taken under
\* cfgMu.RLock.  A wrong token is answered 401 and changes nothing.
AuthenticateStream(s, u) ==
    /\ up
    /\ st[s] = "free"
    /\ token[u] # 0
    /\ st' = [st EXCEPT ![s] = "authed"]
    /\ owner' = [owner EXCEPT ![s] = u]
    /\ gen' = [gen EXCEPT ![s] = token[u]]
    /\ born' = [born EXCEPT ![s] = epoch]
    /\ UNCHANGED <<configVars, late, done, gone, stuck, chan, wire, requestVars, reloadVars>>

\* handleSSE puts the session in the map under sessionsMu.  Nothing is
\* authenticated again.
RegisterStream(s) ==
    /\ up
    /\ st[s] = "authed"
    /\ st' = [st EXCEPT ![s] = "open"]
    /\ late' = IF epoch # born[s] THEN late \cup {s} ELSE late
    /\ UNCHANGED <<configVars, owner, gen, born, done, gone, stuck, chan, wire, requestVars, reloadVars>>

\* The stream's select takes an event and writes it to a client that reads.
\* Writing to a client that hung up loses it: the error of Fprintf is ignored.
DeliverEvent(s) ==
    /\ up
    /\ st[s] = "open"
    /\ s \notin stuck
    /\ chan[s] # <<>>
    /\ chan' = [chan EXCEPT ![s] = Tail(@)]
    /\ wire' = IF s \in gone THEN wire
               ELSE [wire EXCEPT ![s] = Append(@, Head(chan[s]))]
    /\ UNCHANGED <<configVars, streamVars, requestVars, reloadVars>>

\* The select takes an event for a client that is connected and no longer
\* reads: Fprintf or Flush blocks, and no deadline ends it (http.Server has no
\* WriteTimeout).
EventBlocks(s) ==
    /\ up
    /\ st[s] = "open"
    /\ s \notin gone \cup stuck
    /\ chan[s] # <<>>
    /\ chan' = [chan EXCEPT ![s] = Tail(@)]
    /\ stuck' = stuck \cup {s}
    /\ UNCHANGED <<configVars, st, owner, gen, born, late, done, gone, wire, requestVars, reloadVars>>

\* The same for the endpoint event that opens the stream and for a keepalive.
KeepaliveBlocks(s) ==
    /\ up
    /\ st[s] = "open"
    /\ s \notin gone \cup stuck
    /\ stuck' = stuck \cup {s}
    /\ UNCHANGED <<configVars, st, owner, gen, born, late, done, gone, chan, wire, requestVars,
                   reloadVars>>

\* The connection is gone: the blocked write returns an error, which is
\* ignored, and the handler is back in its loop.
WriteFails(s) ==
    /\ up
    /\ s \in stuck \cap gone
    /\ stuck' = stuck \ {s}
    /\ UNCHANGED <<configVars, st, owner, gen, born, late, done, gone, chan, wire, requestVars,
                   reloadVars>>

\* The client hangs up.
Disconnect(s) ==
    /\ up
    /\ st[s] \in {"authed", "open"}
    /\ s \notin gone
    /\ gone' = gone \cup {s}
    /\ UNCHANGED <<configVars, st, owner, gen, born, late, done, stuck, chan, wire, requestVars, reloadVars>>

\* Mutant: the select has no case for Session.Done.
LeaveLoop_IgnoresDone(s) ==
    /\ up
    /\ st[s] = "open"
    /\ s \notin stuck
    /\ s \in gone
    /\ st' = [st EXCEPT ![s] = "ending"]
    /\ UNCHANGED <<configVars, owner, gen, born, late, done, gone, stuck, chan, wire, requestVars,
                   reloadVars>>

\* The loop returns on Done or on r.Context().Done(), and the deferred
\* function takes the session out of the map.
LeaveLoop(s) ==
    /\ up
    /\ st[s] = "open"
    /\ s \notin stuck
    /\ s \in done \cup gone
    /\ st' = [st EXCEPT ![s] = "ending"]
    /\ UNCHANGED <<configVars, owner, gen, born, late, done, gone, stuck, chan, wire, requestVars,
                   reloadVars>>

\* ... and then closes Event.  What is left in the buffer is never read.
CloseEvent(s) ==
    /\ up
    /\ st[s] = "ending"
    /\ st' = [st EXCEPT ![s] = "closed"]
    /\ chan' = [chan EXCEPT ![s] = <<>>]
    /\ UNCHANGED <<configVars, owner, gen, born, late, done, gone, stuck, wire, requestVars,
                   reloadVars>>

-----------------------------------------------------------------------------
(* POST /message                                                           *)

AuthenticateMessage(r, u, k) ==
    /\ up
    /\ phase[r] = "idle"
    /\ token[u] # 0
    /\ phase' = [phase EXCEPT ![r] = "authed"]
    /\ poster' = [poster EXCEPT ![r] = u]
    /\ kind' = [kind EXCEPT ![r] = k]
    /\ UNCHANGED <<configVars, streamVars, chan, wire, target, left, reloadVars>>

\* Mutant: handleMessage without the session.User check.
AcceptMessage_AnySession(r, s) ==
    /\ up
    /\ phase[r] = "authed"
    /\ st[s] = "open"
    /\ phase' = [phase EXCEPT ![r] = "running"]
    /\ target' = [target EXCEPT ![r] = s]
    /\ UNCHANGED <<configVars, streamVars, chan, wire, poster, kind, left, reloadVars>>

\* The client names session s; s is in the map and belongs to the
\* authenticated user; the limiter and the JSON parser let the request
\* pass, and a goroutine starts.
AcceptMessage(r, s) ==
    /\ up
    /\ phase[r] = "authed"
    /\ st[s] = "open"
    /\ owner[s] = poster[r]
    /\ phase' = [phase EXCEPT ![r] = "running"]
    /\ target' = [target EXCEPT ![r] = s]
    /\ UNCHANGED <<configVars, streamVars, chan, wire, poster, kind, left, reloadVars>>

\* Every other way out of handleMessage: no session_id, no such session,
\* another user's session, the rate limit, an unreadable or invalid body.
RejectMessage(r) ==
    /\ up
    /\ phase[r] = "authed"
    /\ phase' = [phase EXCEPT ![r] = "finished"]
    /\ UNCHANGED <<configVars, streamVars, chan, wire, poster, target, kind, left, reloadVars>>

-----------------------------------------------------------------------------
(* ProcessJSONRPC, in the goroutine of request r                           *)

\* Mutant: no early return for a message without an id.
Process_AnswersNotifications(r) ==
    /\ up
    /\ phase[r] = "running"
    /\ kind[r] # "reload"
    /\ phase' = [phase EXCEPT ![r] = "answering"]
    /\ left' = [left EXCEPT ![r] = IF kind[r] = "direct" THEN 2 ELSE 1]
    /\ UNCHANGED <<configVars, streamVars, chan, wire, poster, target, kind, reloadVars>>

\* The handler has run: a notification returns, anything else goes on to
\* send its answer.
Process(r) ==
    /\ up
    /\ phase[r] = "running"
    /\ kind[r] # "reload"
    /\ phase' = [phase EXCEPT ![r] = IF kind[r] = "notification" THEN "finished" ELSE "answering"]
    /\ left' = [left EXCEPT ![r] = Answers(kind[r])]
    /\ UNCHANGED <<configVars, streamVars, chan, wire, poster, target, kind, reloadVars>>

\* The goroutine of r is through with one send.
Sent(r) ==
    /\ left' = [left EXCEPT ![r] = @ - 1]
    /\ phase' = [phase EXCEPT ![r] = IF left[r] = 1 THEN "finished" ELSE "answering"]

\* Mutant: a non-blocking send that drops the answer when the buffer is full.
Send_DropsWhenFull(r) ==
    /\ up
    /\ phase[r] = "answering"
    /\ st[target[r]] # "closed"
    /\ chan' = [chan EXCEPT ![target[r]] = IF Len(@) < EventCap THEN Append(@, r) ELSE @]
    /\ Sent(r)
    /\ UNCHANGED <<configVars, streamVars, wire, poster, target, kind, reloadVars>>

\* session.Event <- answer: waits while the buffer is full.
Send(r) ==
    /\ up
    /\ phase[r] = "answering"
    /\ st[target[r]] # "closed"
    /\ Len(chan[target[r]]) < EventCap
    /\ chan' = [chan EXCEPT ![target[r]] = Append(@, r)]
    /\ Sent(r)
    /\ UNCHANGED <<configVars, streamVars, wire, poster, target, kind, reloadVars>>

\* Sending on a closed channel panics, a sender blocked when the channel is
\* closed included; nothing recovers in that goroutine, so the process ends
\* with everything it held in memory and connections drop.
SendOnClosed(r) ==
    /\ up
    /\ phase[r] = "answering"
    /\ st[target[r]] = "closed"
    /\ up' = FALSE
    /\ st' = [s \in Sids |-> IF st[s] = "free" THEN "free" ELSE "closed"]
    /\ chan' = [s \in Sids |-> <<>>]
    /\ phase' = [q \in Reqs |-> IF phase[q] = "idle" THEN "idle" ELSE "finished"]
    /\ stuck' = {}
    /\ reloader' = None /\ stage' = "idle" /\ next' = NoUsers /\ closing' = {}
    /\ UNCHANGED <<epoch, token, lastChange, owner, gen, born, late, done, gone, wire,
                   poster, target, kind, left>>

\* The epoch of the last change when the users in effect become n.
Changed(n) == [u \in Users |-> IF n[u] # token[u] THEN epoch + 1 ELSE lastChange[u]]

\* systemd restarts mcpd (Restart=on-failure), which loads the files.
Restart(n) ==
    /\ ~up
    /\ up' = TRUE
    /\ epoch' = epoch + 1
    /\ token' = n
    /\ lastChange' = Changed(n)
    /\ UNCHANGED <<streamVars, chan, wire, requestVars, reloadVars>>

-----------------------------------------------------------------------------
(* reloadConfig, in the goroutine of a daemon/reload-config call           *)

\* Takes reloadMu and reads users.yaml, which holds whatever linuxctl or an
\* editor wrote there since it was last read.
ReloadRead(r, n) ==
    /\ up
    /\ phase[r] = "running"
    /\ kind[r] = "reload"
    /\ reloader = None
    /\ reloader' = r
    /\ stage' = "read"
    /\ next' = n
    /\ UNCHANGED <<configVars, streamVars, chan, wire, requestVars, closing>>

\* The call is over: its goroutine goes on to answer.
ReloadReturns(r) ==
    /\ phase' = [phase EXCEPT ![r] = "answering"]
    /\ left' = [left EXCEPT ![r] = Answers("reload")]

\* reloadMu is released.
ReleaseReloadMu ==
    reloader' = None /\ stage' = "idle" /\ next' = NoUsers /\ closing' = {}

\* The caller lacks the grant: nothing is read.
ReloadDenied(r) ==
    /\ up
    /\ phase[r] = "running"
    /\ kind[r] = "reload"
    /\ reloader # r
    /\ ReloadReturns(r)
    /\ UNCHANGED <<configVars, streamVars, chan, wire, poster, target, kind, reloadVars>>

\* A file does not validate: the current config stays.
ReloadInvalid(r) ==
    /\ up
    /\ reloader = r
    /\ stage = "read"
    /\ ReleaseReloadMu
    /\ ReloadReturns(r)
    /\ UNCHANGED <<configVars, streamVars, chan, wire, poster, target, kind>>

\* Mutant: a changed token does not end the sessions opened with the old one.
CloseUsers_RemovedOnly(prev, n) == {u \in Users : prev[u] # 0 /\ n[u] = 0}

\* Mutant: a reload ends everyone's sessions.
CloseUsers_Everyone(prev, n) == {u \in Users : prev[u] # 0}

\* configChanges: the users whose sessions must end.
CloseUsers(prev, n) == {u \in Users : prev[u] # 0 /\ n[u] # prev[u]}

\* Under cfgMu the new users take effect.
ReloadSwap(r) ==
    /\ up
    /\ reloader = r
    /\ stage = "read"
    /\ token' = next
    /\ epoch' = epoch + 1
    /\ lastChange' = Changed(next)
    /\ stage' = "swapped"
    /\ closing' = CloseUsers(token, next)
    /\ UNCHANGED <<up, streamVars, chan, wire, requestVars, reloader, next>>

\* closeSessions, under sessionsMu.RLock, closes Done of every session of
\* those users that is in the map; then reloadMu is released.
ReloadClose(r) ==
    /\ up
    /\ reloader = r
    /\ stage = "swapped"
    /\ done' = done \cup {s \in Sids : st[s] = "open" /\ owner[s] \in closing}
    /\ ReleaseReloadMu
    /\ ReloadReturns(r)
    /\ UNCHANGED <<configVars, st, owner, gen, born, late, gone, stuck, chan, wire, poster, target,
                   kind>>

-----------------------------------------------------------------------------

StreamStep(s) ==
    \/ \E u \in Users : AuthenticateStream(s, u)
    \/ RegisterStream(s)
    \/ DeliverEvent(s)
    \/ EventBlocks(s)
    \/ KeepaliveBlocks(s)
    \/ WriteFails(s)
    \/ Disconnect(s)
    \/ LeaveLoop(s)
    \/ CloseEvent(s)

RequestStep(r) ==
    \/ \E u \in Users, k \in Kinds : AuthenticateMessage(r, u, k)
    \/ \E s \in Sids : AcceptMessage(r, s)
    \/ RejectMessage(r)
    \/ Process(r)
    \/ Send(r)
    \/ SendOnClosed(r)

ReloadStep(r) ==
    \/ \E n \in [Users -> Gens] : ReloadRead(r, n)
    \/ ReloadDenied(r)
    \/ ReloadInvalid(r)
    \/ ReloadSwap(r)
    \/ ReloadClose(r)

Next ==
    \/ \E s \in Sids : StreamStep(s)
    \/ \E r \in Reqs : RequestStep(r) \/ ReloadStep(r)
    \/ \E n \in [Users -> Gens] : Restart(n)

Spec == Init /\ [][Next]_vars

\* What the Go scheduler, the worker timeouts and systemd guarantee: a
\* goroutine that can run does run.  Clients and administrators owe nothing:
\* a stream handler takes the next event, and whether the write of it ends is
\* up to the client.
Fairness ==
    /\ \A s \in Sids : /\ WF_vars(RegisterStream(s))
                       /\ WF_vars(DeliverEvent(s) \/ EventBlocks(s))
                       /\ WF_vars(WriteFails(s))
                       /\ WF_vars(LeaveLoop(s))
                       /\ WF_vars(CloseEvent(s))
    /\ \A r \in Reqs : /\ WF_vars(Process(r))
                       /\ WF_vars(Send(r))
                       /\ WF_vars(SendOnClosed(r))
                       /\ WF_vars(ReloadStep(r))
    /\ WF_vars(\E n \in [Users -> Gens] : Restart(n))

FairSpec == Spec /\ Fairness

-----------------------------------------------------------------------------
(* Properties                                                              *)

\* Every variable has the values the code can give it; Event never holds
\* more than its capacity.
TypeOK ==
    /\ up \in BOOLEAN /\ epoch \in Nat
    /\ token \in [Users -> Gens] /\ lastChange \in [Users -> Nat]
    /\ st \in [Sids -> {"free", "authed", "open", "ending", "closed"}]
    /\ owner \in [Sids -> Users \cup {None}]
    /\ gen \in [Sids -> Gens] /\ born \in [Sids -> Nat]
    /\ late \subseteq Sids /\ done \subseteq Sids /\ gone \subseteq Sids /\ stuck \subseteq Sids
    /\ chan \in [Sids -> Seq(Reqs)] /\ wire \in [Sids -> Seq(Reqs)]
    /\ \A s \in Sids : Len(chan[s]) <= EventCap
    /\ phase \in [Reqs -> {"idle", "authed", "running", "answering", "finished"}]
    /\ poster \in [Reqs -> Users \cup {None}]
    /\ target \in [Reqs -> Sids \cup {None}]
    /\ kind \in [Reqs -> Kinds \cup {None}]
    /\ left \in [Reqs -> 0..2]
    /\ reloader \in Reqs \cup {None}
    /\ stage \in {"idle", "read", "swapped"}
    /\ next \in [Users -> Gens] /\ closing \subseteq Users

Holds(queue, r) == \E i \in DOMAIN queue : queue[i] = r

\* "A session_id only routes a message to the right SSE stream - it must
\* never substitute for auth" (http.go:249): whatever waits in a session's
\* channel or was written to its client answers a request that was posted to
\* that session by the session's own user.
AnswersReachOwner ==
    \A s \in Sids, r \in Reqs :
        Holds(chan[s], r) \/ Holds(wire[s], r) =>
            target[r] = s /\ poster[r] = owner[s] /\ owner[s] \in Users

\* A stream authenticated with a token that is no longer in effect has been
\* told to end, or the reload that revoked the token is about to tell it, or
\* it was registered only after the reload that revoked it (handleSSE does
\* not authenticate again): closeSessions misses no stream it can see.
RevokedStreamsClosed ==
    \A s \in Sids :
        (up /\ st[s] = "open" /\ gen[s] # token[owner[s]]) =>
            s \in done \/ s \in late \/ (stage = "swapped" /\ owner[s] \in closing)

\* "Only the sessions of users that were removed, or whose token changed, are
\* closed" (daemon.md:100): a stream the daemon told to end belongs to a user
\* whose token changed in the epoch the stream was authenticated in or later.
OnlyRevokedClosed ==
    \A s \in done : lastChange[owner[s]] >= born[s] /\ lastChange[owner[s]] > 0

CountIn(queue, r) == Cardinality({i \in DOMAIN queue : queue[i] = r})

\* Over all of a session's channel and wire, a notification is never answered
\* (rpc.go:17) and a request is answered at most once, except the reads
\* HandleResourcesRead answers by itself.
NoStrayAnswer ==
    \A s \in Sids, r \in Reqs :
        CountIn(chan[s], r) + CountIn(wire[s], r) <= Answers(kind[r])

\* The client is connected but takes nothing any more.
StoppedReading(s) == s \in stuck /\ s \notin gone

\* A stream told to end, or whose client hung up, is unregistered and its
\* channel closed in the end, whatever senders and reloads do meanwhile; only a
\* client that stays connected and stops reading keeps it (http.go:204 writes
\* without a deadline, and Done is not looked at during a write).
StreamsEnd ==
    \A s \in Sids :
        (st[s] = "open" /\ s \in done \cup gone) ~> (st[s] = "closed" \/ StoppedReading(s))

\* An accepted request other than a notification gets its answer written to
\* the stream, unless the stream ends first (or the daemon goes down) or its
\* client stops reading: a full Event delays an answer and never drops it.
AcceptedIsAnswered ==
    \A r \in Reqs, s \in Sids :
        (phase[r] = "running" /\ kind[r] # "notification" /\ target[r] = s) ~>
            (Holds(wire[s], r) \/ st[s] # "open" \/ StoppedReading(s))

-----------------------------------------------------------------------------
(* What the documentation says and the code does not do                    *)

\* "Open SSE sessions survive a reload.  Only the sessions of users that were
\* removed, or whose token changed, are closed [...]; everyone else keeps their
\* session and their in-flight calls" (daemon.md:100): as long as no client
\* hangs up, a session that ended was told to by a reload.
SessionsSurviveReload ==
    gone = {} => \A s \in Sids : st[s] = "closed" => s \in done

\* A client reads a stray answer as an unexpected message (rpc.go:17-20): no
\* request is answered twice on its stream.
AtMostOneAnswer ==
    \A s \in Sids, r \in Reqs : CountIn(wire[s], r) <= 1

=============================================================================
