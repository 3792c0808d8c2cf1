-------------------------- MODULE TransportProofs --------------------------
(***************************************************************************)
(* The two transports of mcpd, and linuxctl at the other end of one.       *)
(*                                                                         *)
(* Sessions (HTTP with SSE), for any users, sessions, requests and channel *)
(* capacity: the type invariant, that answers reach only the owner of a    *)
(* stream and are not repeated, and that closeSessions closes every stream *)
(* it has to and no other.                                                 *)
(*                                                                         *)
(* Stdio, for every input and every channel capacity: its type invariant,  *)
(* no send after the close, nothing lost at exit, and that it implements   *)
(* Answering.  The argument is one inductive invariant: an answer that was *)
(* sent is in the channel, with the writer or written; a line that was     *)
(* read is being served or has had its answers sent; and the shutdown goes *)
(* through its stages in order (requests done, channel closed, channel     *)
(* drained, exit).                                                         *)
(*                                                                         *)
(* Client, for all command lines and whatever the daemon does: its type    *)
(* invariant, and what its exit status tells.  Main has one request open   *)
(* at most, and an answer on its way was sent by the daemon to a request   *)
(* it has; so the answer main takes is that of its last request.           *)
(*                                                                         *)
(* The three modules share no variable: each part is about its own         *)
(* specification.                                                          *)
(***************************************************************************)
EXTENDS Sessions, Stdio, Client, FiniteSetTheorems, TLAPS

-----------------------------------------------------------------------------
(*                     Sessions: HTTP and SSE                              *)

(* The inductive invariant: the properties, and what they rest on.         *)

\* A handler past "free" acts for a user of the configuration, with the token
\* it presented; it was authenticated in this epoch or an earlier one.
SessionsAuthenticated ==
    \A s \in Sids :
        /\ born[s] <= epoch
        /\ st[s] = "free" => s \notin done
        /\ st[s] # "free" => owner[s] \in Users /\ gen[s] # 0

\* A goroutine that will answer holds the session of its own user.
RequestsOwned ==
    \A r \in Reqs :
        /\ phase[r] \in {"running", "answering"} =>
              /\ target[r] \in Sids
              /\ st[target[r]] # "free"
              /\ owner[target[r]] = poster[r]
        /\ phase[r] = "answering" => left[r] # 0

\* What is in a channel or on the wire was put there by a request accepted on
\* that session.
AnswersPlaced ==
    \A s \in Sids, r \in Reqs :
        Holds(chan[s], r) \/ Holds(wire[s], r) =>
            /\ phase[r] \in {"answering", "finished"}
            /\ target[r] = s
            /\ poster[r] = owner[s]
            /\ st[s] # "free"

\* reloadMu: the stage says whether a call is in reloadConfig, and that
\* reload call is still running.
ReloadHeld ==
    /\ reloader = None <=> stage = "idle"
    /\ reloader # None => phase[reloader] = "running" /\ kind[reloader] = "reload"

\* A process that is down has no session and no reload.
DownIsEmpty ==
    ~up => stage = "idle" /\ \A s \in Sids : st[s] \in {"free", "closed"}

\* Until a reload takes effect, the token of a handler that authenticated in
\* this epoch is the one in effect.
TokensCurrent ==
    \A s \in Sids :
        /\ (st[s] = "authed" /\ born[s] = epoch) => gen[s] = token[owner[s]]
        /\ (st[s] = "open" /\ s \notin late /\ s \notin done) =>
              \/ gen[s] = token[owner[s]]
              \/ stage = "swapped" /\ owner[s] \in closing

\* lastChange never runs ahead, and the users a reload is about to close are
\* the ones whose token just changed.
ChangesRecorded ==
    /\ \A u \in Users : lastChange[u] <= epoch
    /\ stage = "swapped" => \A u \in closing : lastChange[u] = epoch /\ epoch > 0

IInv ==
    /\ TypeOK
    /\ SessionsAuthenticated
    /\ RequestsOwned
    /\ AnswersPlaced
    /\ ReloadHeld
    /\ DownIsEmpty
    /\ TokensCurrent
    /\ ChangesRecorded
    /\ OnlyRevokedClosed

-----------------------------------------------------------------------------
(* Channels                                                                *)

\* What a channel holds after a send.
LEMMA HoldsAppend ==
    ASSUME NEW q \in Seq(Reqs), NEW x \in Reqs, NEW r \in Reqs, Holds(Append(q, x), r)
    PROVE  Holds(q, r) \/ r = x
BY DEF Holds

\* What a channel holds after a receive it held before.
LEMMA HoldsTail ==
    ASSUME NEW q \in Seq(Reqs), q # <<>>, NEW r \in Reqs, Holds(Tail(q), r)
    PROVE  Holds(q, r)
<1>1. PICK i \in DOMAIN Tail(q) : Tail(q)[i] = r
  BY DEF Holds
<1>2. i + 1 \in DOMAIN q /\ q[i + 1] = r
  BY <1>1
<1> QED
  BY <1>2 DEF Holds

\* The event a stream takes is one the channel held.
LEMMA HoldsHead ==
    ASSUME NEW q \in Seq(Reqs), q # <<>>
    PROVE  Head(q) \in Reqs /\ Holds(q, Head(q))
<1>1. 1 \in DOMAIN q /\ q[1] = Head(q)
  OBVIOUS
<1> QED
  BY <1>1 DEF Holds

\* An empty channel holds nothing.
LEMMA HoldsEmpty ==
    ASSUME NEW r PROVE ~Holds(<<>>, r)
BY DEF Holds

-----------------------------------------------------------------------------
(* Every step preserves the invariant                                      *)

\* The state the daemon starts in.
LEMMA InitIInv == Init => IInv
<1> SUFFICES ASSUME Init PROVE IInv
  OBVIOUS
<1> USE SessionsAssumption DEF Init, NoUsers, Gens
<1>1. TypeOK
  BY DEF TypeOK
<1>2. SessionsAuthenticated /\ RequestsOwned /\ OnlyRevokedClosed
  BY DEF SessionsAuthenticated, RequestsOwned, OnlyRevokedClosed
<1>3. AnswersPlaced
  BY HoldsEmpty DEF AnswersPlaced
<1>4. ReloadHeld /\ DownIsEmpty /\ TokensCurrent /\ ChangesRecorded
  BY DEF ReloadHeld, DownIsEmpty, TokensCurrent, ChangesRecorded
<1> QED
  BY <1>1, <1>2, <1>3, <1>4 DEF IInv

\* handleSSE, the steps that leave every channel alone.
LEMMA HandlerStep ==
    ASSUME IInv, NEW s \in Sids,
           \/ \E u \in Users : AuthenticateStream(s, u)
           \/ RegisterStream(s)
           \/ Disconnect(s)
           \/ LeaveLoop(s)
           \/ KeepaliveBlocks(s)
           \/ WriteFails(s)
    PROVE  IInv'
<1> USE SessionsAssumption
    DEF IInv, configVars, requestVars, reloadVars, AuthenticateStream, RegisterStream,
        Disconnect, LeaveLoop, KeepaliveBlocks, WriteFails
<1>1. TypeOK'
  <2>1. CASE \E u \in Users : AuthenticateStream(s, u)
    BY <2>1 DEF TypeOK, Gens
  <2>2. CASE RegisterStream(s)
    BY <2>2 DEF TypeOK, Gens
  <2>3. CASE Disconnect(s)
    BY <2>3 DEF TypeOK, Gens
  <2>4. CASE LeaveLoop(s)
    BY <2>4 DEF TypeOK, Gens
  <2>5. CASE KeepaliveBlocks(s)
    BY <2>5 DEF TypeOK, Gens
  <2>6. CASE WriteFails(s)
    BY <2>6 DEF TypeOK, Gens
  <2> QED
    BY <2>1, <2>2, <2>3, <2>4, <2>5, <2>6
<1>2. SessionsAuthenticated'
  <2>1. CASE \E u \in Users : AuthenticateStream(s, u)
    BY <2>1 DEF SessionsAuthenticated, TypeOK, Gens
  <2>2. CASE RegisterStream(s)
    BY <2>2 DEF SessionsAuthenticated, TypeOK, Gens
  <2>3. CASE Disconnect(s)
    BY <2>3 DEF SessionsAuthenticated, TypeOK, Gens
  <2>4. CASE LeaveLoop(s)
    BY <2>4 DEF SessionsAuthenticated, TypeOK, Gens
  <2>5. CASE KeepaliveBlocks(s)
    BY <2>5 DEF SessionsAuthenticated, TypeOK, Gens
  <2>6. CASE WriteFails(s)
    BY <2>6 DEF SessionsAuthenticated, TypeOK, Gens
  <2> QED
    BY <2>1, <2>2, <2>3, <2>4, <2>5, <2>6
<1>3. \A t \in Sids : st[t] # "free" => st'[t] # "free" /\ owner'[t] = owner[t]
  BY DEF TypeOK
<1>4. RequestsOwned' /\ AnswersPlaced'
  BY <1>3 DEF RequestsOwned, AnswersPlaced
<1>5. ReloadHeld' /\ DownIsEmpty' /\ ChangesRecorded'
  BY DEF ReloadHeld, DownIsEmpty, ChangesRecorded
<1>6. TokensCurrent'
  BY DEF TokensCurrent, SessionsAuthenticated, TypeOK
<1>7. OnlyRevokedClosed'
  <2>1. CASE \E u \in Users : AuthenticateStream(s, u)
    BY <2>1 DEF OnlyRevokedClosed, SessionsAuthenticated, TypeOK
  <2>2. CASE RegisterStream(s)
    BY <2>2 DEF OnlyRevokedClosed, SessionsAuthenticated, TypeOK
  <2>3. CASE Disconnect(s)
    BY <2>3 DEF OnlyRevokedClosed, SessionsAuthenticated, TypeOK
  <2>4. CASE LeaveLoop(s)
    BY <2>4 DEF OnlyRevokedClosed, SessionsAuthenticated, TypeOK
  <2>5. CASE KeepaliveBlocks(s)
    BY <2>5 DEF OnlyRevokedClosed, SessionsAuthenticated, TypeOK
  <2>6. CASE WriteFails(s)
    BY <2>6 DEF OnlyRevokedClosed, SessionsAuthenticated, TypeOK
  <2> QED
    BY <2>1, <2>2, <2>3, <2>4, <2>5, <2>6
<1> QED
  BY <1>1, <1>2, <1>4, <1>5, <1>6, <1>7

\* The select of handleSSE takes an event.
LEMMA DeliverStep ==
    ASSUME IInv, NEW s \in Sids, DeliverEvent(s) \/ EventBlocks(s)
    PROVE  IInv'
<1> USE SessionsAssumption
    DEF IInv, configVars, streamVars, requestVars, reloadVars, DeliverEvent, EventBlocks
<1>1. /\ Head(chan[s]) \in Reqs
      /\ Holds(chan[s], Head(chan[s]))
      /\ chan[s] \in Seq(Reqs)
      /\ wire[s] \in Seq(Reqs)
  BY HoldsHead DEF TypeOK
<1>2. TypeOK'
  <2>1. CASE DeliverEvent(s)
    BY <1>1, <2>1 DEF TypeOK
  <2>2. CASE EventBlocks(s)
    BY <1>1, <2>2 DEF TypeOK
  <2> QED
    BY <2>1, <2>2
<1>3. ASSUME NEW t \in Sids, NEW r \in Reqs, Holds(chan'[t], r) \/ Holds(wire'[t], r)
      PROVE  Holds(chan[t], r) \/ Holds(wire[t], r)
  <2>1. CASE t # s
    BY <1>3, <2>1 DEF TypeOK
  <2>2. CASE t = s
    <3>1. /\ chan'[s] = Tail(chan[s])
          /\ wire'[s] = wire[s] \/ wire'[s] = Append(wire[s], Head(chan[s]))
      <4>0. chan \in [Sids -> Seq(Reqs)] /\ wire \in [Sids -> Seq(Reqs)]
        BY DEF TypeOK
      <4>1. CASE DeliverEvent(s)
        BY <4>0, <4>1 DEF DeliverEvent
      <4>2. CASE EventBlocks(s)
        BY <4>0, <4>2 DEF EventBlocks
      <4> QED
        BY <4>1, <4>2
    <3>2. chan[s] # <<>>
      BY DEF DeliverEvent, EventBlocks
    <3> HIDE DEF DeliverEvent, EventBlocks, IInv
    <3>3. Holds(Tail(chan[s]), r) => Holds(chan[s], r)
      BY <1>1, <3>2, HoldsTail
    <3>4. Holds(Append(wire[s], Head(chan[s])), r) => Holds(wire[s], r) \/ r = Head(chan[s])
      BY <1>1, HoldsAppend
    <3> QED
      BY <1>1, <1>3, <2>2, <3>1, <3>3, <3>4
  <2> QED
    BY <2>1, <2>2
<1>4. AnswersPlaced'
  BY <1>3 DEF AnswersPlaced
<1>5. /\ SessionsAuthenticated' /\ RequestsOwned' /\ ReloadHeld' /\ DownIsEmpty'
      /\ TokensCurrent' /\ ChangesRecorded' /\ OnlyRevokedClosed'
  BY DEF SessionsAuthenticated, RequestsOwned, ReloadHeld, DownIsEmpty,
         TokensCurrent, ChangesRecorded, OnlyRevokedClosed
<1> QED
  BY <1>2, <1>4, <1>5

\* The deferred function of handleSSE closes Event.
LEMMA CloseEventStep ==
    ASSUME IInv, NEW s \in Sids, CloseEvent(s)
    PROVE  IInv'
<1> USE SessionsAssumption
    DEF IInv, configVars, requestVars, reloadVars, CloseEvent
<1>1. TypeOK'
  BY DEF TypeOK
<1>2. \A t \in Sids, r \in Reqs : Holds(chan'[t], r) => Holds(chan[t], r)
  BY HoldsEmpty DEF TypeOK
<1>3. \A t \in Sids : /\ st'[t] # "free" <=> st[t] # "free"
                      /\ st'[t] \in {"authed", "open"} => st'[t] = st[t]
  BY DEF TypeOK
<1>4. AnswersPlaced'
  BY <1>2, <1>3 DEF AnswersPlaced
<1>5. /\ SessionsAuthenticated' /\ RequestsOwned' /\ ReloadHeld' /\ DownIsEmpty'
      /\ TokensCurrent' /\ ChangesRecorded' /\ OnlyRevokedClosed'
  BY <1>3 DEF SessionsAuthenticated, RequestsOwned, ReloadHeld, DownIsEmpty,
              TokensCurrent, ChangesRecorded, OnlyRevokedClosed
<1> QED
  BY <1>1, <1>4, <1>5

\* handleMessage and the part of ProcessJSONRPC before the send.
LEMMA MessageStep ==
    ASSUME IInv, NEW r \in Reqs,
           \/ \E u \in Users, k \in Kinds : AuthenticateMessage(r, u, k)
           \/ \E s \in Sids : AcceptMessage(r, s)
           \/ RejectMessage(r)
           \/ Process(r)
    PROVE  IInv'
<1> USE SessionsAssumption
    DEF IInv, configVars, streamVars, reloadVars, AuthenticateMessage, AcceptMessage,
        RejectMessage, Process
<1>1. TypeOK'
  <2>1. CASE \E u \in Users, k \in Kinds : AuthenticateMessage(r, u, k)
    BY <2>1 DEF TypeOK, Answers
  <2>2. CASE \E s \in Sids : AcceptMessage(r, s)
    BY <2>2 DEF TypeOK, Answers
  <2>3. CASE RejectMessage(r)
    BY <2>3 DEF TypeOK, Answers
  <2>4. CASE Process(r)
    BY <2>4 DEF TypeOK, Answers
  <2> QED
    BY <2>1, <2>2, <2>3, <2>4
<1>2. RequestsOwned'
  BY DEF RequestsOwned, SessionsAuthenticated, TypeOK, Answers
<1>3. \A q \in Reqs : phase[q] \in {"answering", "finished"} =>
          phase'[q] = phase[q] /\ target'[q] = target[q] /\ poster'[q] = poster[q]
  BY DEF TypeOK
<1>4. AnswersPlaced'
  BY <1>3 DEF AnswersPlaced
<1>5. ReloadHeld'
  <2>1. CASE \E u \in Users, k \in Kinds : AuthenticateMessage(r, u, k)
    BY <2>1 DEF ReloadHeld, TypeOK
  <2>2. CASE \E s \in Sids : AcceptMessage(r, s)
    BY <2>2 DEF ReloadHeld, TypeOK
  <2>3. CASE RejectMessage(r)
    BY <2>3 DEF ReloadHeld, TypeOK
  <2>4. CASE Process(r)
    BY <2>4 DEF ReloadHeld, TypeOK
  <2> QED
    BY <2>1, <2>2, <2>3, <2>4
<1>6. /\ SessionsAuthenticated' /\ DownIsEmpty' /\ TokensCurrent'
      /\ ChangesRecorded' /\ OnlyRevokedClosed'
  BY DEF SessionsAuthenticated, DownIsEmpty, TokensCurrent, ChangesRecorded, OnlyRevokedClosed
<1> QED
  BY <1>1, <1>2, <1>4, <1>5, <1>6

\* The goroutine of a request sends its answer.
LEMMA SendStep ==
    ASSUME IInv, NEW r \in Reqs, Send(r)
    PROVE  IInv'
<1> USE SessionsAssumption
    DEF IInv, configVars, streamVars, reloadVars, Send, Sent
<1>0. /\ target[r] \in Sids /\ st[target[r]] # "free" /\ owner[target[r]] = poster[r]
      /\ left[r] \in 1..2
      /\ chan[target[r]] \in Seq(Reqs)
  BY DEF RequestsOwned, TypeOK
<1>1. TypeOK'
  BY <1>0 DEF TypeOK
<1>2. RequestsOwned'
  BY <1>0 DEF RequestsOwned, TypeOK
<1>3. ASSUME NEW t \in Sids, NEW q \in Reqs, Holds(chan'[t], q)
      PROVE  Holds(chan[t], q) \/ (t = target[r] /\ q = r)
  <2>1. CASE t # target[r]
    BY <1>3, <2>1 DEF TypeOK
  <2>2. CASE t = target[r]
    <3>1. chan'[t] = Append(chan[t], r)
      BY <2>2 DEF TypeOK
    <3> QED
      BY <1>0, <1>3, <2>2, <3>1, HoldsAppend
  <2> QED
    BY <2>1, <2>2
<1>4. \A q \in Reqs : phase[q] \in {"answering", "finished"} =>
          phase'[q] \in {"answering", "finished"}
  BY DEF TypeOK
<1>5. AnswersPlaced'
  BY <1>0, <1>3, <1>4 DEF AnswersPlaced
<1>6. ReloadHeld'
  BY DEF ReloadHeld, TypeOK
<1>7. /\ SessionsAuthenticated' /\ DownIsEmpty' /\ TokensCurrent'
      /\ ChangesRecorded' /\ OnlyRevokedClosed'
  BY DEF SessionsAuthenticated, DownIsEmpty, TokensCurrent, ChangesRecorded, OnlyRevokedClosed
<1> QED
  BY <1>1, <1>2, <1>5, <1>6, <1>7

\* A send on a closed channel takes the process down.
LEMMA PanicStep ==
    ASSUME IInv, NEW r \in Reqs, SendOnClosed(r)
    PROVE  IInv'
<1> USE SessionsAssumption DEF IInv, SendOnClosed
<1>1. TypeOK'
  <2>1. /\ next' \in [Users -> Gens]
        /\ st' \in [Sids -> {"free", "authed", "open", "ending", "closed"}]
        /\ phase' \in [Reqs -> {"idle", "authed", "running", "answering", "finished"}]
    BY DEF TypeOK, NoUsers, Gens
  <2>2. chan' \in [Sids -> Seq(Reqs)] /\ \A s \in Sids : Len(chan'[s]) <= EventCap
    BY DEF TypeOK
  <2> QED
    BY <2>1, <2>2 DEF TypeOK
<1>2. AnswersPlaced'
  BY HoldsEmpty DEF AnswersPlaced, TypeOK
<1>3. SessionsAuthenticated' /\ RequestsOwned' /\ OnlyRevokedClosed'
  BY DEF SessionsAuthenticated, RequestsOwned, OnlyRevokedClosed, TypeOK
<1>4. ReloadHeld' /\ DownIsEmpty' /\ TokensCurrent' /\ ChangesRecorded'
  BY DEF ReloadHeld, DownIsEmpty, TokensCurrent, ChangesRecorded, TypeOK
<1> QED
  BY <1>1, <1>2, <1>3, <1>4

\* systemd restarts the daemon.
LEMMA RestartStep ==
    ASSUME IInv, NEW n \in [Users -> Gens], Restart(n)
    PROVE  IInv'
<1> USE SessionsAssumption
    DEF IInv, streamVars, requestVars, reloadVars, Restart, Changed
<1>1. TypeOK'
  BY DEF TypeOK
<1>2. SessionsAuthenticated' /\ RequestsOwned' /\ AnswersPlaced' /\ ReloadHeld'
  BY DEF SessionsAuthenticated, RequestsOwned, AnswersPlaced, ReloadHeld, TypeOK
<1>3. DownIsEmpty' /\ TokensCurrent'
  BY DEF DownIsEmpty, TokensCurrent
<1>4. ChangesRecorded'
  BY DEF ChangesRecorded, DownIsEmpty, TypeOK
<1>5. OnlyRevokedClosed'
  BY DEF OnlyRevokedClosed, SessionsAuthenticated, TypeOK
<1> QED
  BY <1>1, <1>2, <1>3, <1>4, <1>5

\* reloadConfig, the steps that leave users and sessions alone.
LEMMA ReloadReadStep ==
    ASSUME IInv, NEW r \in Reqs,
           \/ \E n \in [Users -> Gens] : ReloadRead(r, n)
           \/ ReloadDenied(r)
           \/ ReloadInvalid(r)
    PROVE  IInv'
<1> USE SessionsAssumption
    DEF IInv, configVars, streamVars, requestVars, reloadVars, ReloadRead, ReloadDenied,
        ReloadInvalid, ReloadReturns, ReleaseReloadMu
<1>1. TypeOK'
  <2>1. CASE \E n \in [Users -> Gens] : ReloadRead(r, n)
    BY <2>1 DEF TypeOK, Answers, NoUsers, Gens
  <2>2. CASE ReloadDenied(r)
    BY <2>2 DEF TypeOK, Answers, NoUsers, Gens
  <2>3. CASE ReloadInvalid(r)
    BY <2>3 DEF TypeOK, Answers, NoUsers, Gens
  <2> QED
    BY <2>1, <2>2, <2>3
<1>2. RequestsOwned'
  <2>1. CASE \E n \in [Users -> Gens] : ReloadRead(r, n)
    BY <2>1 DEF RequestsOwned, ReloadHeld, TypeOK, Answers
  <2>2. CASE ReloadDenied(r)
    BY <2>2 DEF RequestsOwned, ReloadHeld, TypeOK, Answers
  <2>3. CASE ReloadInvalid(r)
    BY <2>3 DEF RequestsOwned, ReloadHeld, TypeOK, Answers
  <2> QED
    BY <2>1, <2>2, <2>3
<1>3. \A q \in Reqs : phase[q] \in {"answering", "finished"} =>
          phase'[q] \in {"answering", "finished"}
  BY DEF TypeOK
<1>4. AnswersPlaced'
  BY <1>3 DEF AnswersPlaced
<1>5. ReloadHeld'
  BY DEF ReloadHeld, TypeOK
<1>6. stage # "swapped" \/ (stage' = stage /\ closing' = closing)
  BY DEF ReloadHeld, TypeOK
<1>7. stage' = "swapped" => stage = "swapped"
  OBVIOUS
<1>8. TokensCurrent' /\ ChangesRecorded'
  BY <1>6, <1>7 DEF TokensCurrent, ChangesRecorded
<1>9. SessionsAuthenticated' /\ DownIsEmpty' /\ OnlyRevokedClosed'
  BY DEF SessionsAuthenticated, DownIsEmpty, OnlyRevokedClosed
<1> QED
  BY <1>1, <1>2, <1>4, <1>5, <1>8, <1>9

\* reloadConfig swaps the users.
LEMMA ReloadSwapStep ==
    ASSUME IInv, NEW r \in Reqs, ReloadSwap(r)
    PROVE  IInv'
<1> USE SessionsAssumption
    DEF IInv, streamVars, requestVars, ReloadSwap, Changed, CloseUsers
<1>1. TypeOK'
  BY DEF TypeOK
<1>2. SessionsAuthenticated' /\ RequestsOwned' /\ AnswersPlaced' /\ DownIsEmpty'
  BY DEF SessionsAuthenticated, RequestsOwned, AnswersPlaced, DownIsEmpty, TypeOK
<1>3. ReloadHeld'
  BY DEF ReloadHeld, TypeOK
<1>4. TokensCurrent'
  BY DEF TokensCurrent, SessionsAuthenticated, TypeOK
<1>5. ChangesRecorded'
  BY DEF ChangesRecorded, TypeOK
<1>6. OnlyRevokedClosed'
  BY DEF OnlyRevokedClosed, SessionsAuthenticated, TypeOK
<1> QED
  BY <1>1, <1>2, <1>3, <1>4, <1>5, <1>6

\* reloadConfig closes the sessions.
LEMMA ReloadCloseStep ==
    ASSUME IInv, NEW r \in Reqs, ReloadClose(r)
    PROVE  IInv'
<1> USE SessionsAssumption
    DEF IInv, configVars, ReloadClose, ReleaseReloadMu, ReloadReturns
<1>1. TypeOK'
  BY DEF TypeOK, Answers, NoUsers, Gens
<1>2. SessionsAuthenticated'
  BY DEF SessionsAuthenticated
<1>3. RequestsOwned'
  BY DEF RequestsOwned, ReloadHeld, TypeOK, Answers
<1>4. \A q \in Reqs : phase[q] \in {"answering", "finished"} =>
          phase'[q] \in {"answering", "finished"}
  BY DEF TypeOK
<1>5. AnswersPlaced'
  BY <1>4 DEF AnswersPlaced
<1>6. ReloadHeld' /\ DownIsEmpty' /\ ChangesRecorded'
  BY DEF ReloadHeld, DownIsEmpty, ChangesRecorded, TypeOK
<1>7. TokensCurrent'
  BY DEF TokensCurrent, SessionsAuthenticated, TypeOK
<1>8. OnlyRevokedClosed'
  BY DEF OnlyRevokedClosed, ChangesRecorded, SessionsAuthenticated, TypeOK
<1> QED
  BY <1>1, <1>2, <1>3, <1>5, <1>6, <1>7, <1>8

\* The three facts together.
LEMMA NextIInv == IInv /\ [Next]_vars => IInv'
<1> SUFFICES ASSUME IInv, [Next]_vars PROVE IInv'
  OBVIOUS
<1>1. ASSUME NEW s \in Sids, StreamStep(s) PROVE IInv'
  BY <1>1, HandlerStep, DeliverStep, CloseEventStep DEF StreamStep
<1>2. ASSUME NEW r \in Reqs, RequestStep(r) PROVE IInv'
  BY <1>2, MessageStep, SendStep, PanicStep DEF RequestStep
<1>3. ASSUME NEW r \in Reqs, ReloadStep(r) PROVE IInv'
  BY <1>3, ReloadReadStep, ReloadSwapStep, ReloadCloseStep DEF ReloadStep
<1>4. ASSUME NEW n \in [Users -> Gens], Restart(n) PROVE IInv'
  BY <1>4, RestartStep
<1>5. CASE UNCHANGED vars
  BY <1>5 DEF vars, configVars, streamVars, requestVars, reloadVars, IInv, TypeOK,
              SessionsAuthenticated, RequestsOwned, AnswersPlaced, ReloadHeld, DownIsEmpty,
              TokensCurrent, ChangesRecorded, OnlyRevokedClosed
<1> QED
  BY <1>1, <1>2, <1>3, <1>4, <1>5 DEF Next

-----------------------------------------------------------------------------
(* How often a request is answered                                         *)

\* Where a queue holds r.
Places(q, r) == {i \in DOMAIN q : q[i] = r}

\* The places are finitely many, and none where the queue does not hold r.
LEMMA CountType ==
    ASSUME NEW q \in Seq(Reqs), NEW r
    PROVE  /\ IsFiniteSet(Places(q, r)) /\ CountIn(q, r) = Cardinality(Places(q, r))
           /\ CountIn(q, r) \in Nat
           /\ ~Holds(q, r) => CountIn(q, r) = 0
<1>1. IsFiniteSet(1..Len(q)) /\ Places(q, r) \in SUBSET (1..Len(q))
  BY FS_Interval DEF Places
<1>2. IsFiniteSet(Places(q, r))
  BY <1>1, FS_Subset
<1>3. CountIn(q, r) = Cardinality(Places(q, r))
  BY DEF CountIn, Places
<1>4. ~Holds(q, r) => Places(q, r) = {}
  BY DEF Holds, Places
<1> QED
  BY <1>2, <1>3, <1>4, FS_CardinalityType, FS_EmptySet

\* A send counts for its request and for no other.
LEMMA CountAppend ==
    ASSUME NEW q \in Seq(Reqs), NEW x \in Reqs, NEW r \in Reqs
    PROVE  CountIn(Append(q, x), r) = CountIn(q, r) + (IF x = r THEN 1 ELSE 0)
<1>1. Append(q, x) \in Seq(Reqs) /\ Len(q) \in Nat
  OBVIOUS
<1>0. /\ CountIn(Append(q, x), r) = Cardinality(Places(Append(q, x), r))
      /\ CountIn(q, r) = Cardinality(Places(q, r)) /\ CountIn(q, r) \in Nat
      /\ IsFiniteSet(Places(q, r))
  BY <1>1, CountType
<1>2. DOMAIN Append(q, x) = 1..Len(q) + 1 /\ DOMAIN q = 1..Len(q)
  OBVIOUS
<1>3. Append(q, x)[Len(q) + 1] = x /\ \A i \in 1..Len(q) : Append(q, x)[i] = q[i]
  OBVIOUS
<1>4. CASE x = r
  <2>1. Places(Append(q, x), r) = Places(q, r) \cup {Len(q) + 1}
    BY <1>1, <1>2, <1>3, <1>4 DEF Places
  <2>2. Len(q) + 1 \notin Places(q, r)
    BY <1>2 DEF Places
  <2>3. Cardinality(Places(Append(q, x), r)) = Cardinality(Places(q, r)) + 1
    BY <1>0, <2>1, <2>2, FS_AddElement
  <2> QED
    BY <1>0, <1>4, <2>3
<1>5. CASE x # r
  <2>1. Places(Append(q, x), r) = Places(q, r)
    BY <1>1, <1>2, <1>3, <1>5 DEF Places
  <2> QED
    BY <1>0, <1>5, <2>1
<1> QED
  BY <1>4, <1>5

\* What a receive takes off one end is what it hands over.
LEMMA CountTail ==
    ASSUME NEW q \in Seq(Reqs), q # <<>>, NEW r \in Reqs
    PROVE  CountIn(q, r) = CountIn(Tail(q), r) + (IF Head(q) = r THEN 1 ELSE 0)
<1> DEFINE S == Places(Tail(q), r)
           T == Places(q, r) \ {1}
           f == [i \in S |-> i + 1]
<1>1. /\ Tail(q) \in Seq(Reqs) /\ Len(q) \in Nat \ {0} /\ q[1] = Head(q)
      /\ DOMAIN q = 1..Len(q) /\ DOMAIN Tail(q) = 1..Len(q) - 1
      /\ \A i \in 1..Len(q) - 1 : Tail(q)[i] = q[i + 1]
  OBVIOUS
<1>2. \A i \in S : i \in Nat /\ i + 1 \in T
  BY <1>1 DEF Places
<1>3. \A j \in T : j - 1 \in S /\ j \in Nat
  BY <1>1 DEF Places
<1>4. f \in Bijection(S, T)
  <2>1. f \in [S -> T]
    BY <1>2
  <2>2. \A a, b \in S : f[a] = f[b] => a = b
    <3> SUFFICES ASSUME NEW a \in S, NEW b \in S, f[a] = f[b] PROVE a = b
      OBVIOUS
    <3>1. a \in Nat /\ b \in Nat /\ a + 1 = b + 1
      BY <1>2
    <3> QED
      BY <3>1
  <2>3. \A t \in T : \E a \in S : f[a] = t
    <3> SUFFICES ASSUME NEW t \in T PROVE \E a \in S : f[a] = t
      OBVIOUS
    <3>1. t - 1 \in S /\ t \in Nat
      BY <1>3
    <3>2. f[t - 1] = (t - 1) + 1
      BY <3>1
    <3>3. f[t - 1] = t
      BY <3>1, <3>2
    <3> QED
      BY <3>1, <3>3
  <2> HIDE DEF f, S, T
  <2> QED
    BY <2>1, <2>2, <2>3 DEF Bijection, Injection, IsInjective, Surjection
<1>5. IsFiniteSet(S) /\ CountIn(Tail(q), r) = Cardinality(S) /\ Cardinality(S) \in Nat
  BY <1>1, CountType
<1>6. Cardinality(T) = Cardinality(S)
  <2>1. ExistsBijection(S, T)
    BY <1>4 DEF ExistsBijection
  <2> HIDE DEF S, T, f
  <2> QED
    BY <1>5, <2>1, FS_Bijection
<1>7. IsFiniteSet(Places(q, r)) /\ CountIn(q, r) = Cardinality(Places(q, r)) /\ CountIn(q, r) \in Nat
  BY CountType
<1>8. 1 \in Places(q, r) <=> Head(q) = r
  BY <1>1 DEF Places
<1>9. Cardinality(T) = IF 1 \in Places(q, r) THEN Cardinality(Places(q, r)) - 1
                       ELSE Cardinality(Places(q, r))
  BY <1>7, FS_RemoveElement
<1> HIDE DEF S, T
<1> QED
  BY <1>5, <1>6, <1>7, <1>8, <1>9

\* How often r was, and still may be, answered on s.
Spent(s, r) == CountIn(chan[s], r) + CountIn(wire[s], r)

\* What a goroutine has sent and has yet to send is within what its request is
\* owed.
AnswersBudgeted ==
    \A s \in Sids, r \in Reqs :
        /\ Spent(s, r) <= Answers(kind[r])
        /\ phase[r] = "answering" /\ target[r] = s => Spent(s, r) + left[r] <= Answers(kind[r])

\* A request that has not come to its sends is nowhere.
LEMMA NothingSpent ==
    ASSUME IInv, NEW s \in Sids, NEW r \in Reqs
    PROVE  /\ CountIn(chan[s], r) \in Nat /\ CountIn(wire[s], r) \in Nat /\ Spent(s, r) \in Nat
           /\ phase[r] \in {"idle", "authed", "running"} \/ target[r] # s => Spent(s, r) = 0
<1>1. chan[s] \in Seq(Reqs) /\ wire[s] \in Seq(Reqs)
  BY DEF IInv, TypeOK
<1>2. phase[r] \in {"idle", "authed", "running"} \/ target[r] # s => ~Holds(chan[s], r) /\ ~Holds(wire[s], r)
  BY DEF IInv, AnswersPlaced
<1> QED
  BY <1>1, <1>2, CountType DEF Spent

\* The numbers ProcessJSONRPC may send.
LEMMA AnswersType ==
    ASSUME NEW k PROVE Answers(k) \in 0..2
BY DEF Answers

\* Steps that send nothing and count nothing on.
LEMMA QuietBudget ==
    ASSUME IInv, AnswersBudgeted,
           \A s \in Sids, r \in Reqs : Spent(s, r)' \in Nat /\ Spent(s, r)' <= Spent(s, r),
           \A r \in Reqs :
              /\ kind'[r] = kind[r] \/ phase[r] \in {"idle", "authed", "running"}
              /\ phase'[r] = "answering" =>
                    \/ /\ phase[r] = "answering" /\ left'[r] = left[r]
                       /\ target'[r] = target[r] /\ kind'[r] = kind[r]
                    \/ phase[r] = "running" /\ left'[r] = Answers(kind'[r])
    PROVE  AnswersBudgeted'
<1> SUFFICES ASSUME NEW s \in Sids, NEW r \in Reqs
             PROVE  /\ Spent(s, r)' <= Answers(kind'[r])
                    /\ phase'[r] = "answering" /\ target'[r] = s =>
                          Spent(s, r)' + left'[r] <= Answers(kind'[r])
  BY DEF AnswersBudgeted
<1>1. Spent(s, r) \in Nat /\ Spent(s, r)' \in Nat /\ Spent(s, r)' <= Spent(s, r)
  BY NothingSpent
<1>2. Answers(kind[r]) \in Nat /\ Answers(kind'[r]) \in Nat /\ left[r] \in Nat
  <2>1. Answers(kind[r]) \in 0..2 /\ Answers(kind'[r]) \in 0..2
    BY AnswersType
  <2>2. left[r] \in 0..2
    BY DEF IInv, TypeOK
  <2> QED
    BY <2>1, <2>2
<1>3. CASE phase[r] \in {"idle", "authed", "running"}
  <2>1. Spent(s, r)' = 0
    BY <1>1, <1>3, NothingSpent
  <2> QED
    BY <1>2, <1>3, <2>1
<1>4. CASE phase[r] \notin {"idle", "authed", "running"}
  <2>1. kind'[r] = kind[r] /\ Spent(s, r) <= Answers(kind[r])
    BY <1>4 DEF AnswersBudgeted
  <2>2. ASSUME phase'[r] = "answering", target'[r] = s
        PROVE  left'[r] = left[r] /\ Spent(s, r) + left[r] <= Answers(kind[r])
    BY <1>4, <2>2 DEF AnswersBudgeted
  <2> QED
    BY <1>1, <1>2, <2>1, <2>2
<1> QED
  BY <1>3, <1>4

\* The steps that leave channels and wires alone.
LEMMA ControlBudget ==
    ASSUME IInv, AnswersBudgeted, UNCHANGED <<chan, wire>>,
           \A r \in Reqs :
              /\ kind'[r] = kind[r] \/ phase[r] \in {"idle", "authed", "running"}
              /\ phase'[r] = "answering" =>
                    \/ /\ phase[r] = "answering" /\ left'[r] = left[r]
                       /\ target'[r] = target[r] /\ kind'[r] = kind[r]
                    \/ phase[r] = "running" /\ left'[r] = Answers(kind'[r])
    PROVE  AnswersBudgeted'
<1>1. \A s \in Sids, r \in Reqs : Spent(s, r)' = Spent(s, r) /\ Spent(s, r) \in Nat
  BY NothingSpent DEF Spent
<1>2. \A s \in Sids, r \in Reqs : Spent(s, r)' \in Nat /\ Spent(s, r)' <= Spent(s, r)
  BY <1>1
<1> QED
  BY <1>2, QuietBudget

\* handleSSE: a receive moves an answer from the channel to the wire, or loses
\* it, and the end of a stream loses what is left.
LEMMA StreamBudget ==
    ASSUME IInv, AnswersBudgeted, NEW s \in Sids, StreamStep(s)
    PROVE  AnswersBudgeted'
<1>t. chan \in [Sids -> Seq(Reqs)] /\ wire \in [Sids -> Seq(Reqs)]
  BY DEF IInv, TypeOK
<1>1. ASSUME UNCHANGED requestVars,
             \A t \in Sids, r \in Reqs : Spent(t, r)' \in Nat /\ Spent(t, r)' <= Spent(t, r)
      PROVE  AnswersBudgeted'
  BY <1>1, QuietBudget DEF requestVars
<1>2. CASE DeliverEvent(s) \/ EventBlocks(s)
  <2>1. /\ chan[s] # <<>> /\ chan' = [chan EXCEPT ![s] = Tail(chan[s])] /\ UNCHANGED requestVars
        /\ wire' = wire \/ wire' = [wire EXCEPT ![s] = Append(wire[s], Head(chan[s]))]
    BY <1>2 DEF DeliverEvent, EventBlocks
  <2>2. ASSUME NEW t \in Sids, NEW r \in Reqs PROVE Spent(t, r)' \in Nat /\ Spent(t, r)' <= Spent(t, r)
    <3>0. CountIn(chan[t], r) \in Nat /\ CountIn(wire[t], r) \in Nat
      BY NothingSpent
    <3>1. CASE t # s
      <4>1. chan'[t] = chan[t] /\ wire'[t] = wire[t]
        BY <1>t, <2>1, <3>1
      <4>2. Spent(t, r)' = CountIn(chan[t], r) + CountIn(wire[t], r)
        BY <4>1 DEF Spent, CountIn
      <4> QED
        BY <3>0, <4>2 DEF Spent
    <3>2. CASE t = s
      <4> DEFINE h == Head(chan[s])
                 d == IF h = r THEN 1 ELSE 0
      <4>1. chan[s] \in Seq(Reqs) /\ wire[s] \in Seq(Reqs) /\ h \in Reqs
            /\ chan'[s] = Tail(chan[s]) /\ (wire'[s] = wire[s] \/ wire'[s] = Append(wire[s], h))
        BY <1>t, <2>1
      <4>2. CountIn(chan[s], r) = CountIn(Tail(chan[s]), r) + d
        BY <2>1, <4>1, CountTail
      <4>3. CountIn(Append(wire[s], h), r) = CountIn(wire[s], r) + d
        BY <4>1, CountAppend
      <4>4. CountIn(Tail(chan[s]), r) \in Nat /\ d \in {0, 1}
        <5>1. Tail(chan[s]) \in Seq(Reqs)
          BY <2>1, <4>1
        <5> QED
          BY <5>1, CountType
      <4>5. Spent(s, r)' = CountIn(chan'[s], r) + CountIn(wire'[s], r)
        BY DEF Spent, CountIn
      <4> HIDE DEF d, h
      <4>6. \/ Spent(s, r)' = CountIn(Tail(chan[s]), r) + CountIn(wire[s], r)
            \/ Spent(s, r)' = CountIn(Tail(chan[s]), r) + (CountIn(wire[s], r) + d)
        BY <4>1, <4>3, <4>5
      <4> QED
        BY <3>0, <3>2, <4>2, <4>4, <4>6 DEF Spent
    <3> QED
      BY <3>1, <3>2
  <2> QED
    BY <1>1, <2>1, <2>2
<1>3. CASE CloseEvent(s)
  <2>1. /\ chan' = [chan EXCEPT ![s] = <<>>] /\ wire' = wire /\ UNCHANGED requestVars
    BY <1>3 DEF CloseEvent
  <2>2. ASSUME NEW t \in Sids, NEW r \in Reqs PROVE Spent(t, r)' \in Nat /\ Spent(t, r)' <= Spent(t, r)
    <3>0. CountIn(chan[t], r) \in Nat /\ CountIn(wire[t], r) \in Nat
      BY NothingSpent
    <3>1. Spent(t, r)' = CountIn(chan'[t], r) + CountIn(wire[t], r)
      BY <2>1 DEF Spent, CountIn
    <3>2. chan'[t] = chan[t] \/ chan'[t] = <<>>
      BY <1>t, <2>1
    <3>3. CountIn(<<>>, r) = 0
      <4>1. <<>> \in Seq(Reqs)
        OBVIOUS
      <4> QED
        BY <4>1, CountType, HoldsEmpty
    <3> QED
      BY <3>0, <3>1, <3>2, <3>3 DEF Spent
  <2> QED
    BY <1>1, <2>1, <2>2
<1>4. CASE \/ \E u \in Users : AuthenticateStream(s, u)
           \/ RegisterStream(s) \/ Disconnect(s) \/ LeaveLoop(s)
           \/ KeepaliveBlocks(s) \/ WriteFails(s)
  <2>1. UNCHANGED <<chan, wire>> /\ UNCHANGED requestVars
    BY <1>4 DEF AuthenticateStream, RegisterStream, Disconnect, LeaveLoop, KeepaliveBlocks,
                WriteFails
  <2> QED
    BY <2>1, ControlBudget DEF requestVars
<1> QED
  BY <1>2, <1>3, <1>4 DEF StreamStep

\* session.Event <- answer: one answer more, one send less to do.
LEMMA SendBudget ==
    ASSUME IInv, AnswersBudgeted, NEW r \in Reqs, Send(r)
    PROVE  AnswersBudgeted'
<1> DEFINE t == target[r]
<1>1. /\ t \in Sids /\ phase[r] = "answering" /\ left[r] \in 1..2
      /\ chan \in [Sids -> Seq(Reqs)] /\ left \in [Reqs -> 0..2]
  BY DEF IInv, TypeOK, RequestsOwned, Send
<1>2. /\ chan' = [chan EXCEPT ![t] = Append(chan[t], r)] /\ left' = [left EXCEPT ![r] = left[r] - 1]
      /\ \A q \in Reqs : q # r => phase'[q] = phase[q]
      /\ UNCHANGED <<wire, target, kind>>
  BY DEF Send, Sent, IInv, TypeOK
<1>3. SUFFICES ASSUME NEW s \in Sids, NEW q \in Reqs
               PROVE  /\ Spent(s, q)' <= Answers(kind[q])
                      /\ phase'[q] = "answering" /\ target[q] = s =>
                            Spent(s, q)' + left'[q] <= Answers(kind[q])
  BY <1>2 DEF AnswersBudgeted
<1>4. /\ CountIn(chan[s], q) \in Nat /\ CountIn(wire[s], q) \in Nat
      /\ Spent(s, q)' = CountIn(chan'[s], q) + CountIn(wire[s], q)
  BY <1>2, NothingSpent DEF Spent, CountIn
<1>5. Answers(kind[q]) \in 0..2
  BY AnswersType
<1>6. CASE s = t /\ q = r
  <2>1. CountIn(chan'[s], q) = CountIn(chan[s], q) + 1
    <3>1. chan'[s] = Append(chan[s], q) /\ chan[s] \in Seq(Reqs)
      BY <1>1, <1>2, <1>6
    <3> QED
      BY <3>1, CountAppend
  <2>2. Spent(s, q) + left[q] <= Answers(kind[q])
    BY <1>1, <1>6 DEF AnswersBudgeted
  <2>3. left'[q] = left[q] - 1
    BY <1>1, <1>2, <1>6
  <2>4. left[q] \in 1..2
    BY <1>1, <1>6
  <2> HIDE DEF t
  <2> QED
    BY <1>4, <1>5, <2>1, <2>2, <2>3, <2>4 DEF Spent
<1>7. CASE ~(s = t /\ q = r)
  <2>1. CountIn(chan'[s], q) = CountIn(chan[s], q)
    <3>1. CASE s # t
      BY <1>1, <1>2, <3>1
    <3>2. CASE s = t /\ q # r
      <4>1. chan'[s] = Append(chan[s], r) /\ chan[s] \in Seq(Reqs)
        BY <1>1, <1>2, <3>2
      <4>2. CountIn(Append(chan[s], r), q) = CountIn(chan[s], q) + 0
        BY <3>2, <4>1, CountAppend
      <4> QED
        BY <1>4, <4>1, <4>2
    <3> QED
      BY <1>7, <3>1, <3>2
  <2>2. Spent(s, q)' = Spent(s, q)
    BY <1>4, <2>1 DEF Spent
  <2>3. ASSUME phase'[q] = "answering", target[q] = s
        PROVE  phase[q] = "answering" /\ left'[q] = left[q]
    <3>1. q # r
      BY <1>7, <2>3
    <3> QED
      BY <1>1, <1>2, <2>3, <3>1
  <2> QED
    BY <2>2, <2>3 DEF AnswersBudgeted
<1> QED
  BY <1>6, <1>7

\* The other steps: a panic empties every channel, and a goroutine comes to its
\* sends with what its request is owed.
LEMMA RequestBudget ==
    ASSUME IInv, AnswersBudgeted, NEW r \in Reqs, RequestStep(r) \/ ReloadStep(r)
    PROVE  AnswersBudgeted'
<1>t. /\ phase \in [Reqs -> {"idle", "authed", "running", "answering", "finished"}]
      /\ target \in [Reqs -> Sids \cup {None}] /\ kind \in [Reqs -> Kinds \cup {None}]
      /\ left \in [Reqs -> 0..2] /\ wire \in [Sids -> Seq(Reqs)]
  BY DEF IInv, TypeOK
<1>1. CASE SendOnClosed(r)
  <2>1. /\ chan' = [s \in Sids |-> <<>>] /\ UNCHANGED <<wire, kind>>
        /\ \A q \in Reqs : phase'[q] # "answering"
    BY <1>1 DEF SendOnClosed
  <2>2. ASSUME NEW s \in Sids, NEW q \in Reqs PROVE Spent(s, q)' \in Nat /\ Spent(s, q)' <= Spent(s, q)
    <3>0. CountIn(chan[s], q) \in Nat /\ CountIn(wire[s], q) \in Nat
      BY NothingSpent
    <3>1. Spent(s, q)' = CountIn(<<>>, q) + CountIn(wire[s], q)
      BY <2>1 DEF Spent, CountIn
    <3>2. CountIn(<<>>, q) = 0
      <4>1. <<>> \in Seq(Reqs)
        OBVIOUS
      <4> QED
        BY <4>1, CountType, HoldsEmpty
    <3> QED
      BY <3>0, <3>1, <3>2 DEF Spent
  <2> QED
    BY <2>1, <2>2, QuietBudget
<1>2. CASE (\E u \in Users, k \in Kinds : AuthenticateMessage(r, u, k))
           \/ (\E s \in Sids : AcceptMessage(r, s)) \/ RejectMessage(r)
  <2>1. /\ UNCHANGED <<chan, wire, left>>
        /\ phase[r] \in {"idle", "authed", "running"} /\ phase'[r] # "answering"
        /\ \A q \in Reqs : q # r => phase'[q] = phase[q] /\ target'[q] = target[q] /\ kind'[q] = kind[q]
    BY <1>2, <1>t DEF AuthenticateMessage, AcceptMessage, RejectMessage
  <2> QED
    BY <2>1, ControlBudget
<1>3. CASE Process(r) \/ ReloadDenied(r) \/ ReloadInvalid(r) \/ ReloadClose(r)
  <2>1. /\ UNCHANGED <<chan, wire, target, kind>>
        /\ phase[r] = "running" /\ left'[r] = Answers(kind[r])
        /\ \A q \in Reqs : q # r => phase'[q] = phase[q] /\ left'[q] = left[q]
    <3>1. CASE Process(r)
      BY <1>t, <3>1 DEF Process
    <3>2. CASE ReloadDenied(r)
      BY <1>t, <3>2 DEF ReloadDenied, ReloadReturns
    <3>3. CASE ReloadInvalid(r)
      <4>1. reloader = r /\ r # None
        BY <3>3, SessionsAssumption DEF ReloadInvalid
      <4>2. phase[r] = "running" /\ kind[r] = "reload"
        BY <4>1 DEF IInv, ReloadHeld
      <4> QED
        BY <1>t, <3>3, <4>2 DEF ReloadInvalid, ReloadReturns
    <3>4. CASE ReloadClose(r)
      <4>1. reloader = r /\ r # None
        BY <3>4, SessionsAssumption DEF ReloadClose
      <4>2. phase[r] = "running" /\ kind[r] = "reload"
        BY <4>1 DEF IInv, ReloadHeld
      <4> QED
        BY <1>t, <3>4, <4>2 DEF ReloadClose, ReloadReturns
    <3> QED
      BY <1>3, <3>1, <3>2, <3>3, <3>4
  <2> QED
    BY <2>1, ControlBudget
<1>4. CASE (\E n \in [Users -> Gens] : ReloadRead(r, n)) \/ ReloadSwap(r)
  <2>1. UNCHANGED <<chan, wire>> /\ UNCHANGED requestVars
    BY <1>4 DEF ReloadRead, ReloadSwap
  <2> QED
    BY <2>1, ControlBudget DEF requestVars
<1> QED
  BY <1>1, <1>2, <1>3, <1>4, SendBudget DEF RequestStep, ReloadStep

-----------------------------------------------------------------------------
(* The theorems                                                            *)

\* The inductive invariant holds in every reachable state.
THEOREM InductiveInvariant == Spec => []IInv
<1> QED
  BY InitIInv, NextIInv, PTL DEF Spec

\* Every variable keeps its type and no Event channel holds more than its
\* capacity, however handlers, goroutines and reloads interleave.
THEOREM TypeCorrect == Spec => []TypeOK
<1>1. IInv => TypeOK
  BY DEF IInv
<1> QED
  BY <1>1, InductiveInvariant, PTL

\* handleMessage's owner check is enough: whatever reaches a stream answers a
\* request its own user posted to it.
THEOREM OwnersOnly == Spec => []AnswersReachOwner
<1>1. IInv => AnswersReachOwner
  BY DEF IInv, AnswersPlaced, SessionsAuthenticated, AnswersReachOwner
<1> QED
  BY <1>1, InductiveInvariant, PTL

\* closeSessions ends every stream whose token a reload revoked, except one
\* registered after the reload it had authenticated before.
THEOREM RevocationComplete == Spec => []RevokedStreamsClosed
<1>1. IInv => RevokedStreamsClosed
  BY DEF IInv, TokensCurrent, RevokedStreamsClosed
<1> QED
  BY <1>1, InductiveInvariant, PTL

\* closeSessions ends no stream of a user whose token did not change.
THEOREM RevocationPrecise == Spec => []OnlyRevokedClosed
<1>1. IInv => OnlyRevokedClosed
  BY DEF IInv
<1> QED
  BY <1>1, InductiveInvariant, PTL

\* Over all of a session's channel and wire, ProcessJSONRPC never answers a
\* notification and answers anything else once, twice where
\* HandleResourcesRead sends by itself: no interleaving of reloads, closing
\* streams and blocked senders repeats an answer.
THEOREM NoAnswerRepeated == Spec => []NoStrayAnswer
<1>1. Init => AnswersBudgeted
  <2> SUFFICES ASSUME Init PROVE AnswersBudgeted
    OBVIOUS
  <2>1. IInv
    BY InitIInv
  <2>2. \A s \in Sids, r \in Reqs : phase[r] = "idle" /\ Spent(s, r) = 0
    BY <2>1, NothingSpent DEF Init
  <2>3. \A r \in Reqs : Answers(kind[r]) \in 0..2
    BY AnswersType
  <2> QED
    BY <2>2, <2>3 DEF AnswersBudgeted
<1>2. IInv /\ AnswersBudgeted /\ [Next]_vars => AnswersBudgeted'
  <2> SUFFICES ASSUME IInv, AnswersBudgeted, [Next]_vars PROVE AnswersBudgeted'
    OBVIOUS
  <2>1. CASE (\E n \in [Users -> Gens] : Restart(n)) \/ UNCHANGED vars
    <3>1. UNCHANGED <<chan, wire>> /\ UNCHANGED requestVars
      BY <2>1 DEF Restart, vars
    <3> QED
      BY <3>1, ControlBudget DEF requestVars
  <2> QED
    BY <2>1, StreamBudget, RequestBudget DEF Next
<1>3. AnswersBudgeted => NoStrayAnswer
  BY DEF AnswersBudgeted, Spent, NoStrayAnswer
<1> QED
  BY <1>1, <1>2, <1>3, InductiveInvariant, PTL DEF Spec


-----------------------------------------------------------------------------
(*                     Stdio: one client on the standard streams           *)

\* A sent answer is in the channel, with the writer, or written.
Accounted == sent = written \cup Elements(event) \cup ({writing} \ {Nothing})

\* A line that was read is being served, or its answers are sent.
Served ==
    \A l \in Lines \ unread :
        l \in running \/ (main = "sending" /\ bad = l) \/ AnswersTo(l) \subseteq sent

\* Only lines that were read are served and answered.
OnlyRead ==
    /\ running \cap unread = {}
    /\ \A l \in Lines, k \in Nat : <<l, k>> \in sent => l \notin unread

\* The stages of the shutdown.
Stages ==
    /\ closed <=> main \in {"closed", "exited"}
    /\ closed => running = {}
    /\ ended => closed /\ event = <<>> /\ writing = Nothing
    /\ main = "exited" => ended

StdioInv == StdioTypeOK /\ Accounted /\ Served /\ OnlyRead /\ Stages

\* What Owed gives: 0, 1 or 2, and one parse error for a malformed line.
LEMMA OwedType ==
    \A l \in Lines : Owed(l) \in 0..2 /\ (Kind[l] = "malformed" => Owed(l) = 1)
                     /\ (Kind[l] = "blank" => Owed(l) = 0)
  BY StdioAssumption DEF Owed, LineKinds

\* An answer a line is owed is one of its answers, and one of all answers.
LEMMA AnswerIsAnswer ==
    \A l \in Lines, k \in Nat : k \in 1..Owed(l) =>
        <<l, k>> \in AnswersTo(l) /\ <<l, k>> \in AllAnswers /\ <<l, k>> # Nothing
  <1> TAKE l \in Lines, k \in Nat
  <1> HAVE k \in 1..Owed(l)
  <1>1. Owed(l) \in 0..2 BY OwedType
  <1>2. k \in {1, 2} BY <1>1
  <1>3. <<l, k>> # Nothing BY <1>2, StdioAssumption
  <1>4. <<l, k>> \in AnswersTo(l) BY DEF AnswersTo
  <1> QED BY <1>3, <1>4 DEF AllAnswers

\* Every answer is the k-th one of a line, and never None.
LEMMA AnswerForm ==
    \A a \in AllAnswers : a # Nothing /\ \E l \in Lines : \E k \in 1..Owed(l) : a = <<l, k>>
  <1> TAKE a \in AllAnswers
  <1>1. PICK l \in Lines : a \in AnswersTo(l) BY DEF AllAnswers
  <1>2. PICK k \in 1..Owed(l) : a = <<l, k>> BY <1>1 DEF AnswersTo
  <1>3. Owed(l) \in 0..2 BY OwedType
  <1>4. k \in Nat BY <1>3
  <1> QED BY <1>2, <1>4, AnswerIsAnswer

\* What a send adds to the channel and a receive takes from it.
LEMMA AppendElements ==
    ASSUME NEW S, NEW s \in Seq(S), NEW a \in S
    PROVE  /\ Append(s, a) \in Seq(S)
           /\ Len(Append(s, a)) = Len(s) + 1
           /\ Elements(Append(s, a)) = Elements(s) \cup {a}
  <1> DEFINE t == Append(s, a)
  <1>1. t \in Seq(S) /\ Len(t) = Len(s) + 1 /\ DOMAIN t = 1..Len(s) + 1 /\ DOMAIN s = 1..Len(s)
        /\ Len(s) \in Nat
    OBVIOUS
  <1>2. t[Len(s) + 1] = a /\ \A i \in 1..Len(s) : t[i] = s[i]
    OBVIOUS
  <1>3. Elements(t) \subseteq Elements(s) \cup {a}
    BY <1>1, <1>2 DEF Elements
  <1>4. Elements(s) \cup {a} \subseteq Elements(t)
    BY <1>1, <1>2 DEF Elements
  <1> QED BY <1>1, <1>3, <1>4

LEMMA TailElements ==
    ASSUME NEW S, NEW s \in Seq(S), s # <<>>
    PROVE  /\ Tail(s) \in Seq(S)
           /\ Len(Tail(s)) = Len(s) - 1
           /\ Head(s) \in S
           /\ Elements(s) = Elements(Tail(s)) \cup {Head(s)}
  <1> DEFINE t == Tail(s)
  <1>1. t \in Seq(S) /\ Len(t) = Len(s) - 1 /\ DOMAIN t = 1..Len(s) - 1 /\ DOMAIN s = 1..Len(s)
        /\ Len(s) \in Nat /\ Len(s) > 0 /\ Head(s) = s[1] /\ Head(s) \in S
    OBVIOUS
  <1>2. \A i \in 1..Len(s) - 1 : t[i] = s[i + 1]
    OBVIOUS
  <1>3. Elements(t) \cup {Head(s)} \subseteq Elements(s)
    BY <1>1, <1>2 DEF Elements
  <1>4. ASSUME NEW i \in 1..Len(s) PROVE s[i] \in Elements(t) \cup {Head(s)}
    <2>1. CASE i = 1 BY <2>1, <1>1
    <2>2. CASE i # 1
      <3>1. i - 1 \in 1..Len(s) - 1 /\ t[i - 1] = s[i] BY <2>2, <1>1, <1>2
      <3> QED BY <3>1, <1>1 DEF Elements
    <2> QED BY <2>1, <2>2
  <1>5. Elements(s) \subseteq Elements(t) \cup {Head(s)}
    BY <1>4, <1>1 DEF Elements
  <1> QED BY <1>1, <1>3, <1>5

-----------------------------------------------------------------------------
(* The inductive invariant                                                 *)

\* A send of an answer of a line that was read keeps the invariant's parts on
\* the channel, whoever sends.
LEMMA SendKeeps ==
    ASSUME StdioInv, NEW l \in Lines, NEW k \in 1..Owed(l), l \notin unread, SendEvent(<<l, k>>),
           UNCHANGED <<unread, writing, written>>
    PROVE  /\ sent' \subseteq AllAnswers /\ event' \in Seq(AllAnswers) /\ Len(event') <= EventSize
           /\ Accounted'
           /\ \A m \in Lines, j \in Nat : <<m, j>> \in sent' => m \notin unread'
           /\ \A m \in Lines : AnswersTo(m) \subseteq sent => AnswersTo(m) \subseteq sent'
  <1> DEFINE a == <<l, k>>
  <1>1. k \in Nat BY OwedType
  <1>2. a \in AllAnswers BY <1>1, AnswerIsAnswer
  <1>3. /\ event \in Seq(AllAnswers) /\ Len(event) \in Nat /\ EventSize \in Nat
        /\ Len(event) < EventSize /\ event' = Append(event, a) /\ sent' = sent \cup {a}
        /\ sent \subseteq AllAnswers
    BY StdioAssumption DEF StdioInv, StdioTypeOK, SendEvent
  <1> HIDE DEF a
  <1>4. /\ event' \in Seq(AllAnswers) /\ Len(event') = Len(event) + 1
        /\ Elements(event') = Elements(event) \cup {a}
    BY <1>2, <1>3, AppendElements
  <1>5. Accounted' BY <1>3, <1>4 DEF StdioInv, Accounted
  <1>6. \A m \in Lines, j \in Nat : <<m, j>> \in sent' => m \notin unread'
    BY <1>3 DEF StdioInv, OnlyRead, a
  <1> QED BY <1>2, <1>3, <1>4, <1>5, <1>6

LEMMA StdioInitInv == StdioInit => StdioInv
  <1> SUFFICES ASSUME StdioInit PROVE StdioInv OBVIOUS
  <1>1. Elements(<<>>) = {} BY DEF Elements
  <1>2. StdioTypeOK
    <2>1. event \in Seq(AllAnswers) /\ Len(event) = 0 BY DEF StdioInit
    <2>2. Len(event) <= EventSize BY <2>1, StdioAssumption
    <2> QED BY <2>1, <2>2 DEF StdioInit, StdioTypeOK
  <1>3. Accounted BY <1>1 DEF StdioInit, Accounted
  <1>4. Served /\ OnlyRead /\ Stages BY DEF StdioInit, Served, OnlyRead, Stages
  <1> QED BY <1>2, <1>3, <1>4 DEF StdioInv

LEMMA StdioStepInv == StdioInv /\ [StdioNext]_stdioVars => StdioInv'
  <1> SUFFICES ASSUME StdioInv, [StdioNext]_stdioVars PROVE StdioInv' OBVIOUS
  <1> USE DEF StdioInv
  <1>1. ASSUME NEW l \in Lines, Scan(l) PROVE StdioInv'
    <2>1. /\ main = "reading" /\ l \in unread /\ unread' = unread \ {l}
          /\ UNCHANGED <<sent, event, closed, writing, written, ended>>
      BY <1>1 DEF Scan
    <2>2. Accounted' BY <2>1 DEF Accounted
    <2>3. CASE Kind[l] = "blank"
      <3>1. UNCHANGED <<main, bad, running>> BY <1>1, <2>3 DEF Scan
      <3>2. AnswersTo(l) = {} BY <2>3, OwedType DEF AnswersTo
      <3>3. Served' BY <2>1, <3>1, <3>2 DEF Served
      <3>4. StdioTypeOK' BY <2>1, <3>1 DEF StdioTypeOK
      <3> QED BY <2>1, <2>2, <3>1, <3>3, <3>4 DEF OnlyRead, Stages
    <2>4. CASE Kind[l] = "malformed"
      <3>1. main' = "sending" /\ bad' = l /\ running' = running
        BY <1>1, <2>4 DEF Scan
      <3>2. StdioTypeOK' BY <2>1, <2>4, <3>1 DEF StdioTypeOK
      <3>3. Served' BY <2>1, <3>1 DEF Served
      <3> QED BY <2>1, <2>2, <3>1, <3>2, <3>3 DEF OnlyRead, Stages
    <2>5. CASE Kind[l] \notin {"blank", "malformed"}
      <3>1. running' = running \cup {l} /\ UNCHANGED <<main, bad>>
        BY <1>1, <2>5 DEF Scan
      <3>2. StdioTypeOK' BY <2>1, <3>1 DEF StdioTypeOK
      <3>3. Served' BY <2>1, <3>1 DEF Served
      <3> QED BY <2>1, <2>2, <3>1, <3>2, <3>3 DEF OnlyRead, Stages
    <2> QED BY <2>3, <2>4, <2>5
  <1>2. ASSUME SendParseError PROVE StdioInv'
    <2>1. /\ main = "sending" /\ SendEvent(<<bad, 1>>) /\ main' = "reading" /\ bad' = Nothing
          /\ UNCHANGED <<unread, running, closed, writing, written, ended>>
      BY <1>2 DEF SendParseError
    <2>2. bad \in Lines /\ bad \notin unread /\ Kind[bad] = "malformed"
      BY <2>1 DEF StdioTypeOK
    <2>3. Owed(bad) = 1 /\ 1 \in 1..Owed(bad) BY <2>2, OwedType
    <2>4. /\ sent' \subseteq AllAnswers /\ event' \in Seq(AllAnswers) /\ Len(event') <= EventSize
          /\ Accounted'
          /\ \A m \in Lines, j \in Nat : <<m, j>> \in sent' => m \notin unread'
          /\ \A m \in Lines : AnswersTo(m) \subseteq sent => AnswersTo(m) \subseteq sent'
      BY <2>1, <2>2, <2>3, SendKeeps
    <2>5. AnswersTo(bad) \subseteq sent'
      BY <2>1, <2>3 DEF SendEvent, AnswersTo
    <2>6. StdioTypeOK' BY <2>1, <2>4 DEF StdioTypeOK
    <2>7. Served' BY <2>1, <2>4, <2>5 DEF Served
    <2> QED BY <2>1, <2>4, <2>6, <2>7 DEF OnlyRead, Stages
  <1>3. ASSUME EndOfInput PROVE StdioInv'
    BY <1>3 DEF EndOfInput, StdioTypeOK, Accounted, Served, OnlyRead, Stages
  <1>4. ASSUME CloseOutput PROVE StdioInv'
    BY <1>4 DEF CloseOutput, StdioTypeOK, Accounted, Served, OnlyRead, Stages
  <1>5. ASSUME Exit PROVE StdioInv'
    BY <1>5 DEF Exit, StdioTypeOK, Accounted, Served, OnlyRead, Stages
  <1>6. ASSUME NEW l \in Lines, NEW k \in 1..2, Respond(l, k) PROVE StdioInv'
    <2>1. /\ l \in running /\ k \in 1..Owed(l) /\ SendEvent(<<l, k>>)
          /\ UNCHANGED <<unread, main, bad, running, closed, writing, written, ended>>
      BY <1>6 DEF Respond
    <2>2. l \notin unread BY <2>1 DEF OnlyRead
    <2>3. /\ sent' \subseteq AllAnswers /\ event' \in Seq(AllAnswers) /\ Len(event') <= EventSize
          /\ Accounted'
          /\ \A m \in Lines, j \in Nat : <<m, j>> \in sent' => m \notin unread'
          /\ \A m \in Lines : AnswersTo(m) \subseteq sent => AnswersTo(m) \subseteq sent'
      BY <2>1, <2>2, SendKeeps
    <2>4. StdioTypeOK' BY <2>1, <2>3 DEF StdioTypeOK
    <2>5. Served' BY <2>1, <2>3 DEF Served
    <2>6. ~closed BY <2>1 DEF Stages
    <2> QED BY <2>1, <2>3, <2>4, <2>5, <2>6 DEF OnlyRead, Stages
  <1>7. ASSUME NEW l \in Lines, Done(l) PROVE StdioInv'
    BY <1>7 DEF Done, StdioTypeOK, Accounted, Served, OnlyRead, Stages
  <1>8. ASSUME Receive PROVE StdioInv'
    <2>1. /\ writing = Nothing /\ event # <<>> /\ writing' = Head(event) /\ event' = Tail(event)
          /\ UNCHANGED <<unread, main, bad, running, sent, closed, written, ended>>
      BY <1>8 DEF Receive
    <2>2. event \in Seq(AllAnswers) BY DEF StdioTypeOK
    <2>3. /\ event' \in Seq(AllAnswers) /\ Len(event') = Len(event) - 1
          /\ writing' \in AllAnswers
          /\ Elements(event) = Elements(event') \cup {writing'}
      BY <2>1, <2>2, TailElements
    <2>4. writing' # Nothing BY <2>3, AnswerForm
    <2>5. StdioTypeOK' 
      <3>1. Len(event') <= EventSize BY <2>2, <2>3, StdioAssumption DEF StdioTypeOK
      <3> QED BY <2>1, <2>3, <3>1 DEF StdioTypeOK
    <2>6. Accounted' BY <2>1, <2>3, <2>4 DEF Accounted
    <2>7. ~ended BY <2>1 DEF Stages
    <2> QED BY <2>1, <2>5, <2>6, <2>7 DEF Served, OnlyRead, Stages
  <1>9. ASSUME Write PROVE StdioInv'
    <2>1. /\ writing # Nothing /\ written' = written \cup {writing} /\ writing' = Nothing
          /\ UNCHANGED <<unread, main, bad, running, sent, event, closed, ended>>
      BY <1>9 DEF Write
    <2>2. StdioTypeOK' BY <2>1 DEF StdioTypeOK
    <2>3. Accounted' BY <2>1 DEF Accounted
    <2> QED BY <2>1, <2>2, <2>3 DEF Served, OnlyRead, Stages
  <1>10. ASSUME WriterEnds PROVE StdioInv'
    BY <1>10 DEF WriterEnds, StdioTypeOK, Accounted, Served, OnlyRead, Stages
  <1>11. ASSUME UNCHANGED stdioVars PROVE StdioInv'
    BY <1>11 DEF stdioVars, StdioTypeOK, Accounted, Served, OnlyRead, Stages
  <1> QED
    BY <1>1, <1>2, <1>3, <1>4, <1>5, <1>6, <1>7, <1>8, <1>9, <1>10, <1>11
    DEF StdioNext, Main, Serve, Writer, Terminated

\* The shutdown and the bookkeeping of serveStdio hold in every reachable state.
THEOREM StdioInvariant == StdioSpec => []StdioInv
  BY StdioInitInv, StdioStepInv, PTL DEF StdioSpec

\* The channel never holds more than its capacity, for any capacity and input.
THEOREM StdioTypeCorrect == StdioSpec => []StdioTypeOK
  <1>1. StdioInv => StdioTypeOK BY DEF StdioInv
  <1> QED BY <1>1, StdioInvariant, PTL

\* Once session.Event is closed nobody can still send on it (stdio.go:164-165).
THEOREM StdioCloseIsSafe == StdioSpec => []NoSendAfterClose
  <1>1. StdioInv => NoSendAfterClose BY DEF StdioInv, Stages, NoSendAfterClose
  <1> QED BY <1>1, StdioInvariant, PTL

\* In a state where serveStdio has returned nothing is left in the channel.
LEMMA FlushedAtExit == StdioInv => ExitFlushesAll
  <1> SUFFICES ASSUME StdioInv, main = "exited", NEW l \in Lines \ unread
               PROVE AnswersTo(l) \subseteq written
    BY DEF ExitFlushesAll
  <1>1. event = <<>> /\ writing = Nothing /\ running = {} BY DEF StdioInv, Stages
  <1>2. Elements(event) = {} BY <1>1 DEF Elements
  <1>3. sent = written BY <1>1, <1>2 DEF StdioInv, Accounted
  <1>4. AnswersTo(l) \subseteq sent BY <1>1 DEF StdioInv, Served
  <1> QED BY <1>3, <1>4

\* When serveStdio returns, every answer to every line it read is written.
THEOREM StdioExitFlushesAll == StdioSpec => []ExitFlushesAll
  BY FlushedAtExit, StdioInvariant, PTL

-----------------------------------------------------------------------------
(* Stdio implements Answering                                              *)

\* Every step of Stdio is a step of Answering or leaves it alone.
LEMMA StepRefines == StdioInv /\ [StdioNext]_stdioVars => [Promise!Next]_(Promise!vars)
  <1> SUFFICES ASSUME StdioInv, [StdioNext]_stdioVars PROVE [Promise!Next]_(Promise!vars) OBVIOUS
  <1> USE DEF Promise!vars
  <1>1. ASSUME NEW l \in Lines, Scan(l) PROVE Promise!Read(l)
    BY <1>1 DEF Scan, Promise!Read, StdioInv, StdioTypeOK
  <1>2. ASSUME Write PROVE [Promise!Next]_(Promise!vars)
    <2>1. /\ writing # Nothing /\ written' = written \cup {writing}
          /\ UNCHANGED <<unread, main>>
      BY <1>2 DEF Write
    <2>2. writing \in AllAnswers /\ writing \in sent
      BY <2>1 DEF StdioInv, StdioTypeOK, Accounted
    <2>3. PICK l \in Lines : \E k \in 1..Owed(l) : writing = <<l, k>>
      BY <2>2, AnswerForm
    <2>4. PICK k \in 1..Owed(l) : writing = <<l, k>> BY <2>3
    <2>5. k \in Nat BY OwedType
    <2>6. l \notin unread BY <2>2, <2>4, <2>5 DEF StdioInv, OnlyRead
    <2>7. main # "exited" BY <2>1 DEF StdioInv, Stages
    <2>8. CASE writing \in written BY <2>1, <2>8
    <2>9. CASE writing \notin written
      <3>1. Promise!Answer(l, k)
        BY <2>1, <2>4, <2>6, <2>7, <2>9 DEF Promise!Answer
      <3> QED BY <3>1 DEF Promise!Next
    <2> QED BY <2>8, <2>9
  <1>3. ASSUME Exit PROVE Promise!Stop
    <2>1. /\ main = "closed" /\ ended /\ main' = "exited" /\ UNCHANGED <<unread, written>>
      BY <1>3 DEF Exit
    <2>2. event = <<>> /\ writing = Nothing /\ running = {} BY <2>1 DEF StdioInv, Stages
    <2>3. Elements(event) = {} BY <2>2 DEF Elements
    <2>4. sent = written BY <2>2, <2>3 DEF StdioInv, Accounted
    <2>5. \A l \in Lines \ unread : AnswersTo(l) \subseteq written
      BY <2>1, <2>2, <2>4 DEF StdioInv, Served
    <2> QED BY <2>1, <2>5 DEF Promise!Stop, Promise!Answers, AnswersTo
  <1>4. ASSUME SendParseError \/ CloseOutput \/ EndOfInput \/ Receive \/ WriterEnds
               \/ (\E l \in Lines : (\E k \in 1..2 : Respond(l, k)) \/ Done(l))
        PROVE UNCHANGED Promise!vars
    BY <1>4 DEF SendParseError, CloseOutput, EndOfInput, Receive, WriterEnds, Respond, Done,
                StdioInv, Stages
  <1>5. ASSUME UNCHANGED stdioVars PROVE UNCHANGED Promise!vars
    BY <1>5 DEF stdioVars
  <1> QED
    BY <1>1, <1>2, <1>3, <1>4, <1>5
    DEF StdioNext, Main, Serve, Writer, Terminated, Promise!Next

\* serveStdio with its goroutines, channel and writer implements Answering:
\* exactly the answers owed, and no exit before all are written.
THEOREM StdioImplementsAnswering == StdioSpec => KeepsPromise
  <1>1. StdioInit => Promise!Init BY DEF StdioInit, Promise!Init
  <1>2. StdioInv /\ [StdioNext]_stdioVars => [Promise!Next]_(Promise!vars) BY StepRefines
  <1> QED BY <1>1, <1>2, StdioInvariant, PTL DEF StdioSpec, KeepsPromise, Promise!Spec

-----------------------------------------------------------------------------
(*                     Client: linuxctl                                    *)

\* What main calls, what comes back, and where main can be.
ListNames == {"tools/list", "resources/list", "resources/templates/list"}
Methods == ListNames \cup {"resources/read", "prompts/list", "initialize", "tools/call"}
Results == {"ok", "error", "isError"}
Messages == [name : {"message"}, id : Nat, outcome : Results]
Events == [name : {"endpoint"}] \cup Messages
Stations == {"start", "dial", "await", "call", "post", "wait", "plan", "editor", "leave", "emit",
             "saved", "blocked", "bridge", "posting", "done"}

\* Every variable the invariant is about has its type.
ClientTyped ==
    /\ cmd \in CommandKinds /\ line \in Commands \cup {NoLine}
    /\ pc \in Stations /\ exit \in {"running", "0", "1"}
    /\ idCounter \in Nat /\ planned \in Nat
    /\ todo \in Seq(Methods) /\ (planned = 0 => todo \in Seq(ListNames))
    /\ answers \in Seq([id : Nat, method : Methods, outcome : Results])
    /\ lists \subseteq ListNames
    /\ events \in Seq(Events) /\ got \subseteq Messages
    /\ chans \subseteq 1..idCounter /\ requests \subseteq Nat

\* An answer on its way was sent, and a request is with the daemon once.
OnItsWay ==
    /\ requests \cap answered = {}
    /\ \A k \in 1..Len(events) : events[k].name = "message" => events[k].id \in answered
    /\ \A ev \in got : ev.id \in answered

\* main has at most one request open, the last one, and only while it waits.
OneAtATime ==
    cmd # "stdio" /\ Running =>
        /\ requests \subseteq {idCounter}
        /\ requests # {} => pc \in {"post", "wait"}
        /\ pc \in {"post", "wait"} => todo # <<>> /\ Len(answers) + 1 = idCounter
        /\ pc \notin {"post", "wait"} => Len(answers) = idCounter

\* Which kind of command comes to which place.
Roles ==
    /\ Running <=> pc # "done"
    /\ pc \in {"bridge", "posting"} => cmd = "stdio"
    /\ pc \in {"call", "post", "wait", "plan", "editor", "leave", "saved"} => cmd # "stdio"
    /\ cmd = "stdio" => answers = <<>>
    /\ emitting \/ timer = "armed" \/ pc = "saved" => cmd = "complete"

\* The commands whose status 0 tells something.
Telling == {"tool", "resource", "verb", "info"}

\* The last answer is what status 0 says it is.
LastFits ==
    /\ answers # <<>>
    /\ \/ Last(answers).outcome = "ok"
       \/ planned > 1 /\ Last(answers).method = "resources/read"

\* Before it exits with 0 the answers are as they should be.
AboutToTell ==
    /\ \A k \in 1..Len(answers) : answers[k].id = k
    /\ cmd \in Telling /\ pc \in {"leave", "editor"} => LastFits
    /\ cmd \in Telling /\ exit = "0" => LastFits /\ Len(answers) = idCounter

\* The inductive invariant of linuxctl.
ClientInv == ClientTyped /\ OnItsWay /\ OneAtATime /\ Roles /\ AboutToTell

\* A process that has just started satisfies the invariant.
LEMMA ClientInitInv == ClientInit => ClientInv
<1> SUFFICES ASSUME ClientInit PROVE ClientInv OBVIOUS
<1>1. cmd \in CommandKinds /\ line \in Commands \cup {NoLine}
  BY CommandsAssumption DEF ClientInit, CommandLines
<1>2. ClientTyped BY <1>1 DEF ClientInit, ClientTyped, Stations
<1>3. OnItsWay /\ OneAtATime /\ Roles BY DEF ClientInit, OnItsWay, OneAtATime, Roles, Running
<1>4. AboutToTell BY DEF ClientInit, AboutToTell
<1> QED BY <1>2, <1>3, <1>4 DEF ClientInv

\* os.Exit keeps it: status 0 is for those whose answers fit, or tell nothing.
LEMMA ExitKeeps ==
    ASSUME ClientInv, NEW status \in {"0", "1"}, OsExit(status), Running,
           status = "0" /\ cmd \in Telling => LastFits /\ Len(answers) = idCounter
    PROVE  ClientInv'
<1>1. ClientTyped' BY DEF ClientInv, ClientTyped, OsExit, daemon, Stations
<1>2. OnItsWay' BY DEF ClientInv, OnItsWay, OsExit, daemon
<1>3. OneAtATime' /\ Roles' BY DEF ClientInv, OneAtATime, Roles, OsExit, Running, daemon
<1>4. AboutToTell' BY DEF ClientInv, AboutToTell, OsExit, LastFits, daemon
<1> QED BY <1>1, <1>2, <1>3, <1>4 DEF ClientInv

\* FailStatus is 1 for the commands that tell something.
LEMMA FailTells == FailStatus \in {"0", "1"} /\ (cmd \in Telling => FailStatus = "1")
  BY DEF FailStatus, Telling

\* Every step that ends in os.Exit: of a timer, of the stream, of main.
LEMMA ExitSteps ==
    ASSUME ClientInv,
           \/ EmitExit \/ EndedBeforeReady \/ ConnectTimeout \/ PostFails \/ SessionEnds
           \/ CallTimeout \/ Leave \/ BridgeEOF
    PROVE  ClientInv'
<1>1. CASE EmitExit
  BY <1>1, ExitKeeps DEF EmitExit, ClientInv, Roles, Telling
<1>2. CASE BridgeEOF
  BY <1>2, ExitKeeps DEF BridgeEOF, ClientInv, Roles, Telling
<1>3. CASE Leave
  <2>1. cmd \in Telling => LastFits /\ Len(answers) = idCounter
    BY <1>3 DEF Leave, ClientInv, AboutToTell, OneAtATime, Roles, Telling
  <2> QED BY <1>3, <2>1, ExitKeeps DEF Leave
<1>4. CASE EndedBeforeReady \/ ConnectTimeout \/ PostFails \/ SessionEnds \/ CallTimeout
  BY <1>4, ExitKeeps, FailTells
     DEF EndedBeforeReady, ConnectTimeout, PostFails, SessionEnds, CallTimeout
<1> QED BY <1>1, <1>2, <1>3, <1>4

\* A step that only moves main, or changes what the invariant is not about.
LEMMA PlainSteps ==
    ASSUME ClientInv,
           \/ CompletionTimeout \/ StartCompletion \/ FinishCompletion \/ EmitFetched
           \/ ReadWords \/ PrintCatalog \/ Accepted \/ BridgeLine \/ BridgePosted \/ StreamEnds
    PROVE  ClientInv'
<1>1. CASE CompletionTimeout
  <2>1. Running /\ timer = "armed" /\ Emit({}) /\ UNCHANGED pc /\ timer' = "fired"
    BY <1>1 DEF CompletionTimeout
  <2>2. ClientTyped' BY <2>1 DEF ClientInv, ClientTyped, Emit, daemon
  <2>3. OnItsWay' BY <2>1 DEF ClientInv, OnItsWay, Emit, daemon
  <2>4. OneAtATime' /\ Roles' BY <2>1 DEF ClientInv, OneAtATime, Roles, Emit, Running, daemon
  <2>5. AboutToTell' BY <2>1 DEF ClientInv, AboutToTell, LastFits, Emit, daemon
  <2> QED BY <2>2, <2>3, <2>4, <2>5 DEF ClientInv
<1>2. CASE StartCompletion
  <2>0. ToSet(Lists) \subseteq ListNames BY DEF Lists, ListNames, ToSet
  <2>1. /\ Running /\ pc = "start" /\ cmd = "complete" /\ pc' \in {"emit", "dial"}
        /\ UNCHANGED <<cmd, line, todo, planned, idCounter, answers, chans, got, exit, daemon>>
        /\ lists' \in {ToSet(Lists), lists}
    BY <1>2 DEF StartCompletion, Emit
  <2>2. ClientTyped' BY <2>0, <2>1 DEF ClientInv, ClientTyped, Stations, daemon
  <2>3. OnItsWay' BY <2>1 DEF ClientInv, OnItsWay, daemon
  <2>4. OneAtATime' /\ Roles' BY <2>1 DEF ClientInv, OneAtATime, Roles, Running, daemon
  <2>5. AboutToTell' BY <2>1 DEF ClientInv, AboutToTell, LastFits, Telling, Roles, Running
  <2> QED BY <2>2, <2>3, <2>4, <2>5 DEF ClientInv
<1>3. CASE FinishCompletion \/ EmitFetched
  <2>1. /\ Running /\ pc \in {"plan", "saved"} /\ cmd = "complete" /\ pc' \in {"blocked", "saved", "emit"}
        /\ UNCHANGED <<cmd, line, todo, planned, idCounter, answers, lists, chans, got, exit, daemon>>
    BY <1>3 DEF FinishCompletion, EmitFetched, Emit, ClientInv, Roles
  <2>2. ClientTyped' BY <2>1 DEF ClientInv, ClientTyped, Stations, daemon
  <2>3. OnItsWay' BY <2>1 DEF ClientInv, OnItsWay, daemon
  <2>4. OneAtATime' /\ Roles' BY <2>1 DEF ClientInv, OneAtATime, Roles, Running, daemon
  <2>5. AboutToTell' BY <2>1 DEF ClientInv, AboutToTell, LastFits, Telling, Roles, Running
  <2> QED BY <2>2, <2>3, <2>4, <2>5 DEF ClientInv
<1>4. CASE ReadWords \/ PrintCatalog
  <2>1. /\ Running /\ pc = "plan" /\ line' \in CommandLines \cup {line}
        /\ \/ pc' = pc
           \/ pc' = "leave" /\ cmd \in {"tools", "explain"}
        /\ UNCHANGED <<cmd, todo, planned, idCounter, answers, lists, chans, got, timer, emitting,
                       exit, daemon>>
    BY <1>4 DEF ReadWords, PrintCatalog
  <2>2. ClientTyped' BY <2>1 DEF ClientInv, ClientTyped, Stations, CommandLines, daemon
  <2>3. OnItsWay' BY <2>1 DEF ClientInv, OnItsWay, daemon
  <2>4. OneAtATime' /\ Roles' BY <2>1 DEF ClientInv, OneAtATime, Roles, Running, daemon
  <2>5. AboutToTell' BY <2>1 DEF ClientInv, AboutToTell, LastFits, Telling, Roles, Running
  <2> QED BY <2>2, <2>3, <2>4, <2>5 DEF ClientInv
<1>5. CASE Accepted
  <2>1. /\ Running /\ pc = "post" /\ pc' = "wait"
        /\ UNCHANGED <<cmd, line, todo, planned, idCounter, answers, lists, chans, got, timer, emitting,
                       exit, daemon>>
    BY <1>5 DEF Accepted
  <2>2. ClientTyped' BY <2>1 DEF ClientInv, ClientTyped, Stations, daemon
  <2>3. OnItsWay' BY <2>1 DEF ClientInv, OnItsWay, daemon
  <2>4. OneAtATime' /\ Roles' BY <2>1 DEF ClientInv, OneAtATime, Roles, Running, daemon
  <2>5. AboutToTell' BY <2>1 DEF ClientInv, AboutToTell, LastFits, Roles, Running
  <2> QED BY <2>2, <2>3, <2>4, <2>5 DEF ClientInv
<1>6. CASE BridgeLine \/ BridgePosted
  <2>1. /\ Running /\ pc \in {"bridge", "posting"} /\ pc' \in {"bridge", "posting"}
        /\ idCounter' \in {idCounter, idCounter + 1}
        /\ UNCHANGED <<cmd, line, todo, planned, answers, lists, chans, got, timer, emitting, exit, daemon>>
    BY <1>6 DEF BridgeLine, BridgePosted
  <2>2. ClientTyped' BY <2>1 DEF ClientInv, ClientTyped, Stations, daemon
  <2>3. OnItsWay' BY <2>1 DEF ClientInv, OnItsWay, daemon
  <2>4. OneAtATime' /\ Roles' BY <2>1 DEF ClientInv, OneAtATime, Roles, Running, daemon
  <2>5. AboutToTell' BY <2>1 DEF ClientInv, AboutToTell, LastFits, Telling, Roles, Running
  <2> QED BY <2>2, <2>3, <2>4, <2>5 DEF ClientInv
<1>7. CASE StreamEnds
  <2>1. UNCHANGED <<mainVars, chans, got, timer, emitting, exit, daemon>> BY <1>7 DEF StreamEnds
  <2>2. ClientTyped' BY <2>1 DEF ClientInv, ClientTyped, mainVars, daemon
  <2>3. OnItsWay' BY <2>1 DEF ClientInv, OnItsWay, daemon
  <2>4. OneAtATime' /\ Roles' BY <2>1 DEF ClientInv, OneAtATime, Roles, Running, mainVars, daemon
  <2>5. AboutToTell' BY <2>1 DEF ClientInv, AboutToTell, LastFits, mainVars
  <2> QED BY <2>2, <2>3, <2>4, <2>5 DEF ClientInv
<1> QED BY <1>1, <1>2, <1>3, <1>4, <1>5, <1>6, <1>7

\* The calls main makes are methods, and a list of them first where it needs the registry.
LEMMA CallsTyped ==
    ASSUME cmd \in CommandKinds
    PROVE  /\ OwnCalls \in Seq(Methods)
           /\ NeedsRegistry => OwnCalls \in Seq(ListNames)
           /\ ~NeedsRegistry => Len(OwnCalls) \in Nat /\ (Len(OwnCalls) = 0 => OwnCalls \in Seq(ListNames))
<1>1. Lists \in Seq(ListNames) /\ Lists \in Seq(Methods) /\ Len(Lists) = 3
  BY DEF Lists, ListNames, Methods
<1>2. SubSeq(Lists, 2, 3) \in Seq(Methods) /\ Len(SubSeq(Lists, 2, 3)) = 2
  <2>1. \A q \in Seq(Methods) : Len(q) = 3 => SubSeq(q, 2, 3) \in Seq(Methods) /\ Len(SubSeq(q, 2, 3)) = 2
    OBVIOUS
  <2> QED BY <1>1, <2>1
<1>3. CASE NeedsRegistry
  <2>1. OwnCalls = Lists BY <1>3 DEF OwnCalls, NeedsRegistry
  <2> QED BY <1>1, <1>3, <2>1
<1>4. CASE cmd = "resources"
  BY <1>2, <1>4 DEF OwnCalls, NeedsRegistry
<1>5. CASE cmd \in {"ping", "stdio"}
  <2>1. OwnCalls = <<>> BY <1>5 DEF OwnCalls
  <2> QED BY <1>5, <2>1 DEF NeedsRegistry
<1>6. CASE cmd \in {"resource", "prompts", "info", "mcpd"}
  <2>1. PICK m \in Methods : OwnCalls = <<m>> BY <1>6 DEF OwnCalls, Methods
  <2>2. <<m>> \in Seq(Methods) /\ Len(<<m>>) = 1 OBVIOUS
  <2> QED BY <1>6, <2>1, <2>2 DEF NeedsRegistry
<1> QED BY <1>3, <1>4, <1>5, <1>6 DEF NeedsRegistry, CommandKinds

\* Before the first call: no token, GET /sse, the endpoint.
LEMMA ConnectSteps ==
    ASSUME ClientInv, Start \/ Dial \/ TakeEndpoint
    PROVE  ClientInv'
<1>1. CASE (Start \/ Dial) /\ OsExit(FailStatus)
  BY <1>1, ExitKeeps, FailTells DEF Start, Dial
<1>2. CASE (Start \/ Dial) /\ ~OsExit(FailStatus)
  <2>1. /\ Running /\ pc \in {"start", "dial"} /\ pc' \in {"dial", "await"}
        /\ UNCHANGED <<cmd, line, todo, planned, idCounter, answers, lists, chans, got, timer, emitting,
                       exit, daemon>>
    BY <1>2 DEF Start, Dial
  <2>2. ClientTyped' BY <2>1 DEF ClientInv, ClientTyped, Stations, daemon
  <2>3. OnItsWay' BY <2>1 DEF ClientInv, OnItsWay, daemon
  <2>4. OneAtATime' /\ Roles' BY <2>1 DEF ClientInv, OneAtATime, Roles, Running, daemon
  <2>5. AboutToTell' BY <2>1 DEF ClientInv, AboutToTell, LastFits, Roles, Running
  <2> QED BY <2>2, <2>3, <2>4, <2>5 DEF ClientInv
<1>3. CASE TakeEndpoint
  <2>1. /\ Running /\ pc = "await" /\ todo' = OwnCalls
        /\ planned' = IF NeedsRegistry THEN 0 ELSE Len(OwnCalls)
        /\ pc' = CASE cmd = "ping" -> "leave" [] cmd = "stdio" -> "bridge" [] OTHER -> "call"
        /\ UNCHANGED <<cmd, line, idCounter, answers, lists, chans, got, timer, emitting, exit, daemon>>
    BY <1>3 DEF TakeEndpoint
  <2>2. /\ OwnCalls \in Seq(Methods) /\ planned' \in Nat
        /\ planned' = 0 => OwnCalls \in Seq(ListNames)
    BY <2>1, CallsTyped DEF ClientInv, ClientTyped
  <2>3. /\ cmd = "ping" => pc' = "leave"
        /\ cmd = "stdio" => pc' = "bridge"
        /\ cmd \notin {"ping", "stdio"} => pc' = "call"
    BY <2>1
  <2>4. ClientTyped' BY <2>1, <2>2, <2>3 DEF ClientInv, ClientTyped, Stations, daemon
  <2>5. OnItsWay' BY <2>1 DEF ClientInv, OnItsWay, daemon
  <2>6. OneAtATime' /\ Roles' BY <2>1, <2>3 DEF ClientInv, OneAtATime, Roles, Running, daemon
  <2>7. AboutToTell' BY <2>1, <2>3 DEF ClientInv, AboutToTell, LastFits, Telling, Roles, Running
  <2> QED BY <2>4, <2>5, <2>6, <2>7 DEF ClientInv
<1> QED BY <1>1, <1>2, <1>3

\* A command that begins its calls.
LEMMA BeginKeeps ==
    ASSUME ClientInv, NEW calls \in Seq(Methods), calls # <<>>, NEW a, Begin(calls, a),
           Running, pc = "plan"
    PROVE  ClientInv'
<1>0. Len(calls) \in Nat \ {0} OBVIOUS
<1>1. /\ todo' = calls /\ planned' = Len(calls) /\ pc' = "call"
      /\ UNCHANGED <<cmd, line, idCounter, answers, lists, chans, got, timer, emitting, exit, daemon>>
  BY DEF Begin
<1>2. ClientTyped' BY <1>0, <1>1 DEF ClientInv, ClientTyped, Stations, daemon
<1>3. OnItsWay' BY <1>1 DEF ClientInv, OnItsWay, daemon
<1>4. OneAtATime' /\ Roles' BY <1>1 DEF ClientInv, OneAtATime, Roles, Running, daemon
<1>5. AboutToTell' BY <1>1 DEF ClientInv, AboutToTell, Roles, Running
<1> QED BY <1>2, <1>3, <1>4, <1>5 DEF ClientInv

\* A verb or a tool by its name: an error, or the calls it makes.
LEMMA RunSteps ==
    ASSUME ClientInv, RunVerb \/ RunToolByName
    PROVE  ClientInv'
<1>1. <<"tools/call">> \in Seq(Methods) /\ <<"tools/call">> # <<>>
      /\ <<"resources/read">> \in Seq(Methods) /\ <<"resources/read">> # <<>>
      /\ <<"tools/call", "tools/call">> \in Seq(Methods) /\ <<"tools/call", "tools/call">> # <<>>
  BY DEF Methods
<1>2. ASSUME NEW uri PROVE /\ [k \in 1..DescribeParts(uri) |-> "resources/read"] \in Seq(Methods)
                           /\ [k \in 1..DescribeParts(uri) |-> "resources/read"] # <<>>
  <2>1. DescribeParts(uri) \in {1, 2, 3} BY DEF DescribeParts
  <2> DEFINE n == DescribeParts(uri)
  <2>2. n \in Nat /\ n >= 1 BY <2>1
  <2> HIDE DEF n
  <2>3. [k \in 1..n |-> "resources/read"] \in [1..n -> Methods] BY DEF Methods
  <2>4. [k \in 1..n |-> "resources/read"] \in Seq(Methods) BY <2>2, <2>3
  <2>5. Len([k \in 1..n |-> "resources/read"]) = n BY <2>2
  <2>6. [k \in 1..n |-> "resources/read"] # <<>> BY <2>2, <2>5
  <2> QED BY <2>4, <2>6 DEF n
<1>3. CASE RunVerb
  <2> DEFINE four == [k \in 1..DescribeParts(Action.item) |-> "resources/read"]
  <2>1. four \in Seq(Methods) /\ four # <<>> BY <1>2
  <2>2. Running /\ pc = "plan" BY <1>3 DEF RunVerb
  <2>3. \/ OsExit("1")
        \/ \E calls \in Seq(Methods) : \E a : calls # <<>> /\ Begin(calls, a)
    BY <1>1, <2>1, <1>3 DEF RunVerb
  <2> QED BY <2>2, <2>3, ExitKeeps, BeginKeeps
<1>4. CASE RunToolByName
  <2>1. Running /\ pc = "plan" BY <1>4 DEF RunToolByName
  <2>2. OsExit("1") \/ \E calls \in Seq(Methods) : \E a : calls # <<>> /\ Begin(calls, a)
    BY <1>1, <1>4 DEF RunToolByName
  <2> QED BY <2>1, <2>2, ExitKeeps, BeginKeeps
<1> QED BY <1>3, <1>4

\* editCrontab between its two calls.
LEMMA EditorStep == ASSUME ClientInv, Editor PROVE ClientInv'
<1>1. CASE OsExit("1") BY <1>1, ExitKeeps DEF Editor
<1>2. CASE ~OsExit("1")
  <2>1. /\ Running /\ pc = "editor" /\ pc' \in {"leave", "call"}
        /\ UNCHANGED <<cmd, line, todo, planned, idCounter, answers, lists, chans, got, timer, emitting,
                       exit, daemon>>
    BY <1>2 DEF Editor
  <2>2. ClientTyped' BY <2>1 DEF ClientInv, ClientTyped, Stations, daemon
  <2>3. OnItsWay' BY <2>1 DEF ClientInv, OnItsWay, daemon
  <2>4. OneAtATime' /\ Roles' BY <2>1 DEF ClientInv, OneAtATime, Roles, Running, daemon
  <2>5. AboutToTell' BY <2>1 DEF ClientInv, AboutToTell, LastFits, Roles, Running
  <2> QED BY <2>2, <2>3, <2>4, <2>5 DEF ClientInv
<1> QED BY <1>1, <1>2

\* The channel is registered under a new id before the request leaves.
LEMMA CallStep == ASSUME ClientInv, CallMethod PROVE ClientInv'
<1>1. /\ Running /\ pc = "call" /\ todo # <<>> /\ pc' = "post"
      /\ idCounter' = idCounter + 1 /\ chans' = chans \cup {idCounter + 1}
      /\ UNCHANGED <<cmd, line, todo, planned, answers, lists, got, timer, emitting, exit, daemon>>
  BY DEF CallMethod
<1>2. ClientTyped' BY <1>1 DEF ClientInv, ClientTyped, Stations, daemon
<1>3. OnItsWay' BY <1>1 DEF ClientInv, OnItsWay, daemon
<1>4. requests = {} BY <1>1 DEF ClientInv, OneAtATime, Roles
<1>5. OneAtATime' /\ Roles' BY <1>1, <1>4 DEF ClientInv, ClientTyped, OneAtATime, Roles, Running, daemon
<1>6. AboutToTell' BY <1>1 DEF ClientInv, AboutToTell, LastFits, Roles, Running
<1> QED BY <1>2, <1>3, <1>5, <1>6 DEF ClientInv

\* The answer main takes is the one to its last request, and it leaves only with
\* an answer that fits.
LEMMA AnswerStep == ASSUME ClientInv, TakeAnswer PROVE ClientInv'
<1>1. PICK ev \in got : ev.id = idCounter /\ got' = got \ {ev} /\ Received(ev)
  BY DEF TakeAnswer
<1>2. /\ Running /\ pc = "wait"
      /\ UNCHANGED <<cmd, line, planned, idCounter, chans, timer, emitting, daemon>>
  BY DEF TakeAnswer
<1>3. cmd # "stdio" /\ todo # <<>> /\ Len(answers) + 1 = idCounter /\ requests \subseteq {idCounter}
  BY <1>2 DEF ClientInv, OneAtATime, Roles
<1>4. requests = {}
  BY <1>1, <1>3 DEF ClientInv, OnItsWay
<1>5. ev.id \in Nat /\ ev.outcome \in Results
  BY <1>1 DEF ClientInv, ClientTyped, Messages
<1> DEFINE m == Head(todo)
           entry == [id |-> ev.id, method |-> m, outcome |-> ev.outcome]
<1>6. m \in Methods /\ Tail(todo) \in Seq(Methods)
      /\ (planned = 0 => m \in ListNames /\ Tail(todo) \in Seq(ListNames))
  BY <1>3 DEF ClientInv, ClientTyped
<1>7. entry \in [id : Nat, method : Methods, outcome : Results] /\ entry.id = idCounter
      /\ entry.method = m /\ entry.outcome = ev.outcome
  BY <1>1, <1>5, <1>6
<1>8. answers' = Append(answers, entry) /\ todo' = Tail(todo)
  BY <1>1 DEF Received
<1> HIDE DEF m, entry
<1>9. /\ pc' \in {"plan", "call", "leave", "editor", "done"}
      /\ (pc' = "done" /\ exit' = "1") \/ (pc' # "done" /\ exit' = exit)
      /\ lists' \subseteq lists \cup ({m} \cap ListNames)
      /\ (planned = 0 => pc' \in {"plan", "call"})
  <2>1. CASE planned = 0 BY <1>1, <1>6, <2>1 DEF Received, m
  <2>2. CASE planned # 0 BY <1>1, <2>2 DEF Received, m
  <2> QED BY <2>1, <2>2
<1>10. cmd \in Telling /\ pc' \in {"leave", "editor"} =>
          ev.outcome = "ok" \/ (planned > 1 /\ m = "resources/read")
  <2> SUFFICES ASSUME cmd \in Telling, pc' \in {"leave", "editor"}
               PROVE  ev.outcome = "ok" \/ (planned > 1 /\ m = "resources/read")
    OBVIOUS
  <2>1. planned # 0 BY <1>9
  <2>2. Unavailable(ev) \/ ~Failed(ev)
    BY <1>1, <2>1 DEF Received, Telling
  <2> QED BY <2>2, <1>5 DEF Unavailable, Failed, Results, m
<1>11. /\ answers \in Seq([id : Nat, method : Methods, outcome : Results])
       /\ answers' \in Seq([id : Nat, method : Methods, outcome : Results])
       /\ Len(answers') = Len(answers) + 1 /\ answers'[Len(answers) + 1] = entry
       /\ \A k \in 1..Len(answers) : answers'[k] = answers[k]
       /\ answers' # <<>>
  BY <1>7, <1>8 DEF ClientInv, ClientTyped
<1>12. Last(answers') = entry
  BY <1>11 DEF Last
<1>13. ClientTyped'
  <2>1. pc' \in Stations BY <1>9 DEF Stations
  <2>2. exit' \in {"running", "0", "1"} BY <1>9 DEF ClientInv, ClientTyped
  <2>3. lists' \subseteq ListNames BY <1>9 DEF ClientInv, ClientTyped
  <2>4. todo' \in Seq(Methods) /\ (planned' = 0 => todo' \in Seq(ListNames)) BY <1>2, <1>6, <1>8
  <2>5. got' \subseteq Messages BY <1>1 DEF ClientInv, ClientTyped
  <2> QED BY <1>2, <1>11, <2>1, <2>2, <2>3, <2>4, <2>5 DEF ClientInv, ClientTyped, daemon
<1>14. OnItsWay' BY <1>1, <1>2 DEF ClientInv, OnItsWay, daemon
<1>15. OneAtATime'
  BY <1>2, <1>3, <1>4, <1>9, <1>11 DEF OneAtATime, daemon
<1>16. Roles' BY <1>2, <1>3, <1>9 DEF ClientInv, Roles, Running
<1>17. AboutToTell'
  <2>1. \A k \in 1..Len(answers') : answers'[k].id = k
    <3> SUFFICES ASSUME NEW k \in 1..Len(answers') PROVE answers'[k].id = k OBVIOUS
    <3>1. CASE k \in 1..Len(answers) BY <3>1, <1>11 DEF ClientInv, AboutToTell
    <3>2. CASE k = Len(answers) + 1 BY <3>2, <1>3, <1>7, <1>11
    <3> QED BY <3>1, <3>2, <1>11
  <2>2. cmd' \in Telling /\ pc' \in {"leave", "editor"} => LastFits'
    BY <1>2, <1>7, <1>10, <1>11, <1>12 DEF LastFits
  <2>3. exit' # "0" BY <1>2, <1>9 DEF Running
  <2> QED BY <2>1, <2>2, <2>3 DEF AboutToTell
<1> QED BY <1>13, <1>14, <1>15, <1>16, <1>17 DEF ClientInv

\* The reader hands on what is on the wire and invents nothing.
LEMMA ReadStep == ASSUME ClientInv, Read PROVE ClientInv'
<1>1. /\ events # <<>> /\ events' = Tail(events)
      /\ UNCHANGED <<mainVars, timer, emitting, exit, requests, answered>>
  BY DEF Read
<1>2. Head(events) \in Events /\ (Head(events).name = "message" => Head(events).id \in answered)
  BY <1>1 DEF ClientInv, ClientTyped, OnItsWay
<1>3. got' = got \/ (Head(events).name = "message" /\ got' \subseteq got \cup {Head(events)})
  BY DEF Read, Routed
<1>4. Head(events).name = "message" => Head(events) \in Messages
  BY <1>2 DEF Events
<1>5. chans' \subseteq chans BY DEF Read
<1>6. /\ events' \in Seq(Events) /\ Len(events') = Len(events) - 1
      /\ \A k \in 1..Len(events') : events'[k] = events[k + 1] /\ k + 1 \in 1..Len(events)
  BY <1>1 DEF ClientInv, ClientTyped
<1>7. ClientTyped' BY <1>1, <1>3, <1>4, <1>5, <1>6 DEF ClientInv, ClientTyped, mainVars
<1>8. OnItsWay' BY <1>1, <1>2, <1>3, <1>6 DEF ClientInv, OnItsWay
<1>9. OneAtATime' /\ Roles' BY <1>1 DEF ClientInv, OneAtATime, Roles, Running, mainVars
<1>10. AboutToTell' BY <1>1 DEF ClientInv, AboutToTell, LastFits, mainVars
<1> QED BY <1>7, <1>8, <1>9, <1>10 DEF ClientInv

\* The daemon has and answers only what it was sent.
LEMMA DaemonSteps == ASSUME ClientInv, Daemon PROVE ClientInv'
<1>0. Running /\ UNCHANGED <<mainVars, chans, got, timer, emitting, exit>>
  BY DEF Daemon, DaemonAnnounces, DaemonGets, DaemonAnswers, DaemonCloses
<1>1. Roles' /\ AboutToTell'
  BY <1>0 DEF ClientInv, Roles, Running, AboutToTell, LastFits, mainVars
<1>2. CASE DaemonAnnounces
  <2>1. events' = <<[name |-> "endpoint"]>> /\ UNCHANGED <<requests, answered>>
    BY <1>2 DEF DaemonAnnounces
  <2>2. [name |-> "endpoint"] \in Events BY DEF Events
  <2>3. ClientTyped' BY <1>0, <2>1, <2>2 DEF ClientInv, ClientTyped, mainVars
  <2>4. OnItsWay' BY <1>0, <2>1 DEF ClientInv, OnItsWay
  <2>5. OneAtATime' BY <1>0, <2>1 DEF ClientInv, OneAtATime, Running, mainVars
  <2> QED BY <1>1, <2>3, <2>4, <2>5 DEF ClientInv
<1>3. CASE DaemonGets
  <2>1. /\ pc \in {"post", "posting"} /\ idCounter \notin requests \cup answered
        /\ requests' = requests \cup {idCounter} /\ UNCHANGED <<events, answered>>
    BY <1>3 DEF DaemonGets
  <2>2. ClientTyped' BY <1>0, <2>1 DEF ClientInv, ClientTyped, mainVars
  <2>3. OnItsWay' BY <1>0, <2>1 DEF ClientInv, OnItsWay
  <2>4. OneAtATime' BY <1>0, <2>1 DEF ClientInv, OneAtATime, Roles, Running, mainVars
  <2> QED BY <1>1, <2>2, <2>3, <2>4 DEF ClientInv
<1>4. CASE DaemonAnswers
  <2>1. PICK id \in requests :
          /\ requests' = requests \ {id} /\ answered' = answered \cup {id}
          /\ \E outcome \in (IF cmd = "stdio" THEN {"ok"} ELSE Outcomes(Head(todo))), times \in 1..2 :
                events' = events \o
                          [k \in 1..times |-> [name |-> "message", id |-> id, outcome |-> outcome]]
    <3>1. {1} \subseteq 1..2 OBVIOUS
    <3> QED BY <1>4, <3>1, Zenon DEF DaemonAnswers
  <2>2. PICK outcome \in (IF cmd = "stdio" THEN {"ok"} ELSE Outcomes(Head(todo))), times \in 1..2 :
          events' = events \o [k \in 1..times |-> [name |-> "message", id |-> id, outcome |-> outcome]]
    BY <2>1
  <2>3. outcome \in Results
    <3>1. CASE cmd = "stdio" BY <2>2, <3>1 DEF Results
    <3>2. CASE cmd # "stdio"
      <4>1. todo # <<>> BY <1>0, <2>1, <3>2 DEF ClientInv, OneAtATime
      <4>2. Head(todo) \in Methods BY <4>1 DEF ClientInv, ClientTyped
      <4>3. ToSet(Lists) = ListNames BY DEF ToSet, Lists, ListNames
      <4>4. Outcomes(Head(todo)) \subseteq Results
        BY <4>2, <4>3 DEF Outcomes, Methods, ListNames, Results
      <4> QED BY <2>2, <3>2, <4>4
    <3> QED BY <3>1, <3>2
  <2>4. id \in Nat BY <2>1 DEF ClientInv, ClientTyped
  <2> DEFINE msg == [name |-> "message", id |-> id, outcome |-> outcome]
  <2>5. msg \in Events /\ msg.id = id BY <2>3, <2>4 DEF Events, Messages
  <2> HIDE DEF msg
  <2>6. /\ events' \in Seq(Events) /\ Len(events') = Len(events) + times
        /\ \A k \in 1..Len(events) : events'[k] = events[k]
        /\ \A k \in Len(events) + 1..Len(events') : events'[k] = msg
    <3> DEFINE new == [k \in 1..times |-> msg]
    <3>1. new \in Seq(Events) /\ Len(new) = times /\ \A k \in 1..times : new[k] = msg BY <2>5
    <3>2. events' = events \o new /\ events \in Seq(Events) BY <2>2 DEF ClientInv, ClientTyped, msg
    <3> HIDE DEF new
    <3> QED BY <3>1, <3>2
  <2>7. ClientTyped' BY <1>0, <2>1, <2>6 DEF ClientInv, ClientTyped, mainVars
  <2>8. \A k \in 1..Len(events') : events'[k].name = "message" => events'[k].id \in answered'
    <3> SUFFICES ASSUME NEW k \in 1..Len(events'), events'[k].name = "message" PROVE events'[k].id \in answered'
      OBVIOUS
    <3>1. CASE k \in 1..Len(events) BY <3>1, <2>1, <2>6 DEF ClientInv, OnItsWay
    <3>2. CASE k \in Len(events) + 1..Len(events') BY <3>2, <2>1, <2>5, <2>6
    <3>3. Len(events) \in Nat /\ Len(events') \in Nat BY <2>6 DEF ClientInv, ClientTyped
    <3> QED BY <3>1, <3>2, <3>3
  <2>9. OnItsWay' BY <1>0, <2>1, <2>8 DEF ClientInv, OnItsWay
  <2>10. OneAtATime' BY <1>0, <2>1 DEF ClientInv, OneAtATime, Running, mainVars
  <2> QED BY <1>1, <2>7, <2>9, <2>10 DEF ClientInv
<1>5. CASE DaemonCloses
  <2>1. PICK n \in 0..Len(events) : events' = SubSeq(events, 1, n)
    BY <1>5 DEF DaemonCloses
  <2>2. UNCHANGED <<requests, answered>> BY <1>5 DEF DaemonCloses
  <2>3. /\ events' \in Seq(Events) /\ Len(events') = n
        /\ \A k \in 1..n : events'[k] = events[k] /\ k \in 1..Len(events)
    BY <2>1 DEF ClientInv, ClientTyped
  <2>4. ClientTyped' BY <1>0, <2>2, <2>3 DEF ClientInv, ClientTyped, mainVars
  <2>5. OnItsWay' BY <1>0, <2>2, <2>3 DEF ClientInv, OnItsWay
  <2>6. OneAtATime' BY <1>0, <2>2 DEF ClientInv, OneAtATime, Running, mainVars
  <2> QED BY <1>1, <2>4, <2>5, <2>6 DEF ClientInv
<1> QED BY <1>2, <1>3, <1>4, <1>5 DEF Daemon

\* Every step keeps the invariant.
LEMMA ClientStepInv == ClientInv /\ [ClientNext]_clientVars => ClientInv'
<1> SUFFICES ASSUME ClientInv, [ClientNext]_clientVars PROVE ClientInv' OBVIOUS
<1>1. CASE ClientNext /\ ~Ended
  BY <1>1, ExitSteps, PlainSteps, ConnectSteps, RunSteps, EditorStep, CallStep, AnswerStep, ReadStep,
     DaemonSteps
  DEF ClientNext, MainSteps, Reader
<1>2. CASE UNCHANGED clientVars \/ Ended
  <2>1. UNCHANGED <<mainVars, chans, got, timer, emitting, exit, daemon>> BY <1>2 DEF Ended, clientVars
  <2> QED BY <2>1 DEF ClientInv, ClientTyped, OnItsWay, OneAtATime, Roles, AboutToTell, LastFits, Running,
              mainVars, daemon
<1> QED BY <1>1, <1>2

\* What holds of linuxctl throughout: one request open at a time, answers only to what was
\* sent, and answers that fit before it leaves with status 0.
THEOREM ClientInvariant == ClientSpec => []ClientInv
  BY ClientInitInv, ClientStepInv, PTL DEF ClientSpec

\* linuxctl keeps its types: it awaits only ids it has given out, and the daemon never has
\* a request it has answered.
THEOREM ClientTypeCorrect == ClientSpec => []ClientTypeOK
<1>1. ToSet(Lists) = ListNames BY DEF ToSet, Lists, ListNames
<1>2. ClientInv => ClientTypeOK BY <1>1 DEF ClientInv, ClientTyped, OnItsWay, ClientTypeOK
<1> QED BY <1>2, ClientInvariant, PTL

\* Status 0 of a command that calls a tool or reads a resource means that its last request
\* was answered, with its own answer, and well (renderResponse, tryCallMethod), whatever
\* the order of the 202, the answer, the end of the stream and the timers.
THEOREM StatusTells == ClientSpec => []ExitTells
<1>1. ClientInv => ExitTells
  BY DEF ClientInv, AboutToTell, LastFits, Telling, ExitTells
<1> QED BY <1>1, ClientInvariant, PTL
=============================================================================
