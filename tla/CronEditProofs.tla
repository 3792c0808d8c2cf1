--------------------------- MODULE CronEditProofs ---------------------------
(***************************************************************************)
(* CronEdit, for every set of accounts, callers, grants and clients: its   *)
(* type invariant, and that root's crontab is never written through mcpd,  *)
(* that every write has a rule, that an edit overwrites unseen changes     *)
(* only between the worker's comparison and its write, and that the list   *)
(* agrees with single views.                                               *)
(*                                                                         *)
(* None of the four is inductive.  What a client may do is decided when    *)
(* its call arrives, and the invariant carries the decision to the write   *)
(* (Arrived); the comparison is carried to it as well (Compared): since    *)
(* then the crontab is what the editor read, or its stamp is not older     *)
(* than the comparison.  What a client has left behind is final (Settled). *)
(***************************************************************************)
EXTENDS CronEdit, TLAPS

\* What the master has let pass: a write, or a view that the worker takes for one
\* because of a key in another spelling.
Passed(r) ==
    \/ Prepare("save", r) # "refused"
    \/ r.also # Exact /\ Prepare("view", r) # "refused"

\* A client that is past idle has a request; a write past the master's check
\* passed it.
Arrived ==
    \A c \in Clients :
        /\ pc[c] # "idle" => req[c] \in Requests
        /\ pc[c] \in {"compare", "write"} => Passed(req[c])

\* Between the comparison and the write.
Compared ==
    \A c \in Clients :
        /\ mark[c] <= clock
        /\ pc[c] = "write" /\ base[c] # None =>
              \/ tab[TargetUser(req[c])] = base[c]
              \/ stamp[TargetUser(req[c])] >= mark[c]

\* Whoever has written or listed has nothing left to do.
Settled ==
    /\ \A t \in Accts : writer[t] # None => pc[writer[t]] = "done"
    /\ \A c \in Clients : over[c] # None \/ out[c] # None => pc[c] = "done"

IInv ==
    /\ TypeOK /\ Arrived /\ Compared /\ Settled
    /\ RootCrontabUntouched /\ EditsByRule /\ LostOnlyInWindow /\ ListAgreesWithView

-----------------------------------------------------------------------------
\* The worker's account is an account.
LEMMA TargetIsAcct ==
    ASSUME NEW r \in Requests
    PROVE  /\ TargetUser(r) \in Accts /\ r.caller \in Accts /\ r.target \in Accts
           /\ r.target = r.caller => TargetUser(r) = r.caller
           /\ r.also = Exact => TargetUser(r) = r.target
  <1>1. r.caller \in Accts /\ r.target \in Accts /\ r.also \in Spellings
    BY AcctsAssumption DEF Requests
  <1>2. r.also.target \in Accts \cup {None}
    BY <1>1, AcctsAssumption
  <1>3. Exact.target = None BY DEF Exact
  <1> QED BY <1>1, <1>2, <1>3 DEF TargetUser, ModeOf

\* A write the master lets pass is to one's own crontab, or has a rule; in
\* another spelling the rule is for some account.
LEMMA PreparedWrite ==
    ASSUME NEW r \in Requests, Passed(r)
    PROVE  \/ r.caller = TargetUser(r)
           \/ MayEdit(r.caller, TargetUser(r))
           \/ r.also # Exact /\ \E u \in Accts : MayView(r.caller, u)
  <1>1. CASE r.target = r.caller BY <1>1, TargetIsAcct
  <1>2. CASE r.target # r.caller
    <2>1. MayEdit(r.caller, r.target) \/ (r.also # Exact /\ MayView(r.caller, r.target))
      BY <1>2 DEF Passed, Prepare, Writes
    <2>2. MayEdit(r.caller, r.target) => MayView(r.caller, r.target)
      BY DEF MayEdit, MayView
    <2>3. r.target \in Accts BY TargetIsAcct
    <2>4. CASE r.also = Exact BY <2>1, <2>4, TargetIsAcct
    <2>5. CASE r.also # Exact BY <2>1, <2>2, <2>3, <2>5
    <2> QED BY <2>4, <2>5
  <1> QED BY <1>1, <1>2

\* A write the worker does not refuse is to the crontab of the account named,
\* which is not root's.
LEMMA WorkerWrites ==
    ASSUME TypeOK, NEW mode, NEW t \in Accts, ~WorkerRefuses(mode, t, TRUE)
    PROVE  TabOf(t) = t /\ t # Root
  BY DEF TypeOK, WorkerRefuses, TabOf

\* Whether another account's crontab is shown, by a list or by a view.
LEMMA ViewByRule ==
    ASSUME NEW r \in Requests, NEW t \in Accts \ {r.caller}, Prepare("list", r) = "list"
    PROVE  t \in CronViewAccounts(r.caller) <=>
              Prepare("view", [r EXCEPT !.target = t]) # "refused"
  <1> DEFINE q == [r EXCEPT !.target = t]
  <1>1. q.target = t /\ q.caller = r.caller /\ q.priv = r.priv BY DEF Requests
  <1>2. r.priv BY DEF Prepare
  <1> HIDE DEF q
  <1>3. Prepare("view", q) = IF MayView(r.caller, t) THEN "other" ELSE "refused"
    BY <1>1, <1>2 DEF Prepare, Writes
  <1>4. t \in CronViewAccounts(r.caller) <=> MayView(r.caller, t)
    BY DEF CronViewAccounts, MayView
  <1> QED BY <1>3, <1>4 DEF q

-----------------------------------------------------------------------------
LEMMA InitInv == Init => IInv
  <1> SUFFICES ASSUME Init PROVE IInv OBVIOUS
  <1>1. TypeOK BY AcctsAssumption DEF Init, TypeOK, Rules, Pcs
  <1>2. Arrived /\ Compared /\ Settled BY DEF Init, Arrived, Compared, Settled
  <1>3. RootCrontabUntouched /\ EditsByRule /\ LostOnlyInWindow /\ ListAgreesWithView
    BY AcctsAssumption
    DEF Init, RootCrontabUntouched, EditsByRule, LostOnlyInWindow, ListAgreesWithView
  <1> QED BY <1>1, <1>2, <1>3 DEF IInv

\* A step of one client that is not done, and that neither writes nor lists,
\* keeps what others left behind.
LEMMA ClientKeeps ==
    ASSUME IInv, NEW c \in Clients, pc[c] # "done",
           UNCHANGED <<allowed, rules, tab, stamp, writer, clock, over, out>>,
           \A d \in Clients \ {c} : /\ pc'[d] = pc[d] /\ req'[d] = req[d]
                                    /\ base'[d] = base[d] /\ mark'[d] = mark[d]
    PROVE  /\ Settled'
           /\ RootCrontabUntouched' /\ EditsByRule' /\ LostOnlyInWindow' /\ ListAgreesWithView'
  <1>1. \A t \in Accts : writer[t] # None => writer[t] \in Clients \ {c}
    BY DEF IInv, TypeOK, Settled
  <1>2. over[c] = None /\ out[c] = None BY DEF IInv, Settled
  <1>3. Settled' BY <1>1, <1>2 DEF IInv, Settled
  <1>4. RootCrontabUntouched' BY DEF IInv, RootCrontabUntouched
  <1>5. EditsByRule' BY <1>1 DEF IInv, EditsByRule, MayEdit, MayView
  <1>6. LostOnlyInWindow' BY <1>2 DEF IInv, LostOnlyInWindow
  <1>7. ListAgreesWithView'
    BY <1>2 DEF IInv, ListAgreesWithView, Prepare, MayView, MayEdit, Writes
  <1> QED BY <1>3, <1>4, <1>5, <1>6, <1>7

LEMMA AskInv ==
    ASSUME IInv, NEW c \in Clients, NEW r \in Requests, Ask(c, r)
    PROVE  IInv'
  <1> USE DEF Ask, grants, crontabs, notes
  <1>1. pc \in [Clients -> Pcs] /\ req \in [Clients -> Requests \cup {None}]
    BY DEF IInv, TypeOK
  <1>2. pc'[c] \in {"save", "ask", "read"} BY <1>1 DEF Requests, Kinds
  <1>3. TypeOK' BY <1>1, <1>2 DEF IInv, TypeOK, Pcs
  <1>4. Arrived' BY <1>1, <1>2 DEF IInv, Arrived, Passed, Prepare, MayEdit, MayView, Writes
  <1>5. Compared' BY <1>1, <1>2 DEF IInv, Compared
  <1> QED BY <1>1, <1>3, <1>4, <1>5, ClientKeeps DEF IInv

LEMMA ListInv ==
    ASSUME IInv, NEW c \in Clients, List(c)
    PROVE  IInv'
  <1> DEFINE r == req[c]
             have == {t \in Accts : tab[t] # 0}
             row == <<have \cap ViewUsers(r), have>>
  <1> USE DEF grants, crontabs
  <1>1. /\ pc \in [Clients -> Pcs] /\ out \in [Clients -> ((SUBSET Accts) \X (SUBSET Accts)) \cup {None}]
        /\ r \in Requests /\ pc[c] = "ask" /\ over[c] = None /\ out[c] = None
    BY DEF IInv, TypeOK, Arrived, Settled, List
  <1>2. CASE Prepare("list", r) = "list"
    <2>1. out' = [out EXCEPT ![c] = row] /\ pc' = [pc EXCEPT ![c] = "done"]
      BY <1>2 DEF List
    <2>2. UNCHANGED <<allowed, rules, uid0, tab, stamp, writer, clock, req, base, prev, mark, over>>
      BY DEF List
    <2>3. row \in (SUBSET Accts) \X (SUBSET Accts) OBVIOUS
    <2>4. TypeOK' BY <1>1, <2>1, <2>2, <2>3 DEF IInv, TypeOK, Pcs
    <2>5. Arrived' /\ Compared'
      BY <1>1, <2>1, <2>2 DEF IInv, Arrived, Compared, Passed, Prepare, MayEdit, MayView, Writes
    <2>6. Settled' BY <1>1, <2>1, <2>2 DEF IInv, Settled, TypeOK
    <2>7. RootCrontabUntouched' /\ EditsByRule' /\ LostOnlyInWindow'
      BY <2>2 DEF IInv, RootCrontabUntouched, EditsByRule, LostOnlyInWindow, MayEdit, MayView
    <2>8. r.also = Exact => \A t \in row[2] \ {r.caller} :
             t \in row[1] <=> Prepare("view", [r EXCEPT !.target = t]) # "refused"
      <3> SUFFICES ASSUME r.also = Exact, NEW t \in row[2] \ {r.caller}
                   PROVE t \in row[1] <=> Prepare("view", [r EXCEPT !.target = t]) # "refused"
        OBVIOUS
      <3>0. ViewUsers(r) = CronViewAccounts(r.caller) \cup {r.caller}
        BY DEF ViewUsers, Exact
      <3>1. t \in Accts \ {r.caller} /\ (t \in row[1] <=> t \in CronViewAccounts(r.caller))
        BY <3>0
      <3> HIDE DEF r, row
      <3> QED BY <3>1, <1>1, <1>2, ViewByRule
    <2>9. ListAgreesWithView'
      <3> HIDE DEF row
      <3> SUFFICES ASSUME NEW d \in Clients, out'[d] # None, req[d].also = Exact
                   PROVE \A t \in out'[d][2] \ {req[d].caller} :
                           t \in out'[d][1] <=>
                             Prepare("view", [req[d] EXCEPT !.target = t])' # "refused"
        BY <2>2 DEF ListAgreesWithView
      <3>1. \A t : Prepare("view", [req[d] EXCEPT !.target = t])' =
                     Prepare("view", [req[d] EXCEPT !.target = t])
        BY <2>2 DEF Prepare, MayView, MayEdit, Writes
      <3>2. CASE d = c BY <3>1, <3>2, <1>1, <2>1, <2>8
      <3>3. CASE d # c
        <4>1. out'[d] = out[d] BY <3>3, <1>1, <2>1
        <4> QED BY <4>1, <3>1 DEF IInv, ListAgreesWithView
      <3> QED BY <3>2, <3>3
    <2> QED BY <2>4, <2>5, <2>6, <2>7, <2>9 DEF IInv
  <1>3. CASE Prepare("list", r) # "list"
    <2>1. pc' = [pc EXCEPT ![c] = "failed"] /\ UNCHANGED out BY <1>3 DEF List
    <2>2. UNCHANGED <<allowed, rules, uid0, tab, stamp, writer, clock, req, base, prev, mark, over>>
      BY DEF List
    <2>3. TypeOK' BY <1>1, <2>1, <2>2 DEF IInv, TypeOK, Pcs
    <2>4. Arrived' /\ Compared'
      BY <1>1, <2>1, <2>2 DEF IInv, Arrived, Compared, Passed, Prepare, MayEdit, MayView, Writes
    <2> QED BY <1>1, <2>1, <2>2, <2>3, <2>4, ClientKeeps DEF IInv
  <1> QED BY <1>2, <1>3

LEMMA ReadInv ==
    ASSUME IInv, NEW c \in Clients, Read(c)
    PROVE  IInv'
  <1> USE DEF grants, crontabs
  <1>1. /\ pc \in [Clients -> Pcs] /\ base \in [Clients -> Nat \cup {None}]
        /\ tab \in [Accts -> Nat] /\ req[c] \in Requests /\ pc[c] = "read"
    BY DEF IInv, TypeOK, Arrived, Read
  <1>2. UNCHANGED <<allowed, rules, uid0, tab, stamp, writer, clock, req, prev, mark, over, out>>
    BY DEF Read
  <1>3. TabOf(TargetUser(req[c])) \in Accts
    BY <1>1, TargetIsAcct, AcctsAssumption DEF TabOf
  <1>4. /\ pc' = [pc EXCEPT ![c] = pc'[c]] /\ pc'[c] \in {"failed", "editing", "done", "compare"}
        /\ pc'[c] = "compare" => req[c].also.content /\ Prepare("view", req[c]) # "refused"
    BY <1>1 DEF Read
  <1>8. req[c].also.content => req[c].also # Exact BY DEF Exact
  <1>5. base' \in [Clients -> Nat \cup {None}] /\ \A d \in Clients \ {c} : base'[d] = base[d]
    BY <1>1, <1>3 DEF Read
  <1>6. TypeOK' BY <1>1, <1>2, <1>4, <1>5 DEF IInv, TypeOK, Pcs
  <1>7. Arrived' /\ Compared'
    BY <1>1, <1>2, <1>4, <1>5, <1>8 DEF IInv, Arrived, Compared, Passed, Prepare, MayEdit, MayView, Writes
  <1> QED BY <1>1, <1>2, <1>4, <1>5, <1>6, <1>7, ClientKeeps DEF IInv

LEMMA EditorInv ==
    ASSUME IInv, NEW c \in Clients, EditorExits(c)
    PROVE  IInv'
  <1> USE DEF grants, crontabs, notes
  <1>1. pc \in [Clients -> Pcs] /\ pc[c] = "editing" /\ req[c] \in Requests
    BY DEF IInv, TypeOK, Arrived, EditorExits
  <1>2. pc' = [pc EXCEPT ![c] = pc'[c]] /\ pc'[c] \in {"save", "done"}
    BY <1>1 DEF EditorExits
  <1>3. UNCHANGED <<allowed, rules, uid0, crontabs, req, notes>> BY DEF EditorExits
  <1>4. TypeOK' BY <1>1, <1>2, <1>3 DEF IInv, TypeOK, Pcs
  <1>5. Arrived' /\ Compared'
    BY <1>1, <1>2, <1>3 DEF IInv, Arrived, Compared, Passed, Prepare, MayEdit, MayView, Writes
  <1> QED BY <1>1, <1>2, <1>3, <1>4, <1>5, ClientKeeps DEF IInv

LEMMA ArriveInv ==
    ASSUME IInv, NEW c \in Clients, Arrive(c)
    PROVE  IInv'
  <1> USE DEF grants, crontabs, notes
  <1>1. pc \in [Clients -> Pcs] /\ pc[c] = "save" /\ req[c] \in Requests
    BY DEF IInv, TypeOK, Arrived, Arrive
  <1>2. /\ pc' = [pc EXCEPT ![c] = pc'[c]] /\ pc'[c] \in {"compare", "failed"}
        /\ pc'[c] = "compare" => Passed(req[c])
    BY <1>1 DEF Arrive, Passed
  <1>3. UNCHANGED <<allowed, rules, uid0, crontabs, req, notes>> BY DEF Arrive
  <1>4. TypeOK' BY <1>1, <1>2, <1>3 DEF IInv, TypeOK, Pcs
  <1>5. Arrived' /\ Compared'
    BY <1>1, <1>2, <1>3 DEF IInv, Arrived, Compared, Passed, Prepare, MayEdit, MayView, Writes
  <1> QED BY <1>1, <1>2, <1>3, <1>4, <1>5, ClientKeeps DEF IInv

LEMMA CompareInv ==
    ASSUME IInv, NEW c \in Clients, Compare(c)
    PROVE  IInv'
  <1> DEFINE r == req[c]
  <1> USE DEF grants, crontabs
  <1>1. /\ pc \in [Clients -> Pcs] /\ pc[c] = "compare" /\ r \in Requests /\ TargetUser(r) \in Accts
        /\ Passed(r) /\ clock \in Nat
        /\ mark \in [Clients -> Nat] /\ prev \in [Clients -> Nat \cup {None}] /\ tab \in [Accts -> Nat]
    BY TargetIsAcct DEF IInv, TypeOK, Arrived, Compare
  <1>2. UNCHANGED <<allowed, rules, uid0, tab, stamp, writer, clock, req, base, over, out>>
    BY DEF Compare
  <1>3. CASE WorkerRefuses(ModeOf(r), TargetUser(r), TRUE)
    <2>1. pc' = [pc EXCEPT ![c] = "failed"] /\ UNCHANGED <<prev, mark>> BY <1>3 DEF Compare
    <2>2. TypeOK' BY <1>1, <1>2, <2>1 DEF IInv, TypeOK, Pcs
    <2>3. Arrived' /\ Compared'
      BY <1>1, <1>2, <2>1 DEF IInv, Arrived, Compared, Passed, Prepare, MayEdit, MayView, Writes
    <2> QED BY <1>1, <1>2, <2>1, <2>2, <2>3, ClientKeeps DEF IInv
  <1>4. CASE ~WorkerRefuses(ModeOf(r), TargetUser(r), TRUE)
    <2>1. TabOf(TargetUser(r)) = TargetUser(r) BY <1>1, <1>4, WorkerWrites DEF IInv
    <2>2. /\ prev' = [prev EXCEPT ![c] = tab[TargetUser(r)]] /\ mark' = [mark EXCEPT ![c] = clock]
          /\ pc' = [pc EXCEPT ![c] = pc'[c]] /\ pc'[c] \in {"conflict", "write"}
          /\ pc'[c] = "write" => base[c] = None \/ base[c] = tab[TargetUser(r)]
      BY <1>1, <1>4, <2>1 DEF Compare
    <2>3. TypeOK' BY <1>1, <1>2, <2>2 DEF IInv, TypeOK, Pcs
    <2>4. Arrived'
      BY <1>1, <1>2, <2>2 DEF IInv, Arrived, Passed, Prepare, MayEdit, MayView, Writes
    <2>5. Compared' BY <1>1, <1>2, <2>2 DEF IInv, Compared
    <2> QED BY <1>1, <1>2, <2>2, <2>3, <2>4, <2>5, ClientKeeps DEF IInv
  <1> QED BY <1>3, <1>4

\* A new version of t's crontab, from whoever: other clients' comparisons stand.
LEMMA PutKeeps ==
    ASSUME IInv, NEW t \in Accts, NEW x \in Clients \cup {None}, NEW v \in Nat, Put(t, x, v)
    PROVE  /\ tab' \in [Accts -> Nat] /\ stamp' \in [Accts -> Nat] /\ clock' \in Nat
           /\ writer' \in [Accts -> Clients \cup {None}]
           /\ \A c \in Clients : mark[c] <= clock'
           /\ \A c \in Clients : pc[c] = "write" /\ base[c] # None =>
                tab'[TargetUser(req[c])] = base[c] \/ stamp'[TargetUser(req[c])] >= mark[c]
  <1>1. /\ tab \in [Accts -> Nat] /\ stamp \in [Accts -> Nat] /\ clock \in Nat
        /\ writer \in [Accts -> Clients \cup {None}] /\ mark \in [Clients -> Nat]
        /\ \A c \in Clients : pc[c] = "write" => TargetUser(req[c]) \in Accts
    BY TargetIsAcct DEF IInv, TypeOK, Arrived
  <1>2. /\ tab' \in [Accts -> Nat] /\ stamp' \in [Accts -> Nat] /\ clock' \in Nat
        /\ writer' \in [Accts -> Clients \cup {None}]
    BY <1>1 DEF Put
  <1>3. \A c \in Clients : mark[c] <= clock' BY <1>1 DEF IInv, Compared, Put
  <1>4. ASSUME NEW c \in Clients, pc[c] = "write", base[c] # None
        PROVE tab'[TargetUser(req[c])] = base[c] \/ stamp'[TargetUser(req[c])] >= mark[c]
    BY <1>1, <1>4 DEF IInv, Compared, Put
  <1> QED BY <1>2, <1>3, <1>4

LEMMA ReplaceInv ==
    ASSUME IInv, NEW c \in Clients, Replace(c)
    PROVE  IInv'
  <1> DEFINE r == req[c]
  <1> USE DEF grants, crontabs
  <1>1. /\ pc \in [Clients -> Pcs] /\ pc[c] = "write" /\ r \in Requests /\ TargetUser(r) \in Accts
        /\ Passed(r) /\ clock \in Nat
        /\ tab \in [Accts -> Nat] /\ stamp \in [Accts -> Nat] /\ mark \in [Clients -> Nat]
        /\ over \in [Clients -> (Nat \X Nat) \cup {None}]
    BY TargetIsAcct DEF IInv, TypeOK, Arrived, Replace
  <1>2. UNCHANGED <<allowed, rules, uid0, req, base, prev, mark, out>> BY DEF Replace
  <1>3. pc' = [pc EXCEPT ![c] = pc'[c]] /\ pc'[c] \in {"done", "failed"} BY <1>1 DEF Replace
  <1>4. Arrived' BY <1>1, <1>2, <1>3 DEF IInv, Arrived, Passed, Prepare, MayEdit, MayView, Writes
  <1>5. CASE UNCHANGED <<tab, stamp, writer, clock, over>>
    <2>1. TypeOK' BY <1>1, <1>2, <1>3, <1>5 DEF IInv, TypeOK, Pcs
    <2>2. Compared' BY <1>1, <1>2, <1>3, <1>5 DEF IInv, Compared
    <2> QED BY <1>1, <1>2, <1>3, <1>4, <1>5, <2>1, <2>2, ClientKeeps DEF IInv
  <1>6. ASSUME NEW new \in {0, clock + 1}, ~WorkerRefuses(ModeOf(r), TargetUser(r), TRUE),
               Put(TabOf(TargetUser(r)), c, new), pc'[c] = "done",
               over' = [over EXCEPT ![c] = <<tab[TabOf(TargetUser(r))], stamp[TabOf(TargetUser(r))]>>]
        PROVE IInv'
    <2> DEFINE t == TargetUser(r)
    <2>1. TabOf(t) = t /\ t # Root BY <1>1, <1>6, WorkerWrites DEF IInv
    <2>2. Put(t, c, new) /\ over' = [over EXCEPT ![c] = <<tab[t], stamp[t]>>] BY <1>6, <2>1
    <2>3. new \in Nat BY <1>1, <1>6
    <2>4. /\ tab' \in [Accts -> Nat] /\ stamp' \in [Accts -> Nat] /\ clock' \in Nat
          /\ writer' \in [Accts -> Clients \cup {None}]
          /\ \A d \in Clients : mark[d] <= clock'
          /\ \A d \in Clients : pc[d] = "write" /\ base[d] # None =>
                tab'[TargetUser(req[d])] = base[d] \/ stamp'[TargetUser(req[d])] >= mark[d]
      BY <1>1, <2>2, <2>3, PutKeeps
    <2>5. writer' = [writer EXCEPT ![t] = c] /\ writer \in [Accts -> Clients \cup {None}]
      BY <2>2 DEF Put, IInv, TypeOK
    <2>6. over' \in [Clients -> (Nat \X Nat) \cup {None}] BY <1>1, <2>2
    <2>7. TypeOK' BY <1>1, <1>2, <1>3, <2>4, <2>6 DEF IInv, TypeOK, Pcs
    <2>8. Compared' BY <1>1, <1>2, <1>3, <2>4 DEF IInv, Compared
    <2>9. Settled'
      BY <1>1, <1>2, <1>3, <1>6, <2>2, <2>5 DEF IInv, Settled, TypeOK
    <2>10. RootCrontabUntouched'
      BY <2>1, <2>5, AcctsAssumption DEF IInv, RootCrontabUntouched
    <2>11. EditsByRule'
      <3>1. \/ r.caller = t \/ MayEdit(r.caller, t)
            \/ r.also # Exact /\ \E v \in Accts : MayView(r.caller, v)
        BY <1>1, PreparedWrite
      <3>2. ASSUME NEW u \in Accts, writer'[u] # None
            PROVE \/ req[writer'[u]].caller = u
                  \/ MayEdit(req[writer'[u]].caller, u)
                  \/ /\ req[writer'[u]].also # Exact
                     /\ \E v \in Accts : MayView(req[writer'[u]].caller, v)
        <4>1. CASE u = t BY <4>1, <3>1, <1>1, <2>5
        <4>2. CASE u # t BY <4>2, <3>2, <2>5 DEF IInv, EditsByRule
        <4> QED BY <4>1, <4>2
      <3> QED BY <3>2, <1>2 DEF EditsByRule, MayEdit, MayView
    <2>12. LostOnlyInWindow'
      <3>1. base[c] # None => tab[t] = base[c] \/ stamp[t] >= mark[c]
        BY <1>1 DEF IInv, Compared
      <3>2. over'[c] = <<tab[t], stamp[t]>> /\ \A d \in Clients \ {c} : over'[d] = over[d]
        BY <1>1, <2>2
      <3> QED BY <1>2, <3>1, <3>2 DEF IInv, LostOnlyInWindow
    <2>13. ListAgreesWithView'
      BY <1>2 DEF IInv, ListAgreesWithView, Prepare, MayView, MayEdit, Writes
    <2> QED BY <1>4, <2>7, <2>8, <2>9, <2>10, <2>11, <2>12, <2>13 DEF IInv
  <1>7. \/ UNCHANGED <<tab, stamp, writer, clock, over>>
        \/ \E new \in {0, clock + 1} :
             /\ ~WorkerRefuses(ModeOf(r), TargetUser(r), TRUE)
             /\ Put(TabOf(TargetUser(r)), c, new) /\ pc'[c] = "done"
             /\ over' = [over EXCEPT ![c] = <<tab[TabOf(TargetUser(r))], stamp[TabOf(TargetUser(r))]>>]
    BY <1>1 DEF Replace
  <1> QED BY <1>5, <1>6, <1>7

LEMMA OutsideInv ==
    ASSUME IInv, NEW t \in Accts, OutsideEdit(t)
    PROVE  IInv'
  <1> USE DEF grants, notes
  <1>1. PICK new \in {0, clock + 1} : Put(t, None, new) BY DEF OutsideEdit
  <1>2. UNCHANGED <<allowed, rules, uid0, pc, req, base, prev, mark, over, out>>
    BY DEF OutsideEdit
  <1>3. new \in Nat /\ writer \in [Accts -> Clients \cup {None}] BY <1>1 DEF IInv, TypeOK
  <1>4. /\ tab' \in [Accts -> Nat] /\ stamp' \in [Accts -> Nat] /\ clock' \in Nat
        /\ writer' \in [Accts -> Clients \cup {None}]
        /\ \A d \in Clients : mark[d] <= clock'
        /\ \A d \in Clients : pc[d] = "write" /\ base[d] # None =>
              tab'[TargetUser(req[d])] = base[d] \/ stamp'[TargetUser(req[d])] >= mark[d]
    BY <1>1, <1>3, PutKeeps
  <1>5. writer' = [writer EXCEPT ![t] = None] BY <1>1 DEF Put
  <1>6. TypeOK' BY <1>2, <1>4 DEF IInv, TypeOK
  <1>7. Arrived' /\ Compared'
    BY <1>2, <1>4 DEF IInv, Arrived, Compared, Passed, Prepare, MayEdit, MayView, Writes
  <1>8. Settled' BY <1>2, <1>3, <1>5 DEF IInv, Settled
  <1>9. RootCrontabUntouched' /\ EditsByRule'
    BY <1>2, <1>3, <1>5, AcctsAssumption DEF IInv, RootCrontabUntouched, EditsByRule, MayEdit, MayView
  <1>10. LostOnlyInWindow' /\ ListAgreesWithView'
    BY <1>2
    DEF IInv, LostOnlyInWindow, ListAgreesWithView, Prepare, MayView, MayEdit, Writes
  <1> QED BY <1>6, <1>7, <1>8, <1>9, <1>10 DEF IInv

LEMMA RenumberInv ==
    ASSUME IInv, NEW t \in Accts, Renumber(t)
    PROVE  IInv'
  <1> USE DEF grants, crontabs, notes
  <1>1. UNCHANGED <<allowed, rules, tab, stamp, writer, clock, pc, req, base, prev, mark, over, out>>
    BY DEF Renumber
  <1>2. uid0' \subseteq Accts /\ Root \in uid0' BY DEF IInv, TypeOK, Renumber
  <1>3. TypeOK' BY <1>1, <1>2 DEF IInv, TypeOK
  <1>4. Arrived' /\ Compared' /\ Settled'
    BY <1>1 DEF IInv, Arrived, Compared, Settled, Passed, Prepare, MayEdit, MayView, Writes
  <1>5. RootCrontabUntouched' /\ EditsByRule' /\ LostOnlyInWindow' /\ ListAgreesWithView'
    BY <1>1
    DEF IInv, RootCrontabUntouched, EditsByRule, LostOnlyInWindow, ListAgreesWithView,
        Prepare, MayView, MayEdit, Writes
  <1> QED BY <1>3, <1>4, <1>5 DEF IInv

LEMMA NextInv == IInv /\ [Next]_vars => IInv'
  <1> SUFFICES ASSUME IInv, [Next]_vars PROVE IInv' OBVIOUS
  <1>1. ASSUME NEW c \in Clients, NEW r \in Requests, Ask(c, r) PROVE IInv' BY <1>1, AskInv
  <1>2. ASSUME NEW c \in Clients,
               \/ List(c) \/ Read(c) \/ EditorExits(c) \/ Arrive(c) \/ Compare(c) \/ Replace(c)
        PROVE IInv'
    BY <1>2, ListInv, ReadInv, EditorInv, ArriveInv, CompareInv, ReplaceInv
  <1>3. ASSUME NEW t \in Accts, OutsideEdit(t) \/ Renumber(t) PROVE IInv'
    BY <1>3, OutsideInv, RenumberInv
  <1>4. CASE UNCHANGED vars
    BY <1>4
    DEF vars, IInv, TypeOK, Arrived, Compared, Settled, RootCrontabUntouched, EditsByRule,
        LostOnlyInWindow, ListAgreesWithView, Passed, Prepare, MayView, MayEdit, Writes
  <1> QED BY <1>1, <1>2, <1>3, <1>4 DEF Next

LEMMA Invariant == Spec => []IInv
  BY InitInv, NextInv, PTL DEF Spec

-----------------------------------------------------------------------------
\* CronEdit keeps its types, for any accounts, callers, grants and clients.
THEOREM CronTypeCorrect == Spec => []TypeOK
  <1>1. IInv => TypeOK BY DEF IInv
  <1> QED BY <1>1, Invariant, PTL

\* No call ever writes root's crontab (cron.go, credentialFor), however the
\* accounts are renumbered between the master's check and the worker's write.
THEOREM RootIsSafe == Spec => []RootCrontabUntouched
  <1>1. IInv => RootCrontabUntouched BY DEF IInv
  <1> QED BY <1>1, Invariant, PTL

\* Every crontab written through mcpd was written by its own account, or under
\* an edit rule for it (prepareCronCall) when the call's keys were spelled
\* exactly, and under some rule in any case.
THEOREM WritesHaveRules == Spec => []EditsByRule
  <1>1. IInv => EditsByRule BY DEF IInv
  <1> QED BY <1>1, Invariant, PTL

\* if_match (write in manage.go) loses a change only between its comparison and
\* its write, for any number of editors and of other writers.
THEOREM LossIsConfined == Spec => []LostOnlyInWindow
  <1>1. IInv => LostOnlyInWindow BY DEF IInv
  <1> QED BY <1>1, Invariant, PTL

\* A list whose keys were spelled exactly shows exactly the crontabs that single
\* views would (CronViewAccounts and CronRuleFor).
THEOREM ListsAgree == Spec => []ListAgreesWithView
  <1>1. IInv => ListAgreesWithView BY DEF IInv
  <1> QED BY <1>1, Invariant, PTL
=============================================================================
