------------------------------ MODULE CronEdit ------------------------------
(***************************************************************************)
(* cron/manage: the master's authorization (prepareCronCall), the worker   *)
(* that runs `crontab` as the target account (internal/tools/cron/manage), *)
(* and `linuxctl edit crontabs`, which reads a crontab, lets its user edit *)
(* a copy and writes it back under if_match (cmd/linuxctl/edit_crontab.go).*)
(*                                                                         *)
(* A crontab is its version, 0 for none; its sha256 tells versions apart.  *)
(* A client is one run of linuxctl or of another MCP client: it views,     *)
(* lists, replaces without if_match, or edits. One config snapshot serves  *)
(* all of them (reloads are the subject of ToolCalls).                     *)
(*                                                                         *)
(* The master reads and deletes argument keys of a map, by exact name; the *)
(* worker decodes the same object into a struct, and encoding/json matches *)
(* field names without regard to case.  A request therefore has its        *)
(* arguments and, apart from them, what its keys in another spelling say.  *)
(***************************************************************************)
EXTENDS Naturals, FiniteSets

CONSTANTS
    Accts,          \* OS accounts
    Root,           \* the account named root
    Callers,        \* the mcpd users, each the account of that name
    RuleSets,       \* the users: lists that grants may have
    Spellings,      \* what keys in another spelling may say
    Clients,        \* runs of an MCP client
    MaxVer,         \* bound: crontab versions written
    None            \* nothing

ASSUME AcctsAssumption ==
    /\ Root \in Accts
    /\ Callers \subseteq Accts \ {Root}
    /\ RuleSets \subseteq [Accts -> {"none", "view", "edit"}]
    /\ Spellings \subseteq [content : BOOLEAN, target : Accts \cup {None},
                             viewers : (SUBSET Accts) \cup {None}]
    /\ MaxVer \in Nat
    /\ None \notin Nat /\ None \notin Clients \cup Accts

VARIABLES
    allowed,        \* allowed[a]: a's cron/manage grant has `allowed: true`
    rules,          \* rules[a][t]: what its users: list says of t's crontab
    uid0,           \* the accounts that have uid 0
    tab,            \* the crontab of each account
    stamp,          \* history: when it was written last
    writer,         \* history: the client that wrote it last, None for others
    clock,          \* writes so far (bounded)
    pc, req,        \* a client, and its request
    base,           \* the version an editor has read, its if_match
    prev,           \* what the worker's `crontab -l` printed
    mark,           \* history: the clock when it did
    over,           \* history: version and stamp the client's write replaced
    out             \* what a list answered, and (history) who had a crontab

vars == <<allowed, rules, uid0, tab, stamp, writer, clock, pc, req, base, prev, mark, over, out>>
grants == <<allowed, rules>>
crontabs == <<tab, stamp, writer, clock>>
notes == <<base, prev, mark, over, out>>

Rules == {"none", "view", "edit"}
Kinds == {"view", "list", "write", "edit"}
\* The keys are all spelled as the schema has them.
Exact == [content |-> FALSE, target |-> None, viewers |-> None]
\* The list names no account. Keys in another spelling are left out of calls that
\* are not privileged: they reach no crontab but the caller's own.
Requests ==
    {r \in [kind : Kinds, caller : Callers, target : Accts, priv : BOOLEAN, also : Spellings] :
        /\ r.kind = "list" => r.target = r.caller
        /\ r.also # Exact => r.priv}
Pcs == {"idle", "ask", "read", "editing", "save", "compare", "write",
        "done", "failed", "conflict"}

-----------------------------------------------------------------------------
(* internal/config/sudo.go                                                 *)

\* validateCronRule: root's crontab may be viewed, never edited.
ValidRules(r) == r[Root] # "edit"

\* Mutant: an edit rule alone does not list the account.
CronViewAccountsViewOnly(a) ==
    {t \in Accts : allowed[a] /\ rules[a][t] = "view"}

CronViewAccounts(a) == {t \in Accts : allowed[a] /\ rules[a][t] \in {"view", "edit"}}

\* CronRuleFor; edit implies view.
MayView(a, t) == allowed[a] /\ rules[a][t] \in {"view", "edit"}
MayEdit(a, t) == allowed[a] /\ t # Root /\ rules[a][t] = "edit"

(* internal/rpc/cron.go: prepareCronCall decides the mode, or refuses.     *)

Writes(k) == k \in {"write", "save"}

\* Mutant: the rule is asked for views only.
PrepareWithoutEditRule(k, r) ==
    IF k = "list" THEN IF r.priv /\ allowed[r.caller] THEN "list" ELSE "refused"
    ELSE IF r.target = r.caller THEN "self"
    ELSE IF r.priv /\ MayView(r.caller, r.target) THEN "other" ELSE "refused"

\* The list needs `allowed`; one's own crontab nothing; another account's the
\* rule for it. k is what this call does: view, list, write, or an editor's save.
Prepare(k, r) ==
    IF k = "list" THEN IF r.priv /\ allowed[r.caller] THEN "list" ELSE "refused"
    ELSE IF r.target = r.caller THEN "self"
    ELSE IF r.priv /\ (IF Writes(k) THEN MayEdit(r.caller, r.target)
                                    ELSE MayView(r.caller, r.target))
      THEN "other" ELSE "refused"

\* The mode of a call that was not refused.
ModeOf(r) == IF r.target = r.caller THEN "self" ELSE "other"

(* internal/tools/cron/manage: whom `crontab` runs as.                     *)

\* Manage decodes the arguments: the master deleted the reserved keys and set its
\* own, in their exact spelling; another spelling of one fills the same field,
\* and the later of the two stays (the master's map is marshalled in the order
\* of its keys, and only spellings that sort later are in Spellings).
\* TargetUser counts for another account only.
TargetUser(r) ==
    IF ModeOf(r) = "other" /\ r.also.target # None THEN r.also.target ELSE r.target
ViewUsers(r) ==
    IF r.also.viewers # None THEN r.also.viewers ELSE CronViewAccounts(r.caller) \cup {r.caller}

\* Mutant: the worker trusts the master's check of the name.
WorkerRefusesNobody(mode, t, writing) == mode = "self" /\ t \in uid0

\* run: for "self" the worker's own account, which the spawner refuses when it
\* has uid 0; for "other" credentialFor, which never lets uid 0 be written,
\* under any name. Both look the account up now.
WorkerRefuses(mode, t, writing) ==
    t \in uid0 /\ (mode = "self" \/ writing)

\* The crontab the command works on: uid 0 has one, root's.
TabOf(t) == IF t \in uid0 THEN Root ELSE t

-----------------------------------------------------------------------------
Init ==
    /\ allowed \in [Callers -> BOOLEAN]
    /\ rules \in [Callers -> {r \in RuleSets : ValidRules(r)}]
    /\ uid0 = {Root}
    /\ tab = [a \in Accts |-> 1]
    /\ stamp = [a \in Accts |-> 0]
    /\ writer = [a \in Accts |-> None]
    /\ clock = 1
    /\ pc = [c \in Clients |-> "idle"]
    /\ req = [c \in Clients |-> None]
    /\ base = [c \in Clients |-> None]
    /\ prev = [c \in Clients |-> None]
    /\ mark = [c \in Clients |-> 0]
    /\ over = [c \in Clients |-> None]
    /\ out = [c \in Clients |-> None]

\* A client asks: what it does, as whom, on which account.
Ask(c, r) ==
    /\ pc[c] = "idle"
    /\ req' = [req EXCEPT ![c] = r]
    /\ pc' = [pc EXCEPT ![c] = IF r.kind = "write" THEN "save"
                               ELSE IF r.kind = "list" THEN "ask" ELSE "read"]
    /\ UNCHANGED <<grants, uid0, crontabs, notes>>

\* The list: the spool's crontabs of the accounts in _view_users.
List(c) ==
    /\ pc[c] = "ask"
    /\ IF Prepare("list", req[c]) = "list"
         THEN /\ LET have == {t \in Accts : tab[t] # 0}
                 IN  out' = [out EXCEPT ![c] = <<have \cap ViewUsers(req[c]), have>>]
              /\ pc' = [pc EXCEPT ![c] = "done"]
         ELSE pc' = [pc EXCEPT ![c] = "failed"] /\ UNCHANGED out
    /\ UNCHANGED <<grants, uid0, crontabs, req, base, prev, mark, over>>

\* A view, and the first half of an edit: read() answers the content and its
\* hash; editCrontab remembers both. A call without `content` is a view to the
\* master; to the worker it is a write when Content was filled nevertheless.
Read(c) ==
    LET r == req[c]
        mode == Prepare("view", r)
    IN  /\ pc[c] = "read"
        /\ IF mode = "refused" \/ WorkerRefuses(mode, TargetUser(r), r.also.content)
             THEN pc' = [pc EXCEPT ![c] = "failed"] /\ UNCHANGED base
           ELSE IF r.also.content
             THEN pc' = [pc EXCEPT ![c] = "compare"] /\ UNCHANGED base
           ELSE IF r.kind = "view"
             THEN pc' = [pc EXCEPT ![c] = "done"] /\ UNCHANGED base
             ELSE /\ base' = [base EXCEPT ![c] = tab[TabOf(TargetUser(r))]]
                  /\ pc' = [pc EXCEPT ![c] = "editing"]
        /\ UNCHANGED <<grants, uid0, crontabs, req, prev, mark, over, out>>

\* The editor exits: with an error or without a change there is nothing to save;
\* otherwise the second call is sent, with if_match.
EditorExits(c) ==
    /\ pc[c] = "editing"
    /\ pc' = [pc EXCEPT ![c] = "save"] \/ pc' = [pc EXCEPT ![c] = "done"]
    /\ UNCHANGED <<grants, uid0, crontabs, req, notes>>

\* A write arrives: prepared again, and its content checked (size, NUL).
Arrive(c) ==
    /\ pc[c] = "save"
    /\ \/ Prepare("save", req[c]) # "refused" /\ pc' = [pc EXCEPT ![c] = "compare"]
       \/ pc' = [pc EXCEPT ![c] = "failed"]
    /\ UNCHANGED <<grants, uid0, crontabs, req, notes>>

\* Mutant: if_match is not compared.
CompareNothing(c) ==
    LET r == req[c] IN
    /\ pc[c] = "compare"
    /\ IF WorkerRefuses(ModeOf(r), TargetUser(r), TRUE)
         THEN pc' = [pc EXCEPT ![c] = "failed"] /\ UNCHANGED <<prev, mark>>
         ELSE /\ prev' = [prev EXCEPT ![c] = tab[TabOf(TargetUser(r))]]
              /\ mark' = [mark EXCEPT ![c] = clock]
              /\ pc' = [pc EXCEPT ![c] = "write"]
    /\ UNCHANGED <<grants, uid0, crontabs, req, base, over, out>>

\* write(): the current crontab is read and compared with if_match ...
Compare(c) ==
    LET r == req[c]
        now == tab[TabOf(TargetUser(r))]
    IN  /\ pc[c] = "compare"
        /\ IF WorkerRefuses(ModeOf(r), TargetUser(r), TRUE)
             THEN pc' = [pc EXCEPT ![c] = "failed"] /\ UNCHANGED <<prev, mark>>
             ELSE /\ prev' = [prev EXCEPT ![c] = now]
                  /\ mark' = [mark EXCEPT ![c] = clock]
                  /\ pc' = [pc EXCEPT ![c] = IF base[c] # None /\ base[c] # now
                                              THEN "conflict" ELSE "write"]
        /\ UNCHANGED <<grants, uid0, crontabs, req, base, over, out>>

\* t's crontab becomes a new version, or none.
Put(t, c, new) ==
    /\ tab' = [tab EXCEPT ![t] = new]
    /\ stamp' = [stamp EXCEPT ![t] = clock]
    /\ writer' = [writer EXCEPT ![t] = c]
    /\ clock' = clock + 1

\* ... and then replaced by `crontab -` or removed by `crontab -r`, in a second
\* run that looks the account up again. Clearing a missing crontab does nothing;
\* crontab may also reject the file and leave the old one.
Replace(c) ==
    LET r == req[c]
        t == TabOf(TargetUser(r))
    IN  /\ pc[c] = "write"
        /\ clock <= MaxVer
        /\ \/ /\ ~WorkerRefuses(ModeOf(r), TargetUser(r), TRUE)
              /\ \E new \in {0, clock + 1} :
                    IF new = 0 /\ prev[c] = 0
                      THEN UNCHANGED <<crontabs, over>>
                      ELSE /\ Put(t, c, new)
                           /\ over' = [over EXCEPT ![c] = <<tab[t], stamp[t]>>]
              /\ pc' = [pc EXCEPT ![c] = "done"]
           \/ /\ pc' = [pc EXCEPT ![c] = "failed"]
              /\ UNCHANGED <<crontabs, over>>
        /\ UNCHANGED <<grants, uid0, req, base, prev, mark, out>>

\* The account's owner, or root, edits a crontab on the host.
OutsideEdit(t) ==
    /\ clock <= MaxVer
    /\ \E new \in {0, clock + 1} : Put(t, None, new)
    /\ UNCHANGED <<grants, uid0, pc, req, notes>>

\* An administrator renumbers an account to or from uid 0.
Renumber(t) ==
    /\ t # Root
    /\ uid0' = IF t \in uid0 THEN uid0 \ {t} ELSE uid0 \cup {t}
    /\ UNCHANGED <<grants, crontabs, pc, req, notes>>

Next ==
    \/ \E c \in Clients :
          \/ \E r \in Requests : Ask(c, r)
          \/ List(c) \/ Read(c) \/ EditorExits(c) \/ Arrive(c) \/ Compare(c) \/ Replace(c)
    \/ \E t \in Accts : OutsideEdit(t) \/ Renumber(t)

Spec == Init /\ [][Next]_vars

-----------------------------------------------------------------------------
\* The type of the state.
TypeOK ==
    /\ allowed \in [Callers -> BOOLEAN]
    /\ rules \in [Callers -> [Accts -> Rules]]
    /\ uid0 \subseteq Accts /\ Root \in uid0
    /\ tab \in [Accts -> Nat] /\ stamp \in [Accts -> Nat] /\ clock \in Nat
    /\ writer \in [Accts -> Clients \cup {None}]
    /\ pc \in [Clients -> Pcs]
    /\ req \in [Clients -> Requests \cup {None}]
    /\ base \in [Clients -> Nat \cup {None}] /\ prev \in [Clients -> Nat \cup {None}]
    /\ mark \in [Clients -> Nat]
    /\ over \in [Clients -> (Nat \X Nat) \cup {None}]
    /\ out \in [Clients -> ((SUBSET Accts) \X (SUBSET Accts)) \cup {None}]

\* root's crontab is never written through mcpd, although accounts may get uid 0
\* between the master's check, the worker's comparison and its write.
RootCrontabUntouched == writer[Root] = None

\* A crontab was written through mcpd only by its own account, or by a caller
\* whose grant lets it edit that account's crontab - provided the call's keys
\* were spelled exactly. In any other spelling the worker may write where the
\* master has checked a view, or another account: even then only for a caller
\* whose grant has a rule for some account.
EditsByRule ==
    \A t \in Accts : writer[t] # None =>
        LET r == req[writer[t]] IN
        \/ r.caller = t
        \/ MayEdit(r.caller, t)
        \/ r.also # Exact /\ \E u \in Accts : MayView(r.caller, u)

\* An edit is saved over what its editor has read, or over something that was
\* written after the worker's comparison: the window between `crontab -l` and
\* `crontab -` is the only one in which a change is lost.
LostOnlyInWindow ==
    \A c \in Clients : base[c] # None /\ over[c] # None =>
        over[c][1] = base[c] \/ over[c][2] >= mark[c]

\* The list and the single view agree: of the accounts that have a crontab, a
\* list shows exactly the caller's own and those that a view would show - the
\* two go through different functions of the grant - provided the list's keys
\* were spelled exactly.
ListAgreesWithView ==
    \A c \in Clients : out[c] # None /\ req[c].also = Exact =>
        LET a == req[c].caller IN
        \A t \in out[c][2] \ {a} :
            t \in out[c][1] <=> Prepare("view", [req[c] EXCEPT !.target = t]) # "refused"

\* What prepareCronCall says of its checks (cron.go:5): the decision is handed to
\* the worker "in reserved "_" arguments that a caller's own values can never
\* reach". Keys in another spelling do reach them, and `content`.
ArgumentsOutOfReach ==
    /\ \A t \in Accts : writer[t] # None =>
            LET a == req[writer[t]].caller IN a = t \/ MayEdit(a, t)
    /\ \A c \in Clients : out[c] # None =>
            \A t \in out[c][1] : t = req[c].caller \/ MayView(req[c].caller, t)

\* What editCrontab promises (edit_crontab.go:43): the write is "refused by the
\* daemon if someone changed the crontab in the meantime (if_match)".
IfMatchProtects ==
    \A c \in Clients : base[c] # None /\ over[c] # None => over[c][1] = base[c]
=============================================================================
