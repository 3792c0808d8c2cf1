------------------------------- MODULE UidPin -------------------------------
(***************************************************************************)
(* users.yaml and the three programs that read and rewrite it: requests    *)
(* that authenticate and pin the OS uid behind a username, the reload that *)
(* swaps the file into memory, and linuxctl, which edits the file without  *)
(* sharing a lock with the daemon.                                         *)
(*                                                                         *)
(* Sources: cmd/mcpd/http.go (authenticateRequest), cmd/mcpd/uid_pin.go    *)
(* (checkAndPinUID, persistUIDPin), cmd/mcpd/reload.go (reloadConfig),     *)
(* internal/yamledit (LoadDoc, SaveDoc), cmd/linuxctl/mcpd_admin.go        *)
(* (mcpdCreateUser, mcpdUpdateUser, mcpdDeleteUser).                       *)
(*                                                                         *)
(* An entry of users.yaml is its token generation (0: no entry) and its    *)
(* pinned_uid; os_uid is only displayed.  A read or a write of the file is *)
(* one step; a read-modify-write is two.                                   *)
(***************************************************************************)
EXTENDS Naturals, FiniteSets

CONSTANTS Users,     \* names that may appear in users.yaml
          Uids,      \* OS user ids
          Auths,     \* authenticating requests, each made at most once
          None,      \* no value: no pin, no account, nobody
          MaxGen,    \* bound on the tokens linuxctl generates
          MaxEpoch   \* bound on reloads and restarts

ASSUME UidPinAssumption ==
    /\ None \notin Uids \cup Auths
    /\ MaxGen \in Nat \ {0}
    /\ MaxEpoch \in Nat

VARIABLES
    osUid,            \* the host's account database (user.Lookup)
    fTok, fPin,       \* users.yaml
    mTok, mPin,       \* daemonConfig.Users
    epoch,            \* how often a config took effect
    pc, who, uid,     \* the authenticating requests
    pinner,           \* the request holding uidPinMu and cfgMu while it saves
    dTok, dPin,       \* persistUIDPin: the document it will save
    rPc, rTok, rPin,  \* reloadConfig: the users it read
    cPc, cTok, cPin,  \* linuxctl: the document it loaded
    fresh,            \* the next token generation
    accepted,         \* history: <<user, its entry's token, uid, epoch>> of each pin check passed
    dead,             \* history: <<user, token>> that linuxctl replaced or removed
    revoked,          \* history: the dead tokens when the users in effect were read
    rDead,            \* history: the dead tokens when reloadConfig read the file
    rStale,           \* history: a pin was saved since reloadConfig read the file
    cStale,           \* history: the daemon saved since linuxctl loaded the file
    dStale,           \* history: linuxctl saved since persistUIDPin loaded the file
    lost,             \* history: a copy older than such a write was used
    unsaved           \* history: a new pin could not be saved

fileVars   == <<fTok, fPin>>
memVars    == <<mTok, mPin, epoch>>
authVars   == <<pc, who, uid>>
docVars    == <<dTok, dPin, dStale>>
reloadVars == <<rPc, rTok, rPin, rDead, rStale>>
ctlVars    == <<cPc, cTok, cPin, cStale, fresh>>
histVars   == <<accepted, dead, revoked, lost, unsaved>>
vars == <<osUid, fileVars, memVars, authVars, pinner, docVars, reloadVars, ctlVars, histVars>>

Gens    == 0..MaxGen
Pins    == Uids \cup {None}
NoToks  == [u \in Users |-> 0]
NoPins  == [u \in Users |-> None]

Init ==
    /\ osUid \in [Users -> Pins]
    /\ fTok \in [Users -> {0, 1}] /\ fPin = NoPins
    /\ mTok = fTok /\ mPin = fPin /\ epoch = 0
    /\ pc = [a \in Auths |-> "idle"] /\ who = [a \in Auths |-> None]
    /\ uid = [a \in Auths |-> None]
    /\ pinner = None /\ dTok = NoToks /\ dPin = NoPins /\ dStale = FALSE
    /\ rPc = "idle" /\ rTok = NoToks /\ rPin = NoPins /\ rDead = {} /\ rStale = FALSE
    /\ cPc = "idle" /\ cTok = NoToks /\ cPin = NoPins /\ cStale = FALSE
    /\ fresh = 2
    /\ accepted = {} /\ dead = {} /\ revoked = {} /\ lost = FALSE /\ unsaved = FALSE

-----------------------------------------------------------------------------
(* A request authenticates                                                 *)

\* authenticateRequest copies the users under cfgMu.RLock and finds the one
\* whose token the request carries.
MatchToken(a, u) ==
    /\ pc[a] = "idle"
    /\ pinner = None
    /\ mTok[u] # 0
    /\ pc' = [pc EXCEPT ![a] = "matched"]
    /\ who' = [who EXCEPT ![a] = u]
    /\ UNCHANGED <<osUid, fileVars, memVars, uid, pinner, docVars, reloadVars, ctlVars, histVars>>

\* checkAndPinUID looks the account up before it takes any lock; a name that
\* does not resolve is let through for SpawnWorker to refuse.
LookupUid(a) ==
    /\ pc[a] = "matched"
    /\ uid' = [uid EXCEPT ![a] = osUid[who[a]]]
    /\ pc' = [pc EXCEPT ![a] = IF osUid[who[a]] = None THEN "accepted" ELSE "looked"]
    /\ UNCHANGED <<osUid, fileVars, memVars, who, pinner, docVars, reloadVars, ctlVars, histVars>>

\* A request is accepted with its uid checked.
Accept(a) ==
    /\ pc' = [pc EXCEPT ![a] = "accepted"]
    /\ accepted' = accepted \cup {<<who[a], mTok[who[a]], uid[a], epoch>>}

\* The user is no longer in the config: accepted without a check.
PinMissing(a) ==
    /\ pc[a] = "looked"
    /\ pinner = None
    /\ mTok[who[a]] = 0
    /\ pc' = [pc EXCEPT ![a] = "accepted"]
    /\ UNCHANGED <<osUid, fileVars, memVars, who, uid, pinner, docVars, reloadVars, ctlVars, histVars>>

\* Mutant: the pin is not compared.
PinMatches_Always(a) ==
    /\ pc[a] = "looked"
    /\ pinner = None
    /\ mTok[who[a]] # 0
    /\ mPin[who[a]] # None
    /\ Accept(a)
    /\ UNCHANGED <<osUid, fileVars, memVars, who, uid, pinner, docVars, reloadVars, ctlVars,
                   dead, revoked, lost, unsaved>>

\* The pin is the uid just looked up.
PinMatches(a) ==
    /\ pc[a] = "looked"
    /\ pinner = None
    /\ mTok[who[a]] # 0
    /\ mPin[who[a]] = uid[a]
    /\ Accept(a)
    /\ UNCHANGED <<osUid, fileVars, memVars, who, uid, pinner, docVars, reloadVars, ctlVars,
                   dead, revoked, lost, unsaved>>

\* persistUIDPin loads users.yaml and puts the pin into the user's entry, by
\* name; the locks stay held until it is done.
LoadForPin(a, pin) ==
    /\ pinner' = a
    /\ dTok' = fTok
    /\ dPin' = [fPin EXCEPT ![who[a]] = pin]
    /\ dStale' = FALSE

\* First use: pin in memory, then persist.
PinFirstUse(a) ==
    /\ pc[a] = "looked"
    /\ pinner = None
    /\ mTok[who[a]] # 0
    /\ mPin[who[a]] = None
    /\ mPin' = [mPin EXCEPT ![who[a]] = uid[a]]
    /\ pc' = [pc EXCEPT ![a] = "pinning"]
    /\ LoadForPin(a, uid[a])
    /\ UNCHANGED <<osUid, fileVars, mTok, epoch, who, uid, reloadVars, ctlVars, histVars>>

\* Another uid than the pinned one: refuse, after persisting what was seen.
PinMismatch(a) ==
    /\ pc[a] = "looked"
    /\ pinner = None
    /\ mTok[who[a]] # 0
    /\ mPin[who[a]] \notin {None, uid[a]}
    /\ pc' = [pc EXCEPT ![a] = "refusing"]
    /\ LoadForPin(a, mPin[who[a]])
    /\ UNCHANGED <<osUid, fileVars, memVars, who, uid, reloadVars, ctlVars, histVars>>

\* checkAndPinUID returns, releasing both locks.
PinReturns(a) ==
    /\ pinner = a
    /\ pinner' = None
    /\ IF pc[a] = "pinning"
       THEN Accept(a)
       ELSE pc' = [pc EXCEPT ![a] = "refused"] /\ UNCHANGED accepted

\* Mutant: the pin stays in memory only.
PinSave_Skipped(a) ==
    /\ PinReturns(a)
    /\ dTok[who[a]] # 0
    /\ UNCHANGED <<osUid, fileVars, memVars, who, uid, docVars, reloadVars, ctlVars,
                   dead, revoked, lost, unsaved>>

\* SaveDoc writes the whole document.
PinSave(a) ==
    /\ PinReturns(a)
    /\ dTok[who[a]] # 0
    /\ fTok' = dTok /\ fPin' = dPin
    /\ rStale' = (rStale \/ pc[a] = "pinning")
    /\ cStale' = TRUE
    /\ lost' = (lost \/ dStale)
    /\ UNCHANGED <<osUid, memVars, who, uid, docVars, rPc, rTok, rPin, rDead,
                   cPc, cTok, cPin, fresh, dead, revoked, unsaved>>

\* persistUIDPin fails - the entry is gone from the file, or it cannot be
\* written: only a warning is logged.
PinSaveFails(a) ==
    /\ PinReturns(a)
    /\ unsaved' = (unsaved \/ pc[a] = "pinning")
    /\ UNCHANGED <<osUid, fileVars, memVars, who, uid, docVars, reloadVars, ctlVars,
                   dead, revoked, lost>>

-----------------------------------------------------------------------------
(* The daemon reloads or restarts                                          *)

\* reloadConfig reads the files before it takes cfgMu.
ReloadRead ==
    /\ rPc = "idle"
    /\ epoch < MaxEpoch
    /\ rPc' = "read"
    /\ rTok' = fTok /\ rPin' = fPin
    /\ rDead' = dead
    /\ rStale' = FALSE
    /\ UNCHANGED <<osUid, fileVars, memVars, authVars, pinner, docVars, ctlVars, histVars>>

\* Mutant: the reload keeps the tokens it has and takes only new users.
ReloadSwap_KeepsTokens ==
    /\ rPc = "read"
    /\ pinner = None
    /\ rPc' = "idle"
    /\ mTok' = [u \in Users |-> IF mTok[u] = 0 THEN rTok[u] ELSE mTok[u]]
    /\ mPin' = rPin
    /\ epoch' = epoch + 1
    /\ revoked' = rDead
    /\ lost' = (lost \/ rStale)
    /\ UNCHANGED <<osUid, fileVars, authVars, pinner, docVars, rTok, rPin, rDead, rStale, ctlVars,
                   accepted, dead, unsaved>>

\* daemonConfig = next, under cfgMu: pins included.
ReloadSwap ==
    /\ rPc = "read"
    /\ pinner = None
    /\ rPc' = "idle"
    /\ mTok' = rTok /\ mPin' = rPin
    /\ epoch' = epoch + 1
    /\ revoked' = rDead
    /\ lost' = (lost \/ rStale)
    /\ UNCHANGED <<osUid, fileVars, authVars, pinner, docVars, rTok, rPin, rDead, rStale, ctlVars,
                   accepted, dead, unsaved>>

\* The daemon goes down, whatever it is doing, and starts from the file.
Restart ==
    /\ epoch < MaxEpoch
    /\ epoch' = epoch + 1
    /\ mTok' = fTok /\ mPin' = fPin
    /\ pc' = [a \in Auths |-> IF pc[a] = "idle" THEN "idle" ELSE "refused"]
    /\ pinner' = None
    /\ rPc' = "idle"
    /\ revoked' = dead
    /\ UNCHANGED <<osUid, fileVars, who, uid, docVars, rTok, rPin, rDead, rStale, ctlVars,
                   accepted, dead, lost, unsaved>>

-----------------------------------------------------------------------------
(* linuxctl create, update and delete mcpd user, and the host              *)

CtlLoad ==
    /\ cPc = "idle"
    /\ cPc' = "loaded"
    /\ cTok' = fTok /\ cPin' = fPin
    /\ cStale' = FALSE
    /\ UNCHANGED <<osUid, fileVars, memVars, authVars, pinner, docVars, reloadVars, fresh, histVars>>

\* linuxctl saves the document with u's entry set to token g, without a pin.
CtlSave(u, g) ==
    /\ cPc = "loaded"
    /\ cPc' = "idle"
    /\ fTok' = [cTok EXCEPT ![u] = g]
    /\ fPin' = [cPin EXCEPT ![u] = None]
    /\ dead' = IF cTok[u] # 0 THEN dead \cup {<<u, cTok[u]>>} ELSE dead
    /\ dStale' = TRUE
    /\ lost' = (lost \/ cStale)
    /\ UNCHANGED <<osUid, memVars, authVars, pinner, dTok, dPin, reloadVars, cTok, cPin, cStale,
                   accepted, revoked, unsaved>>

\* create (no entry yet) and update (an entry) generate a token.
CtlSetToken(u) ==
    /\ fresh <= MaxGen
    /\ CtlSave(u, fresh)
    /\ fresh' = fresh + 1

CtlDelete(u) ==
    /\ cTok[u] # 0
    /\ CtlSave(u, 0)
    /\ UNCHANGED fresh

\* The account behind a name is removed, created or recreated.
ChangeAccount(u, i) ==
    /\ osUid[u] # i
    /\ osUid' = [osUid EXCEPT ![u] = i]
    /\ UNCHANGED <<fileVars, memVars, authVars, pinner, docVars, reloadVars, ctlVars, histVars>>

-----------------------------------------------------------------------------

AuthStep(a) ==
    \/ \E u \in Users : MatchToken(a, u)
    \/ LookupUid(a)
    \/ PinMissing(a)
    \/ PinMatches(a)
    \/ PinFirstUse(a)
    \/ PinMismatch(a)
    \/ PinSave(a)
    \/ PinSaveFails(a)

Next ==
    \/ \E a \in Auths : AuthStep(a)
    \/ ReloadRead
    \/ ReloadSwap
    \/ Restart
    \/ CtlLoad
    \/ \E u \in Users : CtlSetToken(u) \/ CtlDelete(u)
    \/ \E u \in Users, i \in Pins : ChangeAccount(u, i)

Spec == Init /\ [][Next]_vars

-----------------------------------------------------------------------------
(* Properties                                                              *)

\* Every variable has the values the code can give it.
TypeOK ==
    /\ osUid \in [Users -> Pins]
    /\ fTok \in [Users -> Gens] /\ fPin \in [Users -> Pins]
    /\ mTok \in [Users -> Gens] /\ mPin \in [Users -> Pins]
    /\ epoch \in 0..MaxEpoch
    /\ pc \in [Auths -> {"idle", "matched", "looked", "pinning", "refusing", "accepted", "refused"}]
    /\ who \in [Auths -> Users \cup {None}]
    /\ uid \in [Auths -> Pins]
    /\ pinner \in Auths \cup {None}
    /\ dTok \in [Users -> Gens] /\ dPin \in [Users -> Pins] /\ dStale \in BOOLEAN
    /\ rPc \in {"idle", "read"} /\ rTok \in [Users -> Gens] /\ rPin \in [Users -> Pins]
    /\ rDead \subseteq Users \X Gens /\ rStale \in BOOLEAN
    /\ cPc \in {"idle", "loaded"} /\ cTok \in [Users -> Gens] /\ cPin \in [Users -> Pins]
    /\ cStale \in BOOLEAN /\ fresh \in 2..MaxGen + 1
    /\ accepted \subseteq Users \X Gens \X Uids \X Nat
    /\ dead \subseteq Users \X Gens /\ revoked \subseteq Users \X Gens
    /\ lost \in BOOLEAN /\ unsaved \in BOOLEAN

\* uidPinMu and cfgMu make the check and the pin one step: between two
\* reloads, every checked request of a user was accepted with one and the
\* same uid, however their lookups and checks interleave.
AcceptedUidsAgree ==
    \A p, q \in accepted : (p[1] = q[1] /\ p[4] = q[4]) => p[3] = q[3]

\* Trust on first use across reloads and restarts (users.md:23): as long as
\* no write of users.yaml was overtaken by an older copy of it and no save
\* failed, an entry is used with only one uid, the first one, until linuxctl
\* gives the user a new token.
PinsHold ==
    (~lost /\ ~unsaved) => \A p, q \in accepted : (p[1] = q[1] /\ p[2] = q[2]) => p[3] = q[3]

\* A rotated or deleted token stops working when the reload runs
\* (mcpd-admin.md:56), again as long as no write of users.yaml was overtaken.
DeadTokensStayDead ==
    ~lost => \A u \in Users : <<u, mTok[u]>> \notin revoked

-----------------------------------------------------------------------------
(* What the documentation says and the code does not do                    *)

\* "If the username later resolves to a different UID [...], mcpd refuses that
\* user's calls until linuxctl update mcpd user re-provisions it"
\* (users.md:23), with no exception for a write that overtakes the pin's.
FirstUidOnly ==
    ~unsaved => \A p, q \in accepted : (p[1] = q[1] /\ p[2] = q[2]) => p[3] = q[3]

\* "A rotated or deleted token stops working the moment the reload runs"
\* (mcpd-admin.md:56), with no exception for a concurrent call.
RevokedTokensDead ==
    \A u \in Users : <<u, mTok[u]>> \notin revoked

=============================================================================
