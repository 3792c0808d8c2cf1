---------------------------- MODULE UidPinProofs ----------------------------
(***************************************************************************)
(* UidPin, for every set of users, uids and requests: its type invariant,  *)
(* that between two reloads all checked requests of a user were accepted   *)
(* with one uid, that a pin once set is kept, and that a revoked token     *)
(* stays dead.                                                             *)
(*                                                                         *)
(* AcceptedUidsAgree is not inductive: whether a new acceptance agrees     *)
(* with the earlier ones depends on the pin they left behind.  The         *)
(* invariant adds that the acceptances of the current epoch used the pin   *)
(* in memory (PinRemembers) and that a request which holds the locks after *)
(* a first use is the one that set it (Holder).  PinsHold and              *)
(* DeadTokensStayDead need the order in which copies of users.yaml are     *)
(* read and written back, JInv below.                                      *)
(***************************************************************************)
EXTENDS UidPin, TLAPS

\* Who holds uidPinMu and cfgMu, and what the requests under way carry.
Holder ==
    \A a \in Auths :
        /\ pinner = a <=> pc[a] \in {"pinning", "refusing"}
        /\ pc[a] \in {"matched", "looked", "pinning", "refusing"} => who[a] \in Users
        /\ pc[a] \in {"looked", "pinning", "refusing"} => uid[a] \in Uids
        /\ pc[a] = "pinning" => mPin[who[a]] = uid[a]

\* A request was accepted in the current epoch only with the pin in memory.
PinRemembers ==
    \A p \in accepted : p[4] <= epoch /\ (p[4] = epoch => mPin[p[1]] = p[3])

\* A reload that will swap has an epoch left.
SwapFits == rPc = "read" => epoch < MaxEpoch

IInv == TypeOK /\ Holder /\ PinRemembers /\ SwapFits /\ AcceptedUidsAgree

USE DEF fileVars, memVars, authVars, docVars, reloadVars, ctlVars, histVars

LEMMA InitInv == Init => IInv
  <1> SUFFICES ASSUME Init PROVE IInv OBVIOUS
  <1>1. TypeOK
    <2>1. 0 \in Gens /\ 1 \in Gens /\ None \in Pins /\ 0 \in 0..MaxEpoch /\ 2 \in 2..MaxGen + 1
      BY UidPinAssumption DEF Gens, Pins
    <2>2. NoToks \in [Users -> Gens] /\ NoPins \in [Users -> Pins] /\ fTok \in [Users -> Gens]
      BY <2>1 DEF Init, NoToks, NoPins
    <2> QED BY <2>1, <2>2 DEF Init, TypeOK, Pins
  <1>2. Holder /\ PinRemembers /\ SwapFits /\ AcceptedUidsAgree
    BY UidPinAssumption DEF Init, Holder, PinRemembers, SwapFits, AcceptedUidsAgree
  <1> QED BY <1>1, <1>2 DEF IInv

\* Steps that leave the memory pins, the requests and the acceptances alone
\* keep everything but the types.
LEMMA OthersKeep ==
    ASSUME IInv, UNCHANGED <<mPin, epoch, pc, who, uid, pinner, accepted, rPc>>
    PROVE  Holder' /\ PinRemembers' /\ SwapFits' /\ AcceptedUidsAgree'
  BY DEF IInv, Holder, PinRemembers, SwapFits, AcceptedUidsAgree

\* A request accepted with the pin in memory agrees with all earlier ones.
LEMMA AcceptKeeps ==
    ASSUME IInv, NEW a \in Auths, Accept(a), who[a] \in Users, uid[a] \in Uids,
           mPin[who[a]] = uid[a], UNCHANGED <<mPin, mTok, epoch>>
    PROVE  /\ accepted' \subseteq Users \X Gens \X Uids \X Nat
           /\ PinRemembers' /\ AcceptedUidsAgree'
  <1> DEFINE n == <<who[a], mTok[who[a]], uid[a], epoch>>
  <1>1. accepted' = accepted \cup {n} BY DEF Accept
  <1>2. epoch \in Nat /\ mTok[who[a]] \in Gens
    BY UidPinAssumption DEF IInv, TypeOK
  <1>3. n \in Users \X Gens \X Uids \X Nat BY <1>2
  <1>4. accepted' \subseteq Users \X Gens \X Uids \X Nat
    BY <1>1, <1>3 DEF IInv, TypeOK
  <1>5. n[1] = who[a] /\ n[3] = uid[a] /\ n[4] = epoch OBVIOUS
  <1> HIDE DEF n
  <1>6. PinRemembers' BY <1>1, <1>2, <1>5 DEF IInv, PinRemembers
  <1>7. AcceptedUidsAgree'
    <2> SUFFICES ASSUME NEW p \in accepted', NEW q \in accepted', p[1] = q[1], p[4] = q[4]
                 PROVE p[3] = q[3]
      BY DEF AcceptedUidsAgree
    <2>1. CASE p \in accepted /\ q \in accepted
      BY <2>1 DEF IInv, AcceptedUidsAgree
    <2>2. CASE p = n \/ q = n
      <3>1. p[4] = epoch /\ q[4] = epoch /\ p[1] = who[a] /\ q[1] = who[a] BY <2>2, <1>5
      <3>2. \A r \in accepted' : r[4] = epoch => mPin[r[1]] = r[3]
        BY <1>6 DEF PinRemembers
      <3> QED BY <3>1, <3>2
    <2> QED BY <2>1, <2>2, <1>1
  <1> QED BY <1>4, <1>6, <1>7

\* A request does one of its steps.
LEMMA AuthInv ==
    ASSUME IInv, NEW a \in Auths, AuthStep(a)
    PROVE  IInv'
  <1>0. /\ pc \in [Auths -> {"idle", "matched", "looked", "pinning", "refusing", "accepted", "refused"}]
        /\ who \in [Auths -> Users \cup {None}] /\ uid \in [Auths -> Pins]
        /\ mTok \in [Users -> Gens] /\ mPin \in [Users -> Pins] /\ osUid \in [Users -> Pins]
        /\ a # None
    BY UidPinAssumption DEF IInv, TypeOK
  <1>1. ASSUME NEW u \in Users, MatchToken(a, u) PROVE IInv'
    <2>1. TypeOK' BY <1>1, <1>0 DEF MatchToken, IInv, TypeOK
    <2>2. Holder' BY <1>1, <1>0 DEF MatchToken, IInv, Holder
    <2> QED BY <1>1, <2>1, <2>2 DEF MatchToken, IInv, PinRemembers, SwapFits, AcceptedUidsAgree
  <1>2. ASSUME LookupUid(a) PROVE IInv'
    <2>1. who[a] \in Users BY <1>2 DEF LookupUid, IInv, Holder
    <2>2. TypeOK' BY <1>2, <1>0, <2>1 DEF LookupUid, IInv, TypeOK
    <2>3. Holder' BY <1>2, <1>0, <2>1 DEF LookupUid, IInv, Holder, Pins
    <2> QED BY <1>2, <2>2, <2>3 DEF LookupUid, IInv, PinRemembers, SwapFits, AcceptedUidsAgree
  <1>3. ASSUME PinMissing(a) PROVE IInv'
    <2>1. TypeOK' BY <1>3, <1>0 DEF PinMissing, IInv, TypeOK
    <2>2. Holder' BY <1>3, <1>0 DEF PinMissing, IInv, Holder
    <2> QED BY <1>3, <2>1, <2>2 DEF PinMissing, IInv, PinRemembers, SwapFits, AcceptedUidsAgree
  <1>4. ASSUME PinMatches(a) PROVE IInv'
    <2>1. who[a] \in Users /\ uid[a] \in Uids BY <1>4 DEF PinMatches, IInv, Holder
    <2>2. /\ accepted' \subseteq Users \X Gens \X Uids \X Nat
          /\ PinRemembers' /\ AcceptedUidsAgree'
      BY <1>4, <2>1, AcceptKeeps DEF PinMatches
    <2>3. TypeOK' BY <1>4, <1>0, <2>2 DEF PinMatches, Accept, IInv, TypeOK
    <2>4. Holder' BY <1>4, <1>0 DEF PinMatches, Accept, IInv, Holder
    <2> QED BY <1>4, <2>2, <2>3, <2>4 DEF PinMatches, IInv, SwapFits
  <1>5. ASSUME PinFirstUse(a) PROVE IInv'
    <2>1. /\ who[a] \in Users /\ uid[a] \in Uids /\ mPin[who[a]] = None /\ pinner = None
          /\ mPin' = [mPin EXCEPT ![who[a]] = uid[a]]
      BY <1>5 DEF PinFirstUse, IInv, Holder
    <2>2. uid[a] \in Pins /\ None \notin Uids BY <2>1, UidPinAssumption DEF Pins
    <2>3. TypeOK'
      <3>1. mPin' \in [Users -> Pins] BY <1>0, <2>1, <2>2
      <3>2. dPin' \in [Users -> Pins] /\ dTok' \in [Users -> Gens]
        BY <1>5, <2>1, <2>2 DEF PinFirstUse, LoadForPin, IInv, TypeOK
      <3>3. pc' \in [Auths -> {"idle", "matched", "looked", "pinning", "refusing", "accepted", "refused"}]
            /\ pinner' \in Auths \cup {None} /\ dStale' \in BOOLEAN
        BY <1>5, <1>0 DEF PinFirstUse, LoadForPin
      <3> QED BY <1>5, <3>1, <3>2, <3>3 DEF PinFirstUse, IInv, TypeOK
    <2>4. Holder'
      <3>1. /\ pinner' = a /\ pc' = [pc EXCEPT ![a] = "pinning"] /\ UNCHANGED <<who, uid>>
            /\ mPin'[who[a]] = uid[a]
        BY <1>5, <1>0, <2>1 DEF PinFirstUse, LoadForPin
      <3>2. \A b \in Auths : b # a => pc'[b] = pc[b] /\ pc[b] \notin {"pinning", "refusing"}
        BY <1>0, <2>1, <3>1, UidPinAssumption DEF IInv, Holder
      <3>3. pc'[a] = "pinning" BY <1>0, <3>1
      <3> QED BY <2>1, <3>1, <3>2, <3>3 DEF IInv, Holder
    <2>5. PinRemembers'
      <3>1. \A p \in accepted : p[1] \in Users /\ p[3] \in Uids BY DEF IInv, TypeOK
      <3>2. \A p \in accepted : p[4] = epoch => p[1] # who[a]
        BY <3>1, <2>1, <2>2 DEF IInv, PinRemembers
      <3>3. UNCHANGED <<accepted, epoch>> BY <1>5 DEF PinFirstUse
      <3> QED BY <3>1, <3>2, <3>3, <2>1, <1>0 DEF IInv, PinRemembers
    <2> QED BY <1>5, <2>3, <2>4, <2>5 DEF PinFirstUse, IInv, SwapFits, AcceptedUidsAgree
  <1>6. ASSUME PinMismatch(a) PROVE IInv'
    <2>1. who[a] \in Users BY <1>6 DEF PinMismatch, IInv, Holder
    <2>2. TypeOK' BY <1>6, <1>0, <2>1 DEF PinMismatch, LoadForPin, IInv, TypeOK
    <2>3. Holder' BY <1>6, <1>0, UidPinAssumption DEF PinMismatch, LoadForPin, IInv, Holder
    <2> QED BY <1>6, <2>2, <2>3 DEF PinMismatch, IInv, PinRemembers, SwapFits, AcceptedUidsAgree
  <1>7. ASSUME PinReturns(a), UNCHANGED <<who, uid, mTok, mPin, epoch, rPc>>
        PROVE  /\ pc' \in [Auths -> {"idle", "matched", "looked", "pinning", "refusing", "accepted", "refused"}]
               /\ pinner' \in Auths \cup {None}
               /\ accepted' \subseteq Users \X Gens \X Uids \X Nat
               /\ Holder' /\ PinRemembers' /\ SwapFits' /\ AcceptedUidsAgree'
    <2>1. pc[a] \in {"pinning", "refusing"} /\ who[a] \in Users /\ uid[a] \in Uids
      BY <1>7 DEF PinReturns, IInv, Holder
    <2>2. SwapFits' BY <1>7 DEF IInv, SwapFits
    <2>3. /\ pc' = [pc EXCEPT ![a] = IF pc[a] = "pinning" THEN "accepted" ELSE "refused"]
          /\ pinner = a /\ pinner' = None
      BY <1>7, <2>1 DEF PinReturns, Accept
    <2>4. Holder' BY <1>7, <1>0, <2>1, <2>3, UidPinAssumption DEF IInv, Holder
    <2>5. CASE pc[a] = "pinning"
      <3>1. Accept(a) /\ mPin[who[a]] = uid[a] BY <1>7, <2>5 DEF PinReturns, IInv, Holder
      <3>2. /\ accepted' \subseteq Users \X Gens \X Uids \X Nat
            /\ PinRemembers' /\ AcceptedUidsAgree'
        BY <1>7, <2>1, <3>1, AcceptKeeps
      <3> QED BY <1>0, <2>2, <2>3, <2>4, <3>2
    <2>6. CASE pc[a] # "pinning"
      <3>1. accepted' = accepted BY <1>7, <2>6 DEF PinReturns
      <3>2. accepted \subseteq Users \X Gens \X Uids \X Nat BY DEF IInv, TypeOK
      <3>3. PinRemembers' /\ AcceptedUidsAgree'
        BY <1>7, <3>1 DEF IInv, PinRemembers, AcceptedUidsAgree
      <3> QED BY <1>0, <2>2, <2>3, <2>4, <3>1, <3>2, <3>3
    <2> QED BY <2>5, <2>6
  <1>8. ASSUME PinSave(a) PROVE IInv'
    <2>1. PinReturns(a) /\ UNCHANGED <<who, uid, mTok, mPin, epoch, rPc>> BY <1>8 DEF PinSave
    <2>2. TypeOK' BY <1>8, <1>7, <2>1 DEF PinSave, IInv, TypeOK
    <2> QED BY <1>7, <2>1, <2>2 DEF IInv
  <1>9. ASSUME PinSaveFails(a) PROVE IInv'
    <2>1. PinReturns(a) /\ UNCHANGED <<who, uid, mTok, mPin, epoch, rPc>> BY <1>9 DEF PinSaveFails
    <2>2. TypeOK' BY <1>9, <1>7, <2>1 DEF PinSaveFails, IInv, TypeOK
    <2> QED BY <1>7, <2>1, <2>2 DEF IInv
  <1> QED BY <1>1, <1>2, <1>3, <1>4, <1>5, <1>6, <1>8, <1>9 DEF AuthStep

LEMMA StepInv == IInv /\ [Next]_vars => IInv'
  <1> SUFFICES ASSUME IInv, [Next]_vars PROVE IInv' OBVIOUS
  <1>0. fTok \in [Users -> Gens] /\ fPin \in [Users -> Pins] /\ epoch \in 0..MaxEpoch /\ MaxEpoch \in Nat
    BY UidPinAssumption DEF IInv, TypeOK
  <1>1. ASSUME NEW a \in Auths, AuthStep(a) PROVE IInv'
    BY <1>1, AuthInv
  <1>2. ASSUME ReloadRead PROVE IInv'
    <2>1. TypeOK' BY <1>2 DEF ReloadRead, IInv, TypeOK
    <2>2. SwapFits' BY <1>2 DEF ReloadRead, SwapFits
    <2> QED BY <1>2, <2>1, <2>2 DEF ReloadRead, IInv, Holder, PinRemembers, AcceptedUidsAgree
  <1>3. ASSUME NEW t \in [Users -> Gens], NEW i \in [Users -> Pins], epoch < MaxEpoch,
               mTok' = t, mPin' = i, epoch' = epoch + 1, UNCHANGED accepted
        PROVE  /\ epoch' \in 0..MaxEpoch /\ mTok' \in [Users -> Gens] /\ mPin' \in [Users -> Pins]
               /\ PinRemembers' /\ AcceptedUidsAgree'
    <2>1. \A p \in accepted : p[4] \in Nat BY DEF IInv, TypeOK
    <2>2. PinRemembers' BY <1>0, <1>3, <2>1 DEF IInv, PinRemembers
    <2> QED BY <1>0, <1>3, <2>2 DEF IInv, AcceptedUidsAgree
  <1>4. ASSUME ReloadSwap PROVE IInv'
    <2>1. epoch < MaxEpoch /\ rTok \in [Users -> Gens] /\ rPin \in [Users -> Pins]
      BY <1>4 DEF ReloadSwap, IInv, SwapFits, TypeOK
    <2>2. /\ epoch' \in 0..MaxEpoch /\ mTok' \in [Users -> Gens] /\ mPin' \in [Users -> Pins]
          /\ PinRemembers' /\ AcceptedUidsAgree'
      BY <1>3, <1>4, <2>1 DEF ReloadSwap
    <2>3. TypeOK' BY <1>4, <2>2 DEF ReloadSwap, IInv, TypeOK
    <2>4. Holder'
      <3>1. \A a \in Auths : pc[a] # "pinning"
        BY <1>4, UidPinAssumption DEF ReloadSwap, IInv, Holder
      <3> QED BY <1>4, <3>1 DEF ReloadSwap, IInv, Holder
    <2> QED BY <1>4, <2>2, <2>3, <2>4 DEF ReloadSwap, IInv, SwapFits
  <1>5. ASSUME Restart PROVE IInv'
    <2>1. /\ epoch' \in 0..MaxEpoch /\ mTok' \in [Users -> Gens] /\ mPin' \in [Users -> Pins]
          /\ PinRemembers' /\ AcceptedUidsAgree'
      BY <1>0, <1>3, <1>5 DEF Restart
    <2>2. TypeOK' BY <1>5, <2>1 DEF Restart, IInv, TypeOK
    <2>3. Holder'
      <3>1. \A a \in Auths : pc'[a] \in {"idle", "refused"} /\ pinner' # a
        BY <1>5, UidPinAssumption DEF Restart, IInv, TypeOK
      <3> QED BY <1>5, <3>1 DEF Restart, Holder
    <2> QED BY <1>5, <2>1, <2>2, <2>3 DEF Restart, IInv, SwapFits
  <1>6. ASSUME CtlLoad PROVE IInv'
    <2>1. TypeOK' BY <1>6 DEF CtlLoad, IInv, TypeOK
    <2> QED BY <1>6, <2>1, OthersKeep DEF CtlLoad, IInv
  <1>7. ASSUME NEW u \in Users, NEW g \in Gens, CtlSave(u, g), fresh' \in 2..MaxGen + 1 PROVE IInv'
    <2>1. cTok \in [Users -> Gens] /\ cPin \in [Users -> Pins] BY DEF IInv, TypeOK
    <2>2. fTok' \in [Users -> Gens] /\ fPin' \in [Users -> Pins]
      BY <1>7, <2>1 DEF CtlSave, Pins
    <2>3. dead' \subseteq Users \X Gens
      BY <1>7, <2>1 DEF CtlSave, IInv, TypeOK
    <2>4. TypeOK' BY <1>7, <2>1, <2>2, <2>3 DEF CtlSave, IInv, TypeOK
    <2> QED BY <1>7, <2>4, OthersKeep DEF CtlSave, IInv
  <1>8. ASSUME NEW u \in Users, CtlSetToken(u) PROVE IInv'
    <2>1. fresh \in Gens /\ fresh' \in 2..MaxGen + 1
      BY <1>8, UidPinAssumption DEF CtlSetToken, IInv, TypeOK, Gens
    <2> QED BY <1>7, <1>8, <2>1 DEF CtlSetToken
  <1>9. ASSUME NEW u \in Users, CtlDelete(u) PROVE IInv'
    <2>1. 0 \in Gens BY UidPinAssumption DEF Gens
    <2>2. fresh' \in 2..MaxGen + 1 BY <1>9 DEF CtlDelete, IInv, TypeOK
    <2> QED BY <1>7, <1>9, <2>1, <2>2 DEF CtlDelete
  <1>10. ASSUME NEW u \in Users, NEW i \in Pins, ChangeAccount(u, i) PROVE IInv'
    <2>1. TypeOK' BY <1>10 DEF ChangeAccount, IInv, TypeOK
    <2> QED BY <1>10, <2>1, OthersKeep DEF ChangeAccount, IInv
  <1>11. ASSUME UNCHANGED vars PROVE IInv'
    <2>1. TypeOK' BY <1>11 DEF vars, IInv, TypeOK
    <2> QED BY <1>11, <2>1, OthersKeep DEF vars, IInv
  <1> QED
    BY <1>1, <1>2, <1>4, <1>5, <1>6, <1>8, <1>9, <1>10, <1>11 DEF Next

\* The lock discipline of checkAndPinUID and what the pins remember hold in
\* every reachable state.
THEOREM UidPinInvariant == Spec => []IInv
  BY InitInv, StepInv, PTL DEF Spec

\* Every variable of UidPin keeps its type; in particular a request that is
\* accepted after a check always has a resolved uid.
THEOREM UidPinTypeCorrect == Spec => []TypeOK
  <1>1. IInv => TypeOK BY DEF IInv
  <1> QED BY <1>1, UidPinInvariant, PTL

\* However lookups, pin checks, reloads, restarts and linuxctl interleave, all
\* checked requests of a user between two reloads were accepted with one uid.
THEOREM PinIsUnique == Spec => []AcceptedUidsAgree
  <1>1. IInv => AcceptedUidsAgree BY DEF IInv
  <1> QED BY <1>1, UidPinInvariant, PTL

-----------------------------------------------------------------------------
(* Across reloads, restarts and runs of linuxctl                           *)

\* Tokens are never generated twice, and a token in use is not 0.
Tokens ==
    /\ \A u \in Users : /\ fTok[u] < fresh /\ mTok[u] < fresh /\ rTok[u] < fresh
                        /\ cTok[u] < fresh /\ dTok[u] < fresh
    /\ \A p \in accepted : 0 < p[2] /\ p[2] < fresh
    /\ \A p \in dead : 0 < p[2] /\ p[2] < fresh

\* What the two writers hold, until they are overtaken.
Documents ==
    /\ cPc = "loaded" /\ ~cStale => cTok = fTok /\ cPin = fPin
    /\ \A a \in Auths : pinner = a =>
          /\ mTok[who[a]] # 0 /\ mPin[who[a]] # None
          /\ ~dStale => dTok = fTok /\ dPin = [fPin EXCEPT ![who[a]] = mPin[who[a]]]

\* Nobody reads a dead token from the file.
Buried ==
    ~lost => \A u \in Users :
        /\ <<u, fTok[u]>> \notin dead
        /\ rPc = "read" => <<u, rTok[u]>> \notin rDead
        /\ <<u, mTok[u]>> \notin revoked

\* The memory is a past file and a reload under way a later one, so a token in
\* the file that was accepted is still in memory.
Succession ==
    ~lost =>
        /\ \A u \in Users : rPc = "read" /\ fTok[u] # 0 /\ mTok[u] = fTok[u] => rTok[u] = fTok[u]
        /\ \A p \in accepted : p[2] = fTok[p[1]] => mTok[p[1]] = p[2]

\* Pin Q comes after pin P of the same name: it is P again once P is set, if
\* the entry is the same, and never another uid.
Follows(P, Q, same) ==
    /\ P # None /\ Q # None => P = Q
    /\ P # None /\ same => P = Q

\* The pins in memory, of a reload under way and in the file follow one
\* another, but for a first use that is being saved.
PinsFollow ==
    (~lost /\ ~unsaved) => \A u \in Users :
        /\ (\A a \in Auths : pc[a] = "pinning" => who[a] # u) =>
              /\ Follows(mPin[u], fPin[u], mTok[u] = fTok[u] /\ fTok[u] # 0)
              /\ rPc = "read" /\ ~rStale =>
                    Follows(mPin[u], rPin[u], mTok[u] = rTok[u] /\ rTok[u] # 0)
        /\ rPc = "read" /\ ~rStale =>
              Follows(rPin[u], fPin[u], rTok[u] = fTok[u] /\ fTok[u] # 0)

\* Every copy of an entry that was used has the uid it was used with.
UsesPinned ==
    (~lost /\ ~unsaved) => \A p \in accepted :
        /\ p[2] = fTok[p[1]] => fPin[p[1]] = p[3]
        /\ p[2] = mTok[p[1]] => mPin[p[1]] = p[3]
        /\ rPc = "read" /\ ~rStale /\ p[2] = rTok[p[1]] => rPin[p[1]] = p[3]

JInv == Tokens /\ Documents /\ Buried /\ Succession /\ PinsFollow /\ UsesPinned /\ PinsHold

\* The initial states satisfy it.
LEMMA InitLater == Init => JInv
  <1> SUFFICES ASSUME Init PROVE JInv OBVIOUS
  <1>1. \A u \in Users : fTok[u] \in {0, 1} /\ fPin[u] = None /\ NoToks[u] = 0
    BY DEF Init, NoPins, NoToks
  <1>2. Tokens BY <1>1 DEF Init, Tokens
  <1>3. Documents BY UidPinAssumption DEF Init, Documents
  <1>4. Buried /\ Succession BY DEF Init, Buried, Succession
  <1>5. PinsFollow BY <1>1 DEF Init, PinsFollow, Follows
  <1>6. UsesPinned /\ PinsHold BY DEF Init, UsesPinned, PinsHold
  <1> QED BY <1>2, <1>3, <1>4, <1>5, <1>6 DEF JInv

\* Steps of requests that touch no copy of users.yaml.
LEMMA QuietKeeps ==
    ASSUME IInv, JInv, pinner' = pinner,
           UNCHANGED <<fTok, fPin, mTok, mPin, dTok, dPin, dStale, rPc, rTok, rPin, rDead, rStale,
                       cPc, cTok, cPin, cStale, fresh, accepted, dead, revoked, lost, unsaved>>,
           \A a \in Auths : pinner = a \/ pc'[a] = "pinning" => pc'[a] = pc[a] /\ who'[a] = who[a]
    PROVE  JInv'
  <1>1. Tokens' /\ Buried' /\ Succession' BY DEF JInv, Tokens, Buried, Succession
  <1>2. Documents' BY DEF JInv, Documents
  <1>3. \A a \in Auths : pc[a] = "pinning" => pc'[a] = "pinning" /\ who'[a] = who[a]
    BY DEF IInv, Holder
  <1>4. PinsFollow' BY <1>3 DEF JInv, PinsFollow, Follows
  <1>5. UsesPinned' /\ PinsHold' BY DEF JInv, UsesPinned, PinsHold
  <1> QED BY <1>1, <1>2, <1>4, <1>5 DEF JInv

\* A request that is accepted with the pin in memory: file and reload agree.
LEMMA PinMatchesLater ==
    ASSUME IInv, JInv, NEW a \in Auths, PinMatches(a)
    PROVE  JInv'
  <1> DEFINE n == <<who[a], mTok[who[a]], uid[a], epoch>>
  <1>0. /\ who[a] \in Users /\ uid[a] \in Uids /\ mPin[who[a]] = uid[a] /\ mTok[who[a]] # 0
        /\ pinner = None /\ pinner' = None /\ accepted' = accepted \cup {n}
        /\ pc' = [pc EXCEPT ![a] = "accepted"]
        /\ UNCHANGED <<fTok, fPin, mTok, mPin, dTok, dPin, dStale, rPc, rTok, rPin, rDead, rStale,
                       cPc, cTok, cPin, cStale, fresh, dead, revoked, lost, unsaved, who, uid>>
    BY DEF PinMatches, Accept, IInv, Holder
  <1>1. n[1] = who[a] /\ n[2] = mTok[who[a]] /\ n[3] = uid[a] OBVIOUS
  <1> HIDE DEF n
  <1>2. mTok[who[a]] \in Nat /\ None \notin Uids /\ None \notin Auths
    BY <1>0, UidPinAssumption DEF IInv, TypeOK, Gens
  <1>3. \A b \in Auths : pc[b] # "pinning" /\ pc'[b] # "pinning"
    BY <1>0, <1>2 DEF IInv, Holder, TypeOK
  <1>4. Tokens' BY <1>0, <1>1, <1>2 DEF JInv, Tokens
  <1>5. Documents' BY <1>0, <1>2 DEF JInv, Documents
  <1>6. Buried' /\ Succession' BY <1>0, <1>1 DEF JInv, Buried, Succession
  <1>7. PinsFollow' BY <1>0, <1>3 DEF JInv, PinsFollow, Follows
  <1>8. UsesPinned'
    BY <1>0, <1>1, <1>2, <1>3 DEF JInv, UsesPinned, PinsFollow, Follows
  <1>9. PinsHold' BY <1>0, <1>1 DEF JInv, UsesPinned, PinsHold
  <1> QED BY <1>4, <1>5, <1>6, <1>7, <1>8, <1>9 DEF JInv

\* persistUIDPin loads the file: a first use was not used before.
LEMMA LoadForPinLater ==
    ASSUME IInv, JInv, NEW a \in Auths, PinFirstUse(a) \/ PinMismatch(a)
    PROVE  JInv'
  <1> DEFINE w == who[a]
  <1>0. /\ w \in Users /\ uid[a] \in Uids /\ mTok[w] # 0 /\ pinner = None /\ pinner' = a
        /\ \/ mPin[w] = None /\ mPin' = [mPin EXCEPT ![w] = uid[a]] /\ pc' = [pc EXCEPT ![a] = "pinning"]
           \/ mPin[w] # None /\ mPin' = mPin /\ pc' = [pc EXCEPT ![a] = "refusing"]
        /\ dTok' = fTok /\ dPin' = [fPin EXCEPT ![w] = mPin'[w]] /\ dStale' = FALSE
        /\ UNCHANGED <<fTok, fPin, mTok, rPc, rTok, rPin, rDead, rStale,
                       cPc, cTok, cPin, cStale, fresh, accepted, dead, revoked, lost, unsaved, who, uid>>
    BY DEF PinFirstUse, PinMismatch, LoadForPin, IInv, Holder, TypeOK
  <1>1. /\ None \notin Uids /\ None \notin Auths /\ mPin \in [Users -> Pins]
        /\ pc[a] = "looked"
    BY UidPinAssumption DEF IInv, TypeOK, PinFirstUse, PinMismatch
  <1>2. mPin'[w] # None /\ \A u \in Users : u # w => mPin'[u] = mPin[u]
    BY <1>0, <1>1
  <1>3. /\ \A b \in Auths : pc[b] # "pinning"
        /\ (pc'[a] = "pinning" /\ who'[a] = w) \/ mPin' = mPin
    BY <1>0, <1>1 DEF IInv, Holder, TypeOK
  <1> HIDE DEF w
  <1>4. Tokens' BY <1>0 DEF JInv, Tokens
  <1>5. Documents' BY <1>0, <1>2 DEF JInv, Documents, w
  <1>6. Buried' /\ Succession' BY <1>0 DEF JInv, Buried, Succession
  <1>7. PinsFollow' 
    <2>1. ASSUME NEW u \in Users PROVE mPin'[u] = mPin[u] \/ \E b \in Auths : pc'[b] = "pinning" /\ who'[b] = u
      BY <1>2, <1>3
    <2> QED BY <1>0, <1>3, <2>1 DEF JInv, PinsFollow, Follows
  <1>8. UsesPinned'
    <2>1. \A p \in accepted : p[1] \in Users /\ p[3] \in Uids BY DEF IInv, TypeOK
    <2>2. (~lost /\ ~unsaved) => \A p \in accepted : p[2] = mTok[p[1]] => mPin'[p[1]] = mPin[p[1]]
      BY <1>0, <1>1, <1>2, <2>1 DEF JInv, UsesPinned
    <2> QED BY <1>0, <2>2 DEF JInv, UsesPinned
  <1>9. PinsHold' BY <1>0 DEF JInv, PinsHold
  <1> QED BY <1>4, <1>5, <1>6, <1>7, <1>8, <1>9 DEF JInv

\* SaveDoc: the file now has the pin in memory.
LEMMA PinSaveLater ==
    ASSUME IInv, JInv, NEW a \in Auths, PinSave(a)
    PROVE  JInv'
  <1> DEFINE w == who[a]
             n == <<who[a], mTok[who[a]], uid[a], epoch>>
  <1>0. /\ pinner = a /\ pinner' = None /\ w \in Users /\ uid[a] \in Uids /\ mTok[w] # 0
        /\ mPin[w] # None /\ dTok[w] # 0
        /\ \/ pc[a] = "pinning" /\ accepted' = accepted \cup {n} /\ mPin[w] = uid[a] /\ rStale'
           \/ pc[a] = "refusing" /\ accepted' = accepted /\ rStale' = rStale
        /\ \A b \in Auths : pc'[b] # "pinning"
        /\ fTok' = dTok /\ fPin' = dPin /\ cStale' /\ lost' = (lost \/ dStale)
        /\ UNCHANGED <<mTok, mPin, dTok, dPin, dStale, rPc, rTok, rPin, rDead,
                       cPc, cTok, cPin, fresh, dead, revoked, unsaved, who, uid>>
    <2>1. pinner = a /\ pc[a] \in {"pinning", "refusing"} /\ w \in Users /\ uid[a] \in Uids
          /\ (pc[a] = "pinning" => mPin[w] = uid[a]) /\ mTok[w] # 0 /\ mPin[w] # None
      BY DEF PinSave, PinReturns, IInv, Holder, JInv, Documents
    <2>2. pinner' = None /\ (pc[a] = "pinning" => accepted' = accepted \cup {n})
          /\ (pc[a] = "refusing" => accepted' = accepted)
      BY DEF PinSave, PinReturns, Accept
    <2>3. \A b \in Auths : pc'[b] # "pinning"
      <3>1. IInv' BY StepInv DEF Next, AuthStep
      <3> QED BY <2>2, <3>1, UidPinAssumption DEF IInv, Holder
    <2>4. rStale' = (rStale \/ pc[a] = "pinning") /\ rStale \in BOOLEAN
      BY DEF PinSave, IInv, TypeOK
    <2> QED BY <2>1, <2>2, <2>3, <2>4 DEF PinSave
  <1>1. n[1] = w /\ n[2] = mTok[w] /\ n[3] = uid[a] OBVIOUS
  <1> HIDE DEF n
  <1>2. /\ mTok[w] \in Nat /\ None \notin Uids /\ None \notin Auths
        /\ \A p \in accepted : p[1] \in Users /\ p[2] \in Nat /\ p[3] \in Uids
    BY <1>0, UidPinAssumption DEF IInv, TypeOK, Gens
  <1>3. ~lost' => /\ ~lost /\ fTok' = fTok /\ fPin' = [fPin EXCEPT ![w] = mPin[w]] /\ fPin'[w] = mPin[w]
                  /\ \A u \in Users : u # w => fPin'[u] = fPin[u]
    <2>1. fPin \in [Users -> Pins] BY DEF IInv, TypeOK
    <2> QED BY <1>0, <2>1 DEF JInv, Documents
  <1>x. (~lost /\ ~unsaved) => \A p \in accepted' : p[2] = mTok[p[1]] => mPin[p[1]] = p[3]
    BY <1>0, <1>1 DEF JInv, UsesPinned
  <1> HIDE DEF w
  <1>4. Tokens' BY <1>0, <1>1, <1>2 DEF JInv, Tokens
  <1>5. Documents' BY <1>0, <1>2 DEF JInv, Documents
  <1>6. Buried' BY <1>0, <1>3 DEF JInv, Buried
  <1>7. Succession' BY <1>0, <1>1, <1>3 DEF JInv, Succession
  <1>8. PinsFollow'
    <2> SUFFICES ASSUME ~lost', ~unsaved', NEW u \in Users
                 PROVE  /\ Follows(mPin[u], fPin'[u], mTok[u] = fTok'[u] /\ fTok'[u] # 0)
                        /\ rPc = "read" /\ ~rStale' =>
                             /\ Follows(mPin[u], rPin[u], mTok[u] = rTok[u] /\ rTok[u] # 0)
                             /\ Follows(rPin[u], fPin'[u], rTok[u] = fTok'[u] /\ fTok'[u] # 0)
      BY <1>0 DEF PinsFollow, Follows
    <2>1. CASE u = w
      <3>1. Follows(mPin[u], fPin'[u], mTok[u] = fTok'[u] /\ fTok'[u] # 0)
        BY <1>3, <2>1 DEF Follows
      <3>2. ASSUME rPc = "read", ~rStale'
            PROVE  /\ Follows(mPin[u], rPin[u], mTok[u] = rTok[u] /\ rTok[u] # 0)
                   /\ Follows(rPin[u], fPin'[u], rTok[u] = fTok'[u] /\ fTok'[u] # 0)
        <4>1. pc[a] = "refusing" /\ ~rStale BY <1>0, <3>2
        <4>2. \A b \in Auths : pc[b] # "pinning" BY <1>0, <4>1 DEF IInv, Holder
        <4>3. /\ Follows(mPin[u], rPin[u], mTok[u] = rTok[u] /\ rTok[u] # 0)
              /\ Follows(mPin[u], fPin[u], mTok[u] = fTok[u] /\ fTok[u] # 0)
              /\ Follows(rPin[u], fPin[u], rTok[u] = fTok[u] /\ fTok[u] # 0)
          BY <1>0, <1>3, <3>2, <4>1, <4>2 DEF JInv, PinsFollow
        <4> QED BY <1>0, <1>3, <2>1, <4>3 DEF Follows
      <3> QED BY <3>1, <3>2
    <2>2. CASE u # w
      <3>1. \A b \in Auths : pc[b] = "pinning" => who[b] # u
        BY <1>0, <2>2 DEF IInv, Holder, w
      <3>2. fPin'[u] = fPin[u] /\ fTok' = fTok /\ (~rStale' => ~rStale) BY <1>0, <1>3, <2>2
      <3> QED BY <1>0, <1>3, <3>1, <3>2 DEF JInv, PinsFollow, Follows
    <2> QED BY <2>1, <2>2
  <1>9. UsesPinned'
    <2> SUFFICES ASSUME ~lost', ~unsaved', NEW p \in accepted'
                 PROVE  /\ p[2] = fTok'[p[1]] => fPin'[p[1]] = p[3]
                        /\ p[2] = mTok[p[1]] => mPin[p[1]] = p[3]
                        /\ rPc = "read" /\ ~rStale' /\ p[2] = rTok[p[1]] => rPin[p[1]] = p[3]
      BY <1>0 DEF UsesPinned
    <2>1. p[2] = mTok[p[1]] => mPin[p[1]] = p[3] BY <1>x, <1>0, <1>3
    <2>2. ~rStale' => p \in accepted /\ ~rStale BY <1>0
    <2>3. rPc = "read" /\ ~rStale' /\ p[2] = rTok[p[1]] => rPin[p[1]] = p[3]
      BY <1>0, <1>3, <2>2 DEF JInv, UsesPinned
    <2>4. ASSUME p[2] = fTok'[p[1]] PROVE fPin'[p[1]] = p[3]
      <3>1. p[2] = mTok[p[1]] BY <1>3, <1>7, <2>4, <1>0 DEF Succession
      <3>2. CASE p[1] = w BY <1>3, <2>1, <3>1, <3>2
      <3>3. CASE p[1] # w
        <4>1. p \in accepted /\ p[1] \in Users BY <1>0, <1>1, <1>2, <3>3
        <4> QED BY <1>0, <1>3, <2>4, <3>3, <4>1 DEF JInv, UsesPinned
      <3> QED BY <3>2, <3>3
    <2> QED BY <2>1, <2>3, <2>4
  <1>10. PinsHold'
    BY <1>0, <1>1, <1>3 DEF JInv, UsesPinned, PinsHold
  <1> QED BY <1>4, <1>5, <1>6, <1>7, <1>8, <1>9, <1>10 DEF JInv

\* The pin could not be saved: nothing is claimed of the pins any more, or
\* nothing was pinned.
LEMMA PinSaveFailsLater ==
    ASSUME IInv, JInv, NEW a \in Auths, PinSaveFails(a)
    PROVE  JInv'
  <1> DEFINE n == <<who[a], mTok[who[a]], uid[a], epoch>>
  <1>0. /\ pinner = a /\ pinner' = None /\ who[a] \in Users /\ mTok[who[a]] # 0
        /\ accepted' \subseteq accepted \cup {n}
        /\ ~unsaved' => ~unsaved /\ accepted' = accepted /\ pc[a] # "pinning"
        /\ UNCHANGED <<fTok, fPin, mTok, mPin, dTok, dPin, dStale, rPc, rTok, rPin, rDead, rStale,
                       cPc, cTok, cPin, cStale, fresh, dead, revoked, lost, who, uid>>
    BY DEF PinSaveFails, PinReturns, Accept, IInv, Holder, JInv, Documents
  <1>1. n[1] = who[a] /\ n[2] = mTok[who[a]] OBVIOUS
  <1> HIDE DEF n
  <1>2. mTok[who[a]] \in Nat /\ None \notin Auths
    BY <1>0, UidPinAssumption DEF IInv, TypeOK, Gens
  <1>3. Tokens' BY <1>0, <1>1, <1>2 DEF JInv, Tokens
  <1>4. Documents' BY <1>0, <1>2 DEF JInv, Documents
  <1>5. Buried' /\ Succession' BY <1>0, <1>1 DEF JInv, Buried, Succession
  <1>6. PinsFollow'
    <2>1. ~unsaved' => \A b \in Auths : pc[b] # "pinning" BY <1>0 DEF IInv, Holder
    <2> QED BY <1>0, <2>1 DEF JInv, PinsFollow, Follows
  <1>7. UsesPinned' /\ PinsHold' BY <1>0 DEF JInv, UsesPinned, PinsHold
  <1> QED BY <1>3, <1>4, <1>5, <1>6, <1>7 DEF JInv

\* reloadConfig reads the file, then swaps what it read into memory; a restart
\* does both at once.
LEMMA ReloadLater ==
    ASSUME IInv, JInv, ReloadRead \/ ReloadSwap \/ Restart
    PROVE  JInv'
  <1>t. None \notin Auths /\ dead \subseteq Users \X Gens /\ \A p \in accepted : p[1] \in Users
    BY UidPinAssumption DEF IInv, TypeOK
  <1>1. CASE ReloadRead
    <2>0. /\ rPc' = "read" /\ rTok' = fTok /\ rPin' = fPin /\ rDead' = dead /\ rStale' = FALSE
          /\ UNCHANGED <<fTok, fPin, mTok, mPin, dTok, dPin, dStale, cPc, cTok, cPin, cStale, fresh,
                         accepted, dead, revoked, lost, unsaved, who, uid, pc, pinner>>
      BY <1>1 DEF ReloadRead
    <2>1. Tokens' BY <2>0 DEF JInv, Tokens
    <2>2. Documents' BY <2>0 DEF JInv, Documents
    <2>3. Buried' /\ Succession' BY <2>0 DEF JInv, Buried, Succession
    <2>4. PinsFollow' BY <2>0 DEF JInv, PinsFollow, Follows
    <2>5. UsesPinned' /\ PinsHold' BY <2>0 DEF JInv, UsesPinned, PinsHold
    <2> QED BY <2>1, <2>2, <2>3, <2>4, <2>5 DEF JInv
  <1>2. CASE ReloadSwap
    <2>0. /\ rPc = "read" /\ pinner = None /\ rPc' = "idle" /\ mTok' = rTok /\ mPin' = rPin
          /\ revoked' = rDead /\ lost' = (lost \/ rStale)
          /\ UNCHANGED <<fTok, fPin, dTok, dPin, dStale, cPc, cTok, cPin, cStale, fresh,
                         rTok, rPin, rDead, rStale, accepted, dead, unsaved, who, uid, pc, pinner>>
      BY <1>2 DEF ReloadSwap
    <2>1. Tokens' BY <2>0 DEF JInv, Tokens
    <2>2. Documents' BY <1>t, <2>0 DEF JInv, Documents
    <2>3. Buried' BY <2>0 DEF JInv, Buried
    <2>4. Succession'
      <3>1. \A p \in accepted : p[2] # 0 BY DEF IInv, TypeOK, Gens, JInv, Tokens
      <3> QED BY <1>t, <2>0, <3>1 DEF JInv, Succession
    <2>5. PinsFollow' BY <2>0 DEF JInv, PinsFollow, Follows
    <2>6. UsesPinned' /\ PinsHold' BY <2>0 DEF JInv, UsesPinned, PinsHold
    <2> QED BY <2>1, <2>2, <2>3, <2>4, <2>5, <2>6 DEF JInv
  <1>3. CASE Restart
    <2>0. /\ rPc' = "idle" /\ mTok' = fTok /\ mPin' = fPin /\ pinner' = None /\ revoked' = dead
          /\ UNCHANGED <<fTok, fPin, dTok, dPin, dStale, cPc, cTok, cPin, cStale, fresh,
                         rTok, rPin, rDead, rStale, accepted, dead, unsaved, lost, who, uid>>
      BY <1>3 DEF Restart
    <2>1. Tokens' BY <2>0 DEF JInv, Tokens
    <2>2. Documents' BY <1>t, <2>0 DEF JInv, Documents
    <2>3. Buried' /\ Succession' BY <2>0 DEF JInv, Buried, Succession
    <2>4. PinsFollow' BY <2>0 DEF PinsFollow, Follows
    <2>5. UsesPinned' /\ PinsHold' BY <2>0 DEF JInv, UsesPinned, PinsHold
    <2> QED BY <2>1, <2>2, <2>3, <2>4, <2>5 DEF JInv
  <1> QED BY <1>1, <1>2, <1>3

\* linuxctl gives an entry a token nobody has used, or removes it.
LEMMA CtlLater ==
    ASSUME IInv, JInv, CtlLoad \/ \E u \in Users : CtlSetToken(u) \/ CtlDelete(u)
    PROVE  JInv'
  <1>1. CASE CtlLoad
    <2>0. /\ cPc' = "loaded" /\ cTok' = fTok /\ cPin' = fPin
          /\ UNCHANGED <<fTok, fPin, mTok, mPin, dTok, dPin, dStale, rPc, rTok, rPin, rDead, rStale, fresh,
                         accepted, dead, revoked, lost, unsaved, who, uid, pc, pinner>>
      BY <1>1 DEF CtlLoad
    <2>1. Tokens' /\ Buried' /\ Succession' BY <2>0 DEF JInv, Tokens, Buried, Succession
    <2>2. Documents' BY <2>0 DEF JInv, Documents
    <2>3. PinsFollow' BY <2>0 DEF JInv, PinsFollow, Follows
    <2>4. UsesPinned' /\ PinsHold' BY <2>0 DEF JInv, UsesPinned, PinsHold
    <2> QED BY <2>1, <2>2, <2>3, <2>4 DEF JInv
  <1>2. ASSUME NEW u \in Users, CtlSetToken(u) \/ CtlDelete(u)
        PROVE  JInv'
    <2> PICK g \in Nat : /\ CtlSave(u, g)
                         /\ \/ g = fresh /\ fresh' = fresh + 1
                            \/ g = 0 /\ fresh' = fresh
      BY <1>2 DEF CtlSetToken, CtlDelete, IInv, TypeOK
    <2>0. /\ cPc = "loaded" /\ cPc' = "idle" /\ dStale' = TRUE /\ lost' = (lost \/ cStale)
          /\ fTok' = [cTok EXCEPT ![u] = g] /\ fPin' = [cPin EXCEPT ![u] = None]
          /\ dead' = IF cTok[u] # 0 THEN dead \cup {<<u, cTok[u]>>} ELSE dead
          /\ UNCHANGED <<mTok, mPin, dTok, dPin, rPc, rTok, rPin, rDead, rStale, cTok, cPin, cStale,
                         accepted, revoked, unsaved, who, uid, pc, pinner>>
      BY DEF CtlSave
    <2>t. /\ fresh \in Nat /\ g < fresh' /\ fresh <= fresh'
          /\ cTok \in [Users -> Nat] /\ cPin \in [Users -> Pins] /\ mTok \in [Users -> Nat]
          /\ rTok \in [Users -> Nat] /\ dTok \in [Users -> Nat] /\ fTok \in [Users -> Nat]
          /\ \A p \in accepted : p[1] \in Users /\ p[2] \in Nat
          /\ \A p \in dead : p[2] \in Nat
      BY DEF IInv, TypeOK, Gens
    <2> DEFINE x == <<u, cTok[u]>>
    <2>x. x[1] = u /\ x[2] = cTok[u] OBVIOUS
    <2>1. Tokens'
      <3>1. \A v \in Users : fTok'[v] < fresh' BY <2>0, <2>t DEF JInv, Tokens
      <3>2. \A v \in Users : mTok[v] < fresh' /\ rTok[v] < fresh' /\ cTok[v] < fresh' /\ dTok[v] < fresh'
        BY <2>t DEF JInv, Tokens
      <3>3. \A p \in accepted : 0 < p[2] /\ p[2] < fresh' BY <2>t DEF JInv, Tokens
      <3>4. \A p \in dead : 0 < p[2] /\ p[2] < fresh' BY <2>t DEF JInv, Tokens
      <3>5. cTok[u] # 0 => 0 < x[2] /\ x[2] < fresh' BY <2>x, <2>t, <3>2
      <3> HIDE DEF x
      <3>6. \A p \in dead' : 0 < p[2] /\ p[2] < fresh' BY <2>0, <3>4, <3>5 DEF x
      <3> QED BY <2>0, <3>1, <3>2, <3>3, <3>6 DEF Tokens
    <2>2. Documents' BY <2>0 DEF JInv, Documents
    <2>3. ~lost' => /\ ~lost /\ fTok' = [fTok EXCEPT ![u] = g] /\ fPin' = [fPin EXCEPT ![u] = None]
                    /\ x = <<u, fTok[u]>>
      BY <2>0 DEF JInv, Documents
    <2>4. ~lost' => /\ fTok'[u] = g /\ fPin'[u] = None
                    /\ \A v \in Users : v # u => fTok'[v] = fTok[v] /\ fPin'[v] = fPin[v]
      BY <2>0, <2>t, <2>3
    <2>5. (g # 0 => \A v \in Users : mTok[v] # g /\ rTok[v] # g /\ fTok[v] # g)
          /\ (\A p \in accepted : p[2] # g) /\ (\A p \in dead : p[2] # g)
      BY <2>t DEF JInv, Tokens
    <2>6. Buried'
      <3>1. ASSUME ~lost', NEW v \in Users PROVE <<v, fTok'[v]>> \notin dead'
        <4>1. CASE v = u
          <5>1. <<u, g>> \notin dead BY <2>5
          <5>2. cTok[u] # 0 => <<u, g>> # x BY <2>3, <2>5, <3>1
          <5> QED BY <2>0, <2>4, <3>1, <4>1, <5>1, <5>2
        <4>2. CASE v # u
          <5>1. <<v, fTok[v]>> \notin dead BY <2>3, <3>1 DEF JInv, Buried
          <5> QED BY <2>0, <2>4, <3>1, <4>2, <5>1
        <4> QED BY <4>1, <4>2
      <3> QED BY <2>0, <2>3, <3>1 DEF JInv, Buried
    <2>7. Succession' BY <2>0, <2>t, <2>3, <2>4, <2>5 DEF JInv, Succession
    <2>8. PinsFollow'
      <3> SUFFICES ASSUME ~lost', ~unsaved', NEW v \in Users
                   PROVE  /\ (\A a \in Auths : pc[a] = "pinning" => who[a] # v) =>
                               /\ Follows(mPin[v], fPin'[v], mTok[v] = fTok'[v] /\ fTok'[v] # 0)
                               /\ rPc = "read" /\ ~rStale =>
                                     Follows(mPin[v], rPin[v], mTok[v] = rTok[v] /\ rTok[v] # 0)
                          /\ rPc = "read" /\ ~rStale =>
                               Follows(rPin[v], fPin'[v], rTok[v] = fTok'[v] /\ fTok'[v] # 0)
        BY <2>0 DEF PinsFollow, Follows
      <3>1. CASE v = u BY <2>0, <2>3, <2>4, <2>5, <3>1 DEF JInv, PinsFollow, Follows
      <3>2. CASE v # u BY <2>0, <2>3, <2>4, <3>2 DEF JInv, PinsFollow, Follows
      <3> QED BY <3>1, <3>2
    <2>9. UsesPinned' BY <2>0, <2>t, <2>3, <2>4, <2>5 DEF JInv, UsesPinned
    <2>10. PinsHold' BY <2>0, <2>3 DEF JInv, PinsHold
    <2> QED BY <2>1, <2>2, <2>6, <2>7, <2>8, <2>9, <2>10 DEF JInv
  <1> QED BY <1>1, <1>2

\* Every step keeps the copies of users.yaml in order.
LEMMA StepLater == IInv /\ JInv /\ [Next]_vars => JInv'
  <1> SUFFICES ASSUME IInv, JInv, [Next]_vars PROVE JInv' OBVIOUS
  <1>1. ASSUME NEW a \in Auths, (\E u \in Users : MatchToken(a, u)) \/ LookupUid(a) \/ PinMissing(a)
        PROVE  JInv'
    <2>1. \A b \in Auths : b # a => pc'[b] = pc[b] /\ who'[b] = who[b]
      BY <1>1 DEF MatchToken, LookupUid, PinMissing, IInv, TypeOK
    <2>2. pinner # a /\ pc'[a] # "pinning"
      BY <1>1 DEF MatchToken, LookupUid, PinMissing, IInv, TypeOK, Holder
    <2> QED BY <1>1, <2>1, <2>2, QuietKeeps DEF MatchToken, LookupUid, PinMissing
  <1>2. ASSUME NEW a \in Auths, AuthStep(a) PROVE JInv'
    BY <1>1, <1>2, PinMatchesLater, LoadForPinLater, PinSaveLater, PinSaveFailsLater DEF AuthStep
  <1>3. CASE (\E u \in Users, i \in Pins : ChangeAccount(u, i)) \/ UNCHANGED vars
    BY <1>3, QuietKeeps DEF ChangeAccount, vars
  <1> QED BY <1>2, <1>3, ReloadLater, CtlLater DEF Next

\* In every reachable state.
THEOREM CopiesInOrder == Spec => []JInv
  BY InitLater, StepLater, UidPinInvariant, PTL DEF Spec

\* Trust on first use across reloads, restarts and runs of linuxctl: while no
\* older copy of users.yaml overwrote a newer one and every pin was saved, an
\* entry is accepted with one uid only.
THEOREM FirstUseIsKept == Spec => []PinsHold
  <1>1. JInv => PinsHold BY DEF JInv
  <1> QED BY <1>1, CopiesInOrder, PTL

\* A token that linuxctl replaced or removed before the users in effect were
\* read is not among them, while no write of users.yaml was overtaken.
THEOREM RevocationHolds == Spec => []DeadTokensStayDead
  <1>1. JInv => DeadTokensStayDead BY DEF JInv, Buried, DeadTokensStayDead
  <1> QED BY <1>1, CopiesInOrder, PTL

=============================================================================
