------------------------- MODULE ResourceReadsProofs -------------------------
(***************************************************************************)
(* ResourceReads, for any users, reads, grants and number of reloads:      *)
(* content read by a root worker needs a grant of the caller, and the      *)
(* reload's Clear is a barrier.                                            *)
(***************************************************************************)
EXTENDS ResourceReads, TLAPS

\* The settings are replaced before the cache is cleared, once each.
Counted ==
    /\ clears <= epoch
    /\ clearing => clears < epoch

\* A read that began has a URI, a user and a snapshot of the past.
Begun ==
    \A r \in Reads : pc[r] # "idle" =>
        /\ uri[r] \in Uris /\ user[r] \in Users
        /\ snap[r] <= epoch /\ since[r] <= clears

\* Past the first check, a strict resource is granted in the read's snapshot,
\* and whatever a root worker read is.
Checked ==
    \A r \in Reads :
        /\ (pc[r] \notin {"idle", "arrived", "refused"} /\ uri[r] \in Strict)
              => CanReadResourceAsRoot(r)
        /\ account[r] # None => pc[r] \in {"produced", "answered"}
        /\ account[r] = "root" =>
              /\ CanReadResourceAsRoot(r)
              /\ uri[r] \notin {"uname", "timezone", "interfaces", "disks"}

\* What an item, a copy of it or an answer names is a finished read of the
\* same URI.
Source(b, x) == b \in Reads /\ uri[b] = x /\ pc[b] = "answered" /\ x \in Cached

\* An item was stored since the last Clear, and a copy of one since the read
\* that holds it began.
Stored ==
    /\ \A x \in AllUris : items[x] # None =>
          Source(items[x], x) /\ storedIn[items[x]] >= clears
    /\ \A r \in Reads : pc[r] = "got" =>
          Source(got[r], uri[r]) /\ storedIn[got[r]] >= since[r]

\* An answer is the read's own content or that of an item.
Answered ==
    \A r \in Reads : pc[r] = "answered" =>
        /\ by[r] = r \/ Source(by[r], uri[r])
        /\ storedIn[by[r]] >= since[r]

IInv == TypeOK /\ Counted /\ Begun /\ Checked /\ Stored /\ Answered

-----------------------------------------------------------------------------

\* The initial states satisfy the invariant.
LEMMA InitInv == Init => IInv
<1> SUFFICES ASSUME Init PROVE IInv
  OBVIOUS
<1> USE ResourceReadsAssumption
<1> PICK g \in [Users -> GrantSets] : grants = [e \in Epochs |-> g]
  BY DEF Init
<1>0. 0 \in Epochs
  BY DEF Epochs
<1>1. TypeOK
  BY <1>0 DEF Init, TypeOK, Ended
<1>2. Counted /\ Begun /\ Answered
  BY DEF Init, Counted, Begun, Answered
<1>3. Checked
  BY DEF Init, Checked
<1>4. Stored
  BY DEF Init, Stored
<1> QED
  BY <1>1, <1>2, <1>3, <1>4 DEF IInv

\* A grant of a snapshot stays what it was, whatever a later reload brings.
LEMMA GrantsKept ==
  ASSUME IInv, NEW r \in Reads, pc[r] # "idle",
         UNCHANGED <<user[r], uri[r], snap[r]>>,
         \/ UNCHANGED grants
         \/ \E g \in [Users -> GrantSets] :
               grants' = [e \in Epochs |-> IF e <= epoch THEN grants[e] ELSE g]
  PROVE  CanReadResourceAsRoot(r)' <=> CanReadResourceAsRoot(r)
<1>1. snap[r] \in Epochs /\ snap[r] <= epoch
  BY DEF IInv, TypeOK, Begun
<1>2. grants'[snap[r]] = grants[snap[r]]
  BY <1>1
<1> QED
  BY <1>2 DEF CanReadResourceAsRoot

\* The arrival of a read.
LEMMA ArriveInv ==
  ASSUME IInv, NEW r \in Reads, NEW u \in Users, NEW x \in Uris, Arrive(r, u, x)
  PROVE  IInv'
<1> USE ResourceReadsAssumption
<1>0. epoch \in Epochs /\ clears \in Epochs
  BY DEF IInv, TypeOK
<1>a. \A y \in AllUris : items'[y] # None => uri'[items'[y]] = y
  BY DEF IInv, TypeOK, Stored, Source, Arrive
<1>1. TypeOK'
  BY <1>0, <1>a DEF IInv, TypeOK, Arrive, Goto, confVars
<1>2. Counted' /\ Begun'
  BY DEF IInv, TypeOK, Counted, Begun, Arrive, Goto, confVars, Epochs
<1>3. Checked'
  BY DEF IInv, TypeOK, Checked, Arrive, Goto, confVars, CanReadResourceAsRoot
<1>4. Stored' /\ Answered'
  BY DEF IInv, TypeOK, Stored, Answered, Source, Arrive, Goto, confVars
<1> QED
  BY <1>1, <1>2, <1>3, <1>4 DEF IInv

\* The steps of a read before it produces anything.
LEMMA LookInv ==
  ASSUME IInv, NEW r \in Reads,
         PreAuthorize(r) \/ GetItem(r) \/ CheckItem(r) \/ Evict(r) \/ Fail(r)
  PROVE  IInv'
<1> USE ResourceReadsAssumption
<1>1. CASE PreAuthorize(r)
  <2>1. TypeOK'
    BY <1>1 DEF IInv, TypeOK, PreAuthorize, Goto, confVars, argVars, Ended
  <2>2. Counted' /\ Begun'
    BY <1>1 DEF IInv, TypeOK, Counted, Begun, PreAuthorize, Goto, confVars, argVars
  <2>3. Checked'
    BY <1>1 DEF IInv, TypeOK, Checked, PreAuthorize, Goto, confVars, argVars, CanReadResourceAsRoot
  <2>4. Stored' /\ Answered'
    BY <1>1 DEF IInv, TypeOK, Stored, Answered, Source, PreAuthorize, Goto, confVars, argVars
  <2> QED
    BY <2>1, <2>2, <2>3, <2>4 DEF IInv
<1>2. CASE GetItem(r)
  <2>0. uri[r] \in AllUris
    BY <1>2 DEF IInv, TypeOK, Begun, GetItem
  <2>1. TypeOK'
    BY <1>2, <2>0 DEF IInv, TypeOK, GetItem, Goto, confVars, argVars
  <2>2. Counted' /\ Begun'
    BY <1>2 DEF IInv, TypeOK, Counted, Begun, GetItem, Goto, confVars, argVars
  <2>3. Checked'
    BY <1>2 DEF IInv, TypeOK, Checked, GetItem, Goto, confVars, argVars, CanReadResourceAsRoot
  <2>a. since[r] <= clears /\ clears \in Nat /\ since[r] \in Nat /\ storedIn \in [Reads -> Nat]
    BY <1>2 DEF IInv, TypeOK, Begun, GetItem, Epochs
  <2>b. items[uri[r]] # None =>
            Source(items[uri[r]], uri[r]) /\ storedIn[items[uri[r]]] >= since[r]
    BY <2>0, <2>a DEF IInv, Stored, Source
  <2>c. \A b \in Reads, x \in AllUris : Source(b, x) => Source(b, x)'
    BY <1>2 DEF IInv, TypeOK, Source, GetItem, Goto, argVars
  <2>4. Stored'
    BY <1>2, <2>b, <2>c, <2>0 DEF IInv, TypeOK, Stored, Source, Begun, GetItem, Goto, confVars, argVars
  <2>5. Answered'
    BY <1>2 DEF IInv, TypeOK, Answered, Source, GetItem, Goto, confVars, argVars
  <2> QED
    BY <2>1, <2>2, <2>3, <2>4, <2>5 DEF IInv
<1>3. CASE CheckItem(r)
  <2>0. got[r] \in Reads
    BY <1>3 DEF IInv, Stored, Source, CheckItem
  <2>a. by' \in [Reads -> Reads \cup {None}]
    BY <1>3, <2>0 DEF IInv, TypeOK, CheckItem
  <2>b. pc' \in [Reads -> {"idle", "arrived", "get", "got", "evict", "miss", "produced"} \cup Ended]
    BY <1>3 DEF IInv, TypeOK, CheckItem, Goto, Ended
  <2>1. TypeOK'
    BY <1>3, <2>a, <2>b DEF IInv, TypeOK, CheckItem, confVars, argVars
  <2>2. Counted' /\ Begun'
    BY <1>3 DEF IInv, TypeOK, Counted, Begun, CheckItem, Goto, confVars, argVars
  <2>3. Checked'
    BY <1>3 DEF IInv, TypeOK, Checked, CheckItem, Goto, confVars, argVars, CanReadResourceAsRoot
  <2>4. Stored'
    BY <1>3 DEF IInv, TypeOK, Stored, Source, CheckItem, Goto, confVars, argVars
  <2>5. Answered'
    BY <1>3 DEF IInv, TypeOK, Answered, Stored, Source, CheckItem, Goto, confVars, argVars
  <2> QED
    BY <2>1, <2>2, <2>3, <2>4, <2>5 DEF IInv
<1>4. CASE Evict(r)
  <2>1. TypeOK'
    BY <1>4 DEF IInv, TypeOK, Begun, Evict, Goto, confVars, argVars, Ended
  <2>2. Counted' /\ Begun'
    BY <1>4 DEF IInv, TypeOK, Counted, Begun, Evict, Goto, confVars, argVars
  <2>3. Checked'
    BY <1>4 DEF IInv, TypeOK, Checked, Evict, Goto, confVars, argVars, CanReadResourceAsRoot
  <2>4. Stored' /\ Answered'
    BY <1>4 DEF IInv, TypeOK, Stored, Answered, Source, Evict, Goto, confVars, argVars
  <2> QED
    BY <2>1, <2>2, <2>3, <2>4 DEF IInv
<1>5. CASE Fail(r)
  <2>1. TypeOK'
    BY <1>5 DEF IInv, TypeOK, Fail, Goto, confVars, argVars, Ended
  <2>2. Counted' /\ Begun'
    BY <1>5 DEF IInv, TypeOK, Counted, Begun, Fail, Goto, confVars, argVars
  <2>3. Checked'
    BY <1>5 DEF IInv, TypeOK, Checked, Fail, Goto, confVars, argVars, CanReadResourceAsRoot
  <2>4. Stored' /\ Answered'
    BY <1>5 DEF IInv, TypeOK, Stored, Answered, Source, Fail, Goto, confVars, argVars
  <2> QED
    BY <2>1, <2>2, <2>3, <2>4 DEF IInv
<1> QED
  BY <1>1, <1>2, <1>3, <1>4, <1>5

\* The content is read, and stored.
LEMMA ReadInv ==
  ASSUME IInv, NEW r \in Reads, Produce(r) \/ Answer(r)
  PROVE  IInv'
<1> USE ResourceReadsAssumption
<1>1. CASE Produce(r)
  <2>0. Reader(r) \in {"master", "user", "root"} /\ (Reader(r) = "root" =>
            /\ CanReadResourceAsRoot(r)
            /\ uri[r] \notin {"uname", "timezone", "interfaces", "disks"})
    BY <1>1 DEF Produce, MayRead, Reader
  <2>1. TypeOK'
    BY <1>1, <2>0 DEF IInv, TypeOK, Produce, Goto, confVars, argVars, Ended
  <2>2. Counted' /\ Begun'
    BY <1>1 DEF IInv, TypeOK, Counted, Begun, Produce, Goto, confVars, argVars
  <2>3. Checked'
    BY <1>1, <2>0 DEF IInv, TypeOK, Checked, Produce, Goto, confVars, argVars, CanReadResourceAsRoot
  <2>4. Stored' /\ Answered'
    BY <1>1 DEF IInv, TypeOK, Stored, Answered, Source, Produce, Goto, confVars, argVars
  <2> QED
    BY <2>1, <2>2, <2>3, <2>4 DEF IInv
<1>2. CASE Answer(r)
  <2>1. TypeOK'
    BY <1>2 DEF IInv, TypeOK, Begun, Answer, Goto, confVars, argVars, Ended
  <2>2. Counted' /\ Begun'
    BY <1>2 DEF IInv, TypeOK, Counted, Begun, Answer, Goto, confVars, argVars
  <2>3. Checked'
    BY <1>2 DEF IInv, TypeOK, Checked, Answer, Goto, confVars, argVars, CanReadResourceAsRoot
  <2>0. uri[r] \in AllUris /\ clears \in Nat /\ since[r] \in Nat /\ since[r] <= clears
    BY <1>2 DEF IInv, TypeOK, Begun, Answer, Epochs
  <2>a. \A b \in Reads, x \in AllUris :
            Source(b, x) => b # r /\ Source(b, x)' /\ storedIn'[b] = storedIn[b]
    BY <1>2 DEF IInv, TypeOK, Source, Answer, Goto, argVars
  <2>4. Stored'
    <3>1. \A x \in AllUris : items'[x] # None =>
              (Source(items[x], x) /\ storedIn[items[x]] >= clears)' 
      <4> TAKE x \in AllUris
      <4>1. CASE items'[x] = r
        BY <1>2, <4>1, <2>0 DEF IInv, TypeOK, Stored, Source, Answer, Goto, confVars, argVars
      <4>2. CASE items'[x] # r
        BY <1>2, <4>2, <2>a DEF IInv, TypeOK, Stored, Source, Answer, Goto, confVars, argVars
      <4> QED
        BY <4>1, <4>2
    <3>2. \A s \in Reads : pc'[s] = "got" =>
              (Source(got[s], uri[s]) /\ storedIn[got[s]] >= since[s])'
      BY <1>2, <2>a DEF IInv, TypeOK, Stored, Source, Begun, Answer, Goto, confVars, argVars
    <3> QED
      BY <3>1, <3>2 DEF Stored
  <2>5. Answered'
    BY <1>2, <2>0 DEF IInv, TypeOK, Answered, Source, Answer, Goto, confVars, argVars
  <2> QED
    BY <2>1, <2>2, <2>3, <2>4, <2>5 DEF IInv
<1> QED
  BY <1>1, <1>2

\* The reload and the clock.
LEMMA ReloadInv ==
  ASSUME IInv,
         \/ \E g \in [Users -> GrantSets] : StoreSettings(g)
         \/ Clear
         \/ \E r \in Reads : Expire(r)
  PROVE  IInv'
<1> USE ResourceReadsAssumption
<1>1. CASE \E g \in [Users -> GrantSets] : StoreSettings(g)
  <2> PICK g \in [Users -> GrantSets] : StoreSettings(g)
    BY <1>1
  <2>1. TypeOK'
    BY DEF IInv, TypeOK, StoreSettings, argVars, Epochs
  <2>2. Counted' /\ Begun'
    BY DEF IInv, TypeOK, Counted, Begun, StoreSettings, argVars, Epochs
  <2>3. \A r \in Reads : pc[r] # "idle" =>
            (CanReadResourceAsRoot(r)' <=> CanReadResourceAsRoot(r))
    BY GrantsKept DEF StoreSettings, argVars
  <2>4. Checked'
    BY <2>3 DEF IInv, Checked, StoreSettings, argVars
  <2>5. Stored' /\ Answered'
    BY DEF IInv, Stored, Answered, Source, StoreSettings, argVars
  <2> QED
    BY <2>1, <2>2, <2>4, <2>5 DEF IInv
<1>2. CASE Clear
  <2>0. clears' \in Epochs
    BY <1>2 DEF IInv, TypeOK, Counted, Clear, Epochs
  <2>1. TypeOK'
    BY <1>2, <2>0 DEF IInv, TypeOK, Clear, argVars
  <2>2. Counted' /\ Begun'
    BY <1>2 DEF IInv, TypeOK, Counted, Begun, Clear, argVars, Epochs
  <2>3. Checked'
    BY <1>2 DEF IInv, Checked, Clear, argVars, CanReadResourceAsRoot
  <2>4. Stored' /\ Answered'
    BY <1>2 DEF IInv, Stored, Answered, Source, Clear, argVars
  <2> QED
    BY <2>1, <2>2, <2>3, <2>4 DEF IInv
<1>3. CASE \E r \in Reads : Expire(r)
  <2> PICK r \in Reads : Expire(r)
    BY <1>3
  <2>1. TypeOK'
    BY DEF IInv, TypeOK, Expire, confVars, argVars
  <2>2. Counted' /\ Begun' /\ Checked'
    BY DEF IInv, Counted, Begun, Checked, Expire, confVars, argVars, CanReadResourceAsRoot
  <2>3. Stored' /\ Answered'
    BY DEF IInv, Stored, Answered, Source, Expire, confVars, argVars
  <2> QED
    BY <2>1, <2>2, <2>3 DEF IInv
<1> QED
  BY <1>1, <1>2, <1>3

\* Every step keeps the invariant.
LEMMA StepInv == IInv /\ [Next]_vars => IInv'
<1> SUFFICES ASSUME IInv, [Next]_vars PROVE IInv'
  OBVIOUS
<1>1. CASE \E r \in Reads, u \in Users, x \in Uris : Arrive(r, u, x)
  BY <1>1, ArriveInv
<1>2. CASE \E r \in Reads : Handle(r)
  BY <1>2, LookInv, ReadInv DEF Handle
<1>3. CASE \/ \E g \in [Users -> GrantSets] : StoreSettings(g)
           \/ Clear
           \/ \E r \in Reads : Expire(r)
  BY <1>3, ReloadInv
<1>4. CASE UNCHANGED vars
  BY <1>4 DEF IInv, TypeOK, Counted, Begun, Checked, Stored, Answered, Source,
     CanReadResourceAsRoot, vars, confVars, argVars
<1> QED
  BY <1>1, <1>2, <1>3, <1>4 DEF Next

\* The inductive invariant.
THEOREM ReadsInvariant == Spec => []IInv
BY InitInv, StepInv, PTL DEF Spec

\* A cached item is always content of the URI it is stored under, and every
\* variable keeps its type (TTLCache, HandleResourcesRead).
THEOREM ReadsTypeCorrect == Spec => []TypeOK
<1>1. IInv => TypeOK
  BY DEF IInv
<1> QED
  BY <1>1, ReadsInvariant, PTL

\* Content read by a root worker is only given to users whose own snapshot
\* grants the resource, but for network://routes from the cache.
THEOREM RootContentIsGranted == Spec => []RootContentNeedsGrant
<1>1. IInv => RootContentNeedsGrant
  BY DEF IInv, RootContentNeedsGrant, Checked, Answered, Source, Cached, Strict
<1> QED
  BY <1>1, ReadsInvariant, PTL

\* No read that began after a reload's Clear is answered with content stored
\* before it.
THEOREM ClearSeparates == Spec => []ClearIsABarrier
<1>1. IInv => ClearIsABarrier
  BY DEF IInv, ClearIsABarrier, Answered
<1> QED
  BY <1>1, ReadsInvariant, PTL

=============================================================================
