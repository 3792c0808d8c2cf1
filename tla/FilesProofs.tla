---------------------------- MODULE FilesProofs ----------------------------
(***************************************************************************)
(* What the file tools promise, for every tree, every set of grants, every *)
(* number of calls and every text: StaysInside, SharedDirsKeepSetgid and   *)
(* UpdateKeepsRest of Files.                                               *)
(*                                                                         *)
(* StaysInside. No entry of a directory leads out of what a grant covers,  *)
(* except through a link (Entries): another user can put links, and a call *)
(* new inodes, nothing else. So a call that follows no link and that is on *)
(* the way to what is covered, as the tree was at the start, comes to what *)
(* is covered or is stopped, and stays there (OnTheWay).                   *)
(*                                                                         *)
(* UpdateKeepsRest. Between truncate and write the file is empty unless    *)
(* somebody raced (Updating); so what is written is UpdatedText of what    *)
(* was read, and the lemmas on Split and Join say which lines that has.    *)
(***************************************************************************)
EXTENDS Files, SequenceTheorems, WellFoundedInduction, TLAPS

(* The inductive invariant: what a call is, one part per idea.             *)

Places == {"start", "open", "again", "mkdirat", "creat", "held", "dots", "lstat", "truncate",
           "write", "visit", "walk", "done", "failed"}
Looking == {"open", "again", "mkdirat", "creat"}
Holding == {"held", "dots", "lstat", "truncate", "write", "visit"}

\* Every variable that the properties are about has its type.
Typed ==
    /\ scn \in Scenario
    /\ ent \in [Dirs -> [Range(Names) -> Inodes \cup {None}]]
    /\ mode \in [Inodes -> SUBSET Bits]
    /\ pc \in [Calls -> Places]
    /\ root \in [Calls -> BOOLEAN] /\ noFollow \in [Calls -> BOOLEAN]
    /\ at \in [Calls -> Dirs]
    /\ rest \in [Calls -> Seq(STRING)]
    /\ held \in [Calls -> Inodes \cup {None}]
    /\ smode \in [Calls -> SUBSET Bits]
    /\ stack \in [Calls -> Seq([dir : Inodes, names : Seq(STRING)])]
    /\ touched \in [Calls -> SUBSET Inodes]

\* The grants and requests are those of a scenario.
Given == \E s \in Scenarios : scn.grants = s.grants /\ scn.reqs = s.reqs

\* Entries are as at the start, removed, or lead to a link or a new inode.
Entries ==
    \A d \in Dirs, n \in Range(Names) : ent[d][n] \in {Tree[d][n], None} \cup Links \cup Fresh

\* Where a call is says what it is for and what it holds.
Phase(c) ==
    /\ pc[c] = "start" => at[c] = RootDir /\ ~noFollow[c] /\ touched[c] = {} /\ stack[c] = <<>>
    /\ pc[c] \in {"mkdirat", "creat"} => Creating(Req(c))
    /\ pc[c] = "creat" => rest[c] = <<>>
    /\ pc[c] \in Looking /\ Creating(Req(c)) => Clean(Req(c).path) \in Seq(STRING) \ {<<>>}
    /\ pc[c] \in Holding => held[c] \in Inodes
    /\ pc[c] \in {"dots", "lstat"} => Req(c).op = "list" /\ held[c] \in Dirs
    /\ pc[c] = "dots" => Req(c).all
    /\ pc[c] \in {"truncate", "write"} => Req(c).op = "update" /\ held[c] \in Regs
    /\ pc[c] \in {"visit", "walk"} => Req(c).op \in {"chmod", "chown"}

\* What grants cover, and with it what was made since.
Granted(grants) == CHOOSE in \in SUBSET (Inodes \ Outside) : Covers(grants, in)
Safe(grants) == Granted(grants) \cup Fresh

\* The names a call has still to look up, the one of the file it creates included.
Ahead(c) == IF Creating(Req(c)) THEN Append(rest[c], Last(Clean(Req(c).path))) ELSE rest[c]

\* A call that follows no link is on the way to what was granted, or inside.
OnTheWay(c) ==
    noFollow[c] =>
        /\ ~CoversRoot(scn.grants)
        /\ pc[c] \in Looking =>
              at[c] \in Safe(scn.grants) \/ LeadsInto(at[c], Ahead(c), Granted(scn.grants))
        /\ pc[c] \in Holding => held[c] \in Safe(scn.grants)
        /\ \A k \in 1..Len(stack[c]) : stack[c][k].dir \in Safe(scn.grants)

\* Nothing outside has been touched, but for the ".." of a listing; and that not
\* while the path is still looked up.
Inside(c) ==
    noFollow[c] /\ Req(c).op # "usage" =>
        touched[c] \cap Outside \subseteq IF pc[c] \in Looking THEN {} ELSE Above(c)

CallOK(c) == Phase(c) /\ OnTheWay(c) /\ Inside(c)

IInv == Typed /\ Given /\ Entries /\ \A c \in Calls : CallOK(c)

-----------------------------------------------------------------------------
(* Induction, and functions defined by recursion                           *)

\* Induction over the naturals, for a property given as a set.
LEMMA NatSetInduction ==
    ASSUME NEW T, 0 \in T, \A n \in Nat : n \in T => n + 1 \in T
    PROVE  Nat \subseteq T
  <1> DEFINE bad == Nat \ T
         R == OpToRel(<, Nat)
  <1> SUFFICES ASSUME bad # {} PROVE FALSE OBVIOUS
  <1>1. IsWellFoundedOn(R, Nat) BY NatLessThanWellFounded
  <1>2. \A x, y \in Nat : x < y => <<x, y>> \in R BY DEF OpToRel
  <1> HIDE DEF R
  <1>3. bad \subseteq Nat OBVIOUS
  <1> HIDE DEF bad
  <1>4. PICK x \in bad : \A y \in bad : ~ (<<y, x>> \in R)
    BY <1>1, <1>3, WFMin
  <1> USE DEF bad
  <1>5. x # 0 /\ x \in Nat OBVIOUS
  <1>6. x - 1 \in Nat /\ x - 1 < x /\ (x - 1) + 1 = x BY <1>5
  <1>7. x - 1 \notin bad BY <1>2, <1>4, <1>5, <1>6
  <1> QED BY <1>5, <1>6, <1>7

\* f is computed from base by the steps step[1], ..., step[m].
Follows(f, m, base, step) ==
    f[0] = base /\ \A k \in 1..m : f[k] = step[k][f[k - 1]]

\* Some function is so computed.
LEMMA RecursionExists ==
    ASSUME NEW n \in Nat, NEW V, NEW base \in V, NEW step \in [1..n -> [V -> V]]
    PROVE  \E f \in [0..n -> V] : Follows(f, n, base, step)
  <1> DEFINE T == {m \in Nat : m <= n => \E f \in [0..m -> V] : Follows(f, m, base, step)}
  <1>1. 0 \in T
    <2> DEFINE f == [k \in 0..0 |-> base]
    <2>1. f \in [0..0 -> V] /\ Follows(f, 0, base, step) BY DEF Follows
    <2> QED BY <2>1
  <1>2. ASSUME NEW m \in Nat, m \in T PROVE m + 1 \in T
    <2> SUFFICES ASSUME m + 1 <= n PROVE \E f \in [0..m + 1 -> V] : Follows(f, m + 1, base, step)
      OBVIOUS
    <2>1. PICK f \in [0..m -> V] : Follows(f, m, base, step) BY <1>2
    <2> DEFINE x == step[m + 1][f[m]]
               g == [k \in 0..m + 1 |-> IF k = m + 1 THEN x ELSE f[k]]
    <2>2. m \in 0..m /\ m + 1 \in 1..n OBVIOUS
    <2>3. f[m] \in V BY <2>2
    <2>4. step[m + 1] \in [V -> V] BY <2>2
    <2>5. x \in V BY <2>3, <2>4
    <2> HIDE DEF x
    <2>6. g \in [0..m + 1 -> V] BY <2>5
    <2>7. g[0] = base BY <2>1 DEF Follows
    <2>8. ASSUME NEW k \in 1..m + 1 PROVE g[k] = step[k][g[k - 1]]
      <3>1. CASE k = m + 1
        <4>1. g[k] = x /\ g[k - 1] = f[m] BY <3>1
        <4> QED BY <4>1, <3>1 DEF x
      <3>2. CASE k # m + 1
        <4>1. k \in 1..m /\ k - 1 \in 0..m BY <3>2
        <4>2. g[k] = f[k] /\ g[k - 1] = f[k - 1] BY <4>1
        <4> QED BY <4>1, <4>2, <2>1 DEF Follows
      <3> QED BY <3>1, <3>2
    <2> HIDE DEF g
    <2>9. Follows(g, m + 1, base, step) BY <2>7, <2>8 DEF Follows
    <2> QED BY <2>6, <2>9
  <1>3. Nat \subseteq T BY <1>1, <1>2, NatSetInduction
  <1> QED BY <1>3

\* The value of a recursion stays in a set its base is in and its steps keep.
LEMMA RecursionStays ==
    ASSUME NEW n \in Nat, NEW f, NEW C,
           f[0] \in C, \A k \in 1..n : f[k - 1] \in C => f[k] \in C
    PROVE  \A k \in 0..n : f[k] \in C
  <1> DEFINE T == {m \in Nat : m <= n => f[m] \in C}
  <1>1. 0 \in T OBVIOUS
  <1>2. ASSUME NEW m \in Nat, m \in T PROVE m + 1 \in T
    <2> SUFFICES ASSUME m + 1 <= n PROVE f[m + 1] \in C OBVIOUS
    <2>1. m + 1 \in 1..n /\ (m + 1) - 1 = m /\ f[m] \in C BY <1>2
    <2> QED BY <2>1
  <1>3. Nat \subseteq T BY <1>1, <1>2, NatSetInduction
  <1> QED BY <1>3

\* Two functions computed alike are alike.
LEMMA RecursionUnique ==
    ASSUME NEW n \in Nat, NEW f, NEW g, f[0] = g[0],
           \A k \in 1..n : f[k - 1] = g[k - 1] => f[k] = g[k]
    PROVE  \A k \in 0..n : f[k] = g[k]
  <1> DEFINE T == {m \in Nat : m <= n => f[m] = g[m]}
  <1>1. 0 \in T OBVIOUS
  <1>2. ASSUME NEW m \in Nat, m \in T PROVE m + 1 \in T
    <2> SUFFICES ASSUME m + 1 <= n PROVE f[m + 1] = g[m + 1] OBVIOUS
    <2>1. m + 1 \in 1..n /\ (m + 1) - 1 = m /\ f[m] = g[m] BY <1>2
    <2> QED BY <2>1
  <1>3. Nat \subseteq T BY <1>1, <1>2, NatSetInduction
  <1> QED BY <1>3

-----------------------------------------------------------------------------
(* What the operators of Files compute.                                    *)

\* The front of a sequence that is not empty, and its last element.
LEMMA FrontLast ==
    ASSUME NEW S, NEW s \in Seq(S), s # <<>>
    PROVE  /\ Front(s) \in Seq(S) /\ Last(s) \in S /\ Append(Front(s), Last(s)) = s
           /\ Len(s) \in Nat \ {0} /\ Len(Front(s)) = Len(s) - 1
           /\ \A k \in 1..Len(s) - 1 : Front(s)[k] = s[k]
  <1>1. Len(s) \in Nat \ {0} OBVIOUS
  <1>2. /\ Front(s) \in Seq(S) /\ Len(Front(s)) = Len(s) - 1
        /\ \A k \in 1..Len(s) - 1 : Front(s)[k] = s[k]
    <2> DEFINE u == SubSeq(s, 1, Len(s) - 1)
    <2>1. \A i \in 1..Len(s) - 1 : s[i] \in S BY <1>1
    <2>2. /\ u \in Seq(S)
          /\ Len(u) = IF 1 <= Len(s) - 1 THEN Len(s) - 1 - 1 + 1 ELSE 0
          /\ \A i \in 1..Len(s) - 1 - 1 + 1 : u[i] = s[1 + i - 1]
      BY <1>1, <2>1, SubSeqProperties
    <2> HIDE DEF u
    <2>3. Len(s) - 1 - 1 + 1 = Len(s) - 1 /\ \A i \in 1..Len(s) - 1 : 1 + i - 1 = i BY <1>1
    <2>4. \A i \in 1..Len(s) - 1 : u[i] = s[i] BY <2>2, <2>3
    <2>5. Len(u) = Len(s) - 1
      <3> DEFINE n == Len(s)
      <3>1. n \in Nat \ {0} BY <1>1
      <3>2. Len(u) = IF 1 <= n - 1 THEN n - 1 - 1 + 1 ELSE 0 BY <2>2
      <3> HIDE DEF n
      <3>3. Len(u) = n - 1
        <4>1. CASE 1 <= n - 1 BY <3>1, <3>2, <4>1
        <4>2. CASE ~(1 <= n - 1)
          <5>1. n = 1 BY <3>1, <4>2
          <5> QED BY <3>2, <5>1
        <4> QED BY <4>1, <4>2
      <3> QED BY <3>3 DEF n
    <2> QED BY <2>2, <2>4, <2>5 DEF Front, u
  <1>3. Last(s) \in S BY <1>1 DEF Last
  <1> DEFINE t == Append(Front(s), Last(s))
  <1> HIDE DEF Front, Last
  <1>4. t \in Seq(S) /\ Len(t) = Len(s) /\ \A k \in 1..Len(s) - 1 : t[k] = s[k]
    BY <1>1, <1>2, <1>3
  <1>5. t[Len(s)] = s[Len(s)] BY <1>1, <1>2, <1>3 DEF Last
  <1>6. \A k \in 1..Len(s) : t[k] = s[k] BY <1>1, <1>4, <1>5
  <1>7. t = s BY <1>4, <1>6, SeqEqual
  <1> QED BY <1>1, <1>2, <1>3, <1>7

\* filepath.Clean gives names.
LEMMA CleanType ==
    ASSUME NEW p \in Seq(STRING), p # <<>>
    PROVE  Clean(p) \in Seq(STRING)
  <1> DEFINE n == Len(p) - 1
             V == Seq(STRING)
             step == [k \in 1..n |-> [v \in V |-> Into(v, p[k + 1])]]
             g == CHOOSE upto : upto = [k \in 0..n |-> IF k = 0 THEN <<>> ELSE Into(upto[k - 1], p[k + 1])]
  <1>1. n \in Nat /\ \A k \in 1..n : p[k + 1] \in STRING OBVIOUS
  <1>2. ASSUME NEW v \in V, NEW x \in STRING PROVE Into(v, x) \in V
    <2>1. v # <<>> => Front(v) \in V BY FrontLast
    <2>2. Append(v, x) \in V BY AppendProperties
    <2> QED BY <2>1, <2>2 DEF Into
  <1>3. step \in [1..n -> [V -> V]] BY <1>1, <1>2
  <1> HIDE DEF step, n
  <1> <<>> \in V BY EmptySeq
  <1> HIDE DEF V
  <1>4. PICK f \in [0..n -> V] : Follows(f, n, <<>>, step) BY <1>1, <1>3, RecursionExists
  <1>5. \A k \in 1..n : k - 1 \in 0..n /\ f[k - 1] \in V BY <1>1
  <1>6. \A k \in 1..n : f[k] = Into(f[k - 1], p[k + 1]) BY <1>4, <1>5 DEF Follows, step
  <1>7. f = [k \in 0..n |-> IF k = 0 THEN <<>> ELSE Into(f[k - 1], p[k + 1])]
    BY <1>1, <1>4, <1>6 DEF Follows
  <1>8. g = [k \in 0..n |-> IF k = 0 THEN <<>> ELSE Into(g[k - 1], p[k + 1])] BY <1>7
  <1>9. Clean(p) = g[n] BY DEF Clean, n
  <1> HIDE DEF g
  <1>10. g[0] \in V /\ \A k \in 1..n : g[k] = Into(g[k - 1], p[k + 1]) BY <1>1, <1>8
  <1>11. \A k \in 1..n : g[k - 1] \in V => g[k] \in V BY <1>1, <1>2, <1>10
  <1>12. \A k \in 0..n : g[k] \in V BY <1>1, <1>10, <1>11, RecursionStays
  <1> QED BY <1>1, <1>9, <1>12 DEF V

\* Names lists names.
LEMMA EntriesType ==
    ASSUME NEW d
    PROVE  EntriesOf(d) \in Seq(STRING)
  <1> DEFINE n == Len(Names)
             V == Seq(STRING)
             E(v, k) == IF Lookat(d, Names[k]) # None THEN Append(v, Names[k]) ELSE v
             step == [k \in 1..n |-> [v \in V |-> E(v, k)]]
             g == CHOOSE upto : upto = [k \in 0..n |->
                      IF k = 0 THEN <<>>
                      ELSE IF Lookat(d, Names[k]) # None THEN Append(upto[k - 1], Names[k]) ELSE upto[k - 1]]
  <1>1. n \in Nat /\ \A k \in 1..n : Names[k] \in STRING BY TreeAssumption
  <1>2. \A v \in V, k \in 1..n : E(v, k) \in V BY <1>1, AppendProperties
  <1>3. step \in [1..n -> [V -> V]] BY <1>1, <1>2
  <1> HIDE DEF step, n
  <1> <<>> \in V BY EmptySeq
  <1> HIDE DEF V
  <1>4. PICK f \in [0..n -> V] : Follows(f, n, <<>>, step) BY <1>1, <1>3, RecursionExists
  <1>5. \A k \in 1..n : k - 1 \in 0..n /\ f[k - 1] \in V BY <1>1
  <1>6. \A k \in 1..n : f[k] = E(f[k - 1], k) BY <1>4, <1>5 DEF Follows, step
  <1>7. f = [k \in 0..n |-> IF k = 0 THEN <<>> ELSE E(f[k - 1], k)]
    <2> HIDE DEF E
    <2>1. \A k \in 0..n : f[k] = IF k = 0 THEN <<>> ELSE E(f[k - 1], k)
      BY <1>1, <1>4, <1>6 DEF Follows
    <2> QED BY <2>1
  <1>8. g = [k \in 0..n |-> IF k = 0 THEN <<>> ELSE E(g[k - 1], k)] BY <1>7
  <1>9. EntriesOf(d) = g[n] BY DEF EntriesOf, n
  <1> HIDE DEF g
  <1> HIDE DEF E
  <1>10. g[0] \in V /\ \A k \in 1..n : g[k] = E(g[k - 1], k)
    <2>1. \A k \in 0..n : g[k] = IF k = 0 THEN <<>> ELSE E(g[k - 1], k) BY <1>8
    <2> QED BY <1>1, <2>1
  <1>11. \A k \in 1..n : g[k - 1] \in V => g[k] \in V BY <1>1, <1>2, <1>10
  <1>12. \A k \in 0..n : g[k] \in V BY <1>1, <1>10, <1>11, RecursionStays
  <1> QED BY <1>1, <1>9, <1>12 DEF V

\* A walk stays in a set that its start is in and that no entry leads out of.
LEMMA BelowStays ==
    ASSUME NEW C, NEW i \in C, NEW depth \in Nat,
           \A d \in C \cap Dirs, n \in Range(Names) : Lookat(d, n) \in C \cup {None}
    PROVE  Below(i, depth) \subseteq C
  <1> DEFINE V == SUBSET C
             E(v) == v \cup Children(v)
             step == [k \in 1..depth |-> [v \in V |-> E(v)]]
             g == CHOOSE reach : reach = [k \in 0..depth |->
                      IF k = 0 THEN {i} ELSE LET is == reach[k - 1] IN is \cup Children(is)]
  <1>1. ASSUME NEW v \in V PROVE E(v) \in V
    <2>1. \A d \in v \cap Dirs, n \in Range(Names) : Lookat(d, n) \in C \cup {None} OBVIOUS
    <2>2. Children(v) \subseteq C BY <2>1 DEF Children
    <2> QED BY <2>2
  <1> HIDE DEF E
  <1>2. step \in [1..depth -> [V -> V]] BY <1>1
  <1> HIDE DEF step
  <1>3. {i} \in V OBVIOUS
  <1>4. PICK f \in [0..depth -> V] : Follows(f, depth, {i}, step) BY <1>2, <1>3, RecursionExists
  <1>5. \A k \in 1..depth : k - 1 \in 0..depth /\ f[k - 1] \in V OBVIOUS
  <1>6. \A k \in 1..depth : f[k] = E(f[k - 1]) BY <1>4, <1>5 DEF Follows, step
  <1>7. f = [k \in 0..depth |-> IF k = 0 THEN {i} ELSE E(f[k - 1])] BY <1>4, <1>6 DEF Follows
  <1>8. g = [k \in 0..depth |-> IF k = 0 THEN {i} ELSE E(g[k - 1])] BY <1>7 DEF E
  <1>9. Below(i, depth) = g[depth] BY DEF Below
  <1> HIDE DEF g
  <1>10. g[0] \in V /\ \A k \in 1..depth : g[k] = E(g[k - 1])
    <2>1. \A k \in 0..depth : g[k] = IF k = 0 THEN {i} ELSE E(g[k - 1]) BY <1>8
    <2>2. 0 \in 0..depth /\ \A k \in 1..depth : k \in 0..depth /\ k # 0 OBVIOUS
    <2> QED BY <1>3, <2>1, <2>2
  <1>11. \A k \in 1..depth : g[k - 1] \in V => g[k] \in V BY <1>1, <1>10
  <1>12. \A k \in 0..depth : g[k] \in V BY <1>10, <1>11, RecursionStays
  <1> QED BY <1>9, <1>12

\* One clause: a mode stays a set of bits, and a directory keeps setgid unless
\* the clause takes an s away.
LEMMA ClauseKeeps ==
    ASSUME NEW cl \in Clause, NEW m \in SUBSET Bits, NEW old \in SUBSET Bits, NEW dir \in BOOLEAN
    PROVE  /\ ClauseMode(cl, m, old, dir) \in SUBSET Bits
           /\ dir /\ "setgid" \in m /\ ~(cl.op = "-" /\ "s" \in cl.perms)
                => "setgid" \in ClauseMode(cl, m, old, dir)
  <1> DEFINE who == IF cl.who = {} THEN WhoBits("a") ELSE UNION {WhoBits(w) : w \in cl.who}
             perms == UNION {PermBits(p, old, dir) : p \in cl.perms}
             bits == who \cap perms
  <1>1. cl.op \in {"+", "-", "="} /\ cl.perms \in SUBSET {"r", "w", "x", "X", "s", "t"}
    BY DEF Clause
  <1>2. \A p \in {"r", "w", "x", "X", "s", "t"} : PermBits(p, old, dir) \subseteq Bits
    BY DEF PermBits, Special, Bits
  <1>3. \A p \in {"r", "w", "x", "X", "t"} : "setgid" \notin PermBits(p, old, dir)
    BY DEF PermBits
  <1>4. perms \subseteq Bits BY <1>1, <1>2
  <1>5. "s" \notin cl.perms => "setgid" \notin perms BY <1>1, <1>3
  <1> HIDE DEF who, perms
  <1>6. ClauseMode(cl, m, old, dir) =
          CASE cl.op = "+" -> m \cup bits
            [] cl.op = "-" -> m \ bits
            [] cl.op = "=" -> (m \ (IF dir THEN who \ Special ELSE who)) \cup bits
    BY DEF ClauseMode, who, perms
  <1>7. CASE cl.op = "+" BY <1>4, <1>6, <1>7
  <1>8. CASE cl.op = "-" BY <1>4, <1>5, <1>6, <1>8
  <1>9. CASE cl.op = "=" BY <1>4, <1>6, <1>9 DEF Special
  <1> QED BY <1>1, <1>7, <1>8, <1>9

\* ParseMode: the result is a set of bits, and a directory keeps its setgid bit
\* through every mode that does not say otherwise.
LEMMA ModeKeeps ==
    ASSUME NEW spec \in ModeSpec, NEW old \in SUBSET Bits, NEW dir \in BOOLEAN
    PROVE  /\ ApplyMode(spec, old, dir) \in SUBSET Bits
           /\ dir /\ "setgid" \in old /\ ~DropsSetgid(spec) => "setgid" \in ApplyMode(spec, old, dir)
  <1> DEFINE cls == spec.clauses
             n == Len(cls)
             V == SUBSET Bits
             step == [k \in 1..n |-> [v \in V |-> ClauseMode(cls[k], v, old, dir)]]
             g == CHOOSE upto : upto = [k \in 0..n |-> IF k = 0 THEN old ELSE ClauseMode(cls[k], upto[k - 1], old, dir)]
  <1>1. /\ spec.octal \in BOOLEAN /\ spec.bits \in V
        /\ cls \in Seq(Clause) /\ n \in Nat /\ \A k \in 1..n : cls[k] \in Clause
    BY DEF ModeSpec
  <1>2. CASE spec.octal
    <2>1. ApplyMode(spec, old, dir) = spec.bits \cup (IF dir /\ spec.digits # 5 THEN old \cap Special ELSE {})
      BY <1>2 DEF ApplyMode
    <2> QED BY <1>1, <1>2, <2>1 DEF DropsSetgid, Special
  <1>3. CASE ~spec.octal
    <2>1. \A k \in 1..n, v \in V : ClauseMode(cls[k], v, old, dir) \in V BY <1>1, ClauseKeeps
    <2>2. step \in [1..n -> [V -> V]] BY <2>1
    <2>3. ApplyMode(spec, old, dir) = g[n] BY <1>3 DEF ApplyMode, ApplyClauses
    <2>4. DropsSetgid(spec) <=> \E k \in 1..n : cls[k].op = "-" /\ "s" \in cls[k].perms
      BY <1>1, <1>3 DEF DropsSetgid
    <2> HIDE DEF step, n, cls
    <2>5. PICK f \in [0..n -> V] : Follows(f, n, old, step) BY <1>1, <2>2, RecursionExists
    <2>6. \A k \in 1..n : k - 1 \in 0..n /\ f[k - 1] \in V BY <1>1
    <2>7. \A k \in 1..n : f[k] = ClauseMode(cls[k], f[k - 1], old, dir) BY <2>5, <2>6 DEF Follows, step
    <2>8. f = [k \in 0..n |-> IF k = 0 THEN old ELSE ClauseMode(cls[k], f[k - 1], old, dir)]
      BY <1>1, <2>5, <2>7 DEF Follows
    <2>9. g = [k \in 0..n |-> IF k = 0 THEN old ELSE ClauseMode(cls[k], g[k - 1], old, dir)] BY <2>8
    <2> HIDE DEF g
    <2>10. g[0] = old /\ \A k \in 1..n : g[k] = ClauseMode(cls[k], g[k - 1], old, dir) BY <1>1, <2>9
    <2>11. \A k \in 1..n : g[k - 1] \in V => g[k] \in V BY <2>1, <2>10
    <2>12. \A k \in 0..n : g[k] \in V BY <1>1, <2>10, <2>11, RecursionStays
    <2>13. ASSUME dir, "setgid" \in old, ~DropsSetgid(spec) PROVE "setgid" \in g[n]
      <3> DEFINE C == {v \in V : "setgid" \in v}
      <3>1. g[0] \in C BY <2>10, <2>13
      <3>2. ASSUME NEW k \in 1..n, g[k - 1] \in C PROVE g[k] \in C
        <4>1. cls[k] \in Clause /\ ~(cls[k].op = "-" /\ "s" \in cls[k].perms) BY <1>1, <2>4, <2>13
        <4>2. "setgid" \in ClauseMode(cls[k], g[k - 1], old, dir) /\ ClauseMode(cls[k], g[k - 1], old, dir) \in V
          BY <2>13, <3>2, <4>1, ClauseKeeps
        <4> QED BY <2>10, <4>2
      <3> HIDE DEF C
      <3>3. \A k \in 0..n : g[k] \in C BY <1>1, <3>1, <3>2, RecursionStays
      <3> QED BY <1>1, <3>3 DEF C
    <2> QED BY <1>1, <2>3, <2>12, <2>13
  <1> QED BY <1>1, <1>2, <1>3

-----------------------------------------------------------------------------
(* Paths and grants                                                        *)

\* A lookup gives an inode or nothing.
LEMMA LookatType ==
    ASSUME Typed, NEW d, NEW n
    PROVE  Lookat(d, n) \in Inodes \cup {None} /\ (Lookat(d, n) # None => d \in Dirs /\ n \in Range(Names))
  BY DEF Typed, Lookat

\* Where Deref and Seen lead.
LEMMA SeenType ==
    ASSUME Typed, NEW c, NEW i \in Inodes \cup {None}
    PROVE  Seen(c, i) \in Inodes \cup {None} /\ (noFollow[c] => Seen(c, i) = i)
           /\ (i # None => Seen(c, i) # None)
  BY TreeAssumption DEF Seen, Deref, Inodes

\* What the grants of a scenario cover is outside nothing.
LEMMA GrantedCovers ==
    ASSUME Given, ~CoversRoot(scn.grants)
    PROVE  /\ Granted(scn.grants) \subseteq Inodes \ Outside /\ Covers(scn.grants, Granted(scn.grants))
           /\ Safe(scn.grants) \subseteq Inodes /\ Safe(scn.grants) \cap Outside = {}
  <1>1. PICK s \in Scenarios : scn.grants = s.grants BY DEF Given
  <1>2. scn.grants \in {t.grants : t \in Scenarios} BY <1>1
  <1>3. \E in \in SUBSET (Inodes \ Outside) : Covers(scn.grants, in) BY <1>2, ScenarioAssumption
  <1>4. Granted(scn.grants) \in SUBSET (Inodes \ Outside) /\ Covers(scn.grants, Granted(scn.grants))
    BY <1>3 DEF Granted
  <1>5. Fresh \subseteq Inodes /\ Fresh \cap Outside = {} BY TreeAssumption DEF Inodes
  <1> QED BY <1>4, <1>5 DEF Safe

\* From what is covered no entry leads out, but through a link.
LEMMA ChildSafe ==
    ASSUME Typed, Given, Entries, ~CoversRoot(scn.grants), NEW d \in Safe(scn.grants), NEW n
    PROVE  Lookat(d, n) \in Safe(scn.grants) \cup Links \cup {None}
  <1> DEFINE e == Lookat(d, n)
             in == Granted(scn.grants)
  <1> SUFFICES ASSUME e # None, e \notin Links, e \notin Fresh PROVE e \in in BY DEF Safe
  <1>1. d \in Dirs /\ n \in Range(Names) /\ e = ent[d][n] BY LookatType DEF Lookat
  <1>2. e = Tree[d][n] BY <1>1 DEF Entries
  <1>3. d \notin Fresh BY <1>1, <1>2, TreeAssumption
  <1>4. d \in in BY <1>3 DEF Safe
  <1>5. Down(d, n) = e BY <1>1, <1>2 DEF Down
  <1>6. Covers(scn.grants, in) BY GrantedCovers
  <1> HIDE DEF e, in
  <1>7. Down(d, n) \in in \cup {None} BY <1>1, <1>4, <1>6 DEF Covers
  <1> QED BY <1>5, <1>7

\* One name further on the way to what is covered.
LEMMA StepLeads ==
    ASSUME Typed, Given, Entries, ~CoversRoot(scn.grants), NEW d, NEW q \in Seq(STRING), q # <<>>,
           d \in Safe(scn.grants) \/ LeadsInto(d, q, Granted(scn.grants)),
           Lookat(d, Head(q)) # None, Lookat(d, Head(q)) \notin Links
    PROVE  \/ Lookat(d, Head(q)) \in Safe(scn.grants)
           \/ LeadsInto(Lookat(d, Head(q)), Tail(q), Granted(scn.grants))
  <1> DEFINE in == Granted(scn.grants)
             n == Head(q)
             e == Lookat(d, n)
  <1>1. CASE d \in Safe(scn.grants) BY <1>1, ChildSafe
  <1>2. CASE d \notin Safe(scn.grants)
    <2> SUFFICES ASSUME e \notin Fresh, e \notin in PROVE LeadsInto(e, Tail(q), in) BY DEF Safe
    <2>1. d \in Dirs /\ n \in Range(Names) /\ e = ent[d][n] BY LookatType DEF Lookat
    <2>2. e = Tree[d][n] BY <2>1 DEF Entries
    <2>3. Down(d, n) = e BY <2>1, <2>2 DEF Down
    <2>4. d \notin in BY <1>2 DEF Safe
    <2> HIDE DEF in, e
    <2>5. PICK m \in 1..Len(q) : \E way \in [0..m -> Inodes \cup {None}] :
             /\ way[0] = d /\ way[m] \in in \cup {None}
             /\ \A k \in 1..m : way[k] = Down(way[k - 1], q[k])
      BY <1>2, <2>4 DEF LeadsInto, in
    <2>6. PICK way \in [0..m -> Inodes \cup {None}] :
             /\ way[0] = d /\ way[m] \in in \cup {None}
             /\ \A k \in 1..m : way[k] = Down(way[k - 1], q[k])
      BY <2>5
    <2>7. /\ Len(q) \in Nat /\ n = q[1] /\ Tail(q) \in Seq(STRING) /\ Len(Tail(q)) = Len(q) - 1
          /\ \A k \in 1..Len(q) - 1 : Tail(q)[k] = q[k + 1]
      OBVIOUS
    <2> HIDE DEF n
    <2>8. way[1] = e
      <3>1. 1 \in 1..m /\ 1 - 1 = 0 OBVIOUS
      <3>2. way[1] = Down(way[0], q[1]) BY <2>6, <3>1
      <3> QED BY <2>3, <2>6, <2>7, <3>2
    <2>9. m # 1 BY <2>6, <2>8 DEF e, n
    <2>10. m - 1 \in 1..Len(Tail(q)) BY <2>7, <2>9
    <2> DEFINE rem == [k \in 0..m - 1 |-> way[k + 1]]
    <2>11. rem \in [0..m - 1 -> Inodes \cup {None}] /\ rem[0] = e /\ rem[m - 1] = way[m] BY <2>8
    <2>12. ASSUME NEW k \in 1..m - 1 PROVE rem[k] = Down(rem[k - 1], Tail(q)[k])
      <3>1. rem[k] = way[k + 1] /\ rem[k - 1] = way[k] OBVIOUS
      <3>2. way[k + 1] = Down(way[k], q[k + 1])
        <4>1. k + 1 \in 1..m /\ (k + 1) - 1 = k OBVIOUS
        <4> QED BY <2>6, <4>1
      <3>3. Tail(q)[k] = q[k + 1] BY <2>7, <2>10
      <3> QED BY <3>1, <3>2, <3>3
    <2> HIDE DEF rem
    <2> QED BY <2>6, <2>10, <2>11, <2>12 DEF LeadsInto
  <1> QED BY <1>1, <1>2

\* A path that a grant allows leads to what the grants cover.
LEMMA PathLeads ==
    ASSUME Given, ~CoversRoot(scn.grants), NEW p \in Seq(STRING), PathAllowed(p, scn.grants),
           scn.grants \subseteq Seq(STRING)
    PROVE  LeadsInto(RootDir, Clean(p), Granted(scn.grants))
  <1> DEFINE in == Granted(scn.grants)
             P == Clean(p)
  <1>1. PICK g \in scn.grants : Absolute(g) /\ IsPrefix(Clean(g), Clean(p)) BY DEF PathAllowed
  <1> DEFINE G == Clean(g)
  <1>2. P \in Seq(STRING) /\ G \in Seq(STRING) BY <1>1, CleanType DEF PathAllowed, Absolute
  <1>3. LeadsInto(RootDir, G, in) BY <1>1, GrantedCovers DEF Covers
  <1>4. Len(G) <= Len(P) /\ SubSeq(G, 1, Len(G)) = SubSeq(P, 1, Len(G)) BY <1>1 DEF IsPrefix
  <1> HIDE DEF P, G, in
  <1>5. \A k \in 1..Len(G) : G[k] = P[k]
    <2>1. SubSeq(G, 1, Len(G)) = G BY <1>2, SubSeqFull
    <2>2. Len(G) \in Nat /\ Len(P) \in Nat /\ \A i \in 1..Len(G) : P[i] \in STRING BY <1>2, <1>4
    <2>3. \A i \in 1..Len(G) - 1 + 1 : SubSeq(P, 1, Len(G))[i] = P[1 + i - 1]
      BY <2>2, SubSeqProperties
    <2>4. \A i \in 1..Len(G) : i \in 1..Len(G) - 1 + 1 /\ 1 + i - 1 = i BY <2>2
    <2> QED BY <1>4, <2>1, <2>3, <2>4
  <1>6. CASE RootDir \in in BY <1>6 DEF LeadsInto, P, in
  <1>7. CASE RootDir \notin in
    <2>1. PICK m \in 1..Len(G) : \E way \in [0..m -> Inodes \cup {None}] :
             /\ way[0] = RootDir /\ way[m] \in in \cup {None}
             /\ \A k \in 1..m : way[k] = Down(way[k - 1], G[k])
      BY <1>3, <1>7 DEF LeadsInto
    <2>2. m \in 1..Len(P) /\ \A k \in 1..m : G[k] = P[k] BY <1>2, <1>4, <1>5
    <2>3. LeadsInto(RootDir, P, in) BY <2>1, <2>2 DEF LeadsInto
    <2> QED BY <2>3 DEF P, in
  <1> QED BY <1>6, <1>7

\* With no name left, the way is at its end.
LEMMA EmptyLeads ==
    ASSUME NEW d, NEW in, LeadsInto(d, <<>>, in)
    PROVE  d \in in
  BY EmptySeq DEF LeadsInto

-----------------------------------------------------------------------------
(* One lemma per action: types and entries stay, the acting call stays as  *)
(* the invariant says, and the other calls are where they were.            *)

\* Nothing the invariant says of x has changed.
Same(x) ==
    /\ pc'[x] = pc[x] /\ noFollow'[x] = noFollow[x] /\ at'[x] = at[x] /\ rest'[x] = rest[x]
    /\ held'[x] = held[x] /\ stack'[x] = stack[x] /\ touched'[x] = touched[x]

Kept(c) ==
    /\ scn'.grants = scn.grants /\ scn'.reqs = scn.reqs
    /\ Typed' /\ Entries' /\ CallOK(c)' /\ \A x \in Calls \ {c} : Same(x)

\* Then the invariant still says it.
LEMMA Frame ==
    ASSUME NEW x, CallOK(x), Same(x), scn'.grants = scn.grants, scn'.reqs = scn.reqs
    PROVE  CallOK(x)'
  <1>1. Phase(x)' BY DEF CallOK, Same, Phase, Req
  <1>2. OnTheWay(x)' BY DEF CallOK, Same, OnTheWay, Ahead, Req
  <1>3. Inside(x)' BY DEF CallOK, Same, Inside, Above, Req
  <1> QED BY <1>1, <1>2, <1>3 DEF CallOK

\* One call did all that the invariant allows it: the invariant holds again.
LEMMA KeptInv ==
    ASSUME IInv, NEW c \in Calls, Kept(c)
    PROVE  IInv'
  <1>1. \A x \in Calls \ {c} : CallOK(x)' BY Frame DEF Kept, IInv
  <1>2. Given' BY DEF Kept, IInv, Given
  <1> QED BY <1>1, <1>2 DEF Kept, IInv

\* A request is one.
LEMMA ReqType ==
    ASSUME Typed, NEW c \in Calls
    PROVE  Req(c) \in Request /\ Req(c).path \in Seq(STRING) /\ Req(c).depth \in Nat
           /\ Req(c).spec \in ModeSpec /\ scn.grants \subseteq Seq(STRING)
  BY DEF Typed, Scenario, Request, Req

\* At the start no call has begun.
LEMMA InitInv == Init => IInv
  <1> SUFFICES ASSUME Init PROVE IInv OBVIOUS
  <1>1. Typed
    <2>1. scn \in Scenario BY ScenarioAssumption DEF Init
    <2>2. /\ ent \in [Dirs -> [Range(Names) -> Inodes \cup {None}]] /\ mode \in [Inodes -> SUBSET Bits]
          /\ at \in [Calls -> Dirs] /\ held \in [Calls -> Inodes \cup {None}]
          /\ smode \in [Calls -> SUBSET Bits] /\ touched \in [Calls -> SUBSET Inodes]
      BY TreeAssumption DEF Init
    <2>3. /\ pc \in [Calls -> Places] /\ root \in [Calls -> BOOLEAN] /\ noFollow \in [Calls -> BOOLEAN]
          /\ rest \in [Calls -> Seq(STRING)]
          /\ stack \in [Calls -> Seq([dir : Inodes, names : Seq(STRING)])]
      BY EmptySeq DEF Init, Places
    <2> QED BY <2>1, <2>2, <2>3 DEF Typed
  <1>2. Given BY DEF Init, Given
  <1>3. Entries BY DEF Init, Entries
  <1>4. ASSUME NEW c \in Calls PROVE CallOK(c)
    <2>1. pc[c] = "start" /\ ~noFollow[c] /\ at[c] = RootDir /\ touched[c] = {} /\ stack[c] = <<>> BY DEF Init
    <2> QED BY <2>1 DEF CallOK, Phase, OnTheWay, Inside, Above, Looking, Holding
  <1> QED BY <1>1, <1>2, <1>3, <1>4 DEF IInv

\* Another user's change of an entry.
LEMMA SwapInv ==
    ASSUME IInv, Swap
    PROVE  IInv'
  <1>1. PICK d \in UserDirs, n \in Range(Names) :
          \E i \in (Links \cup {Tree[d][n], None}) \ {ent[d][n]} : ent' = [ent EXCEPT ![d][n] = i]
    BY DEF Swap
  <1>2. PICK i \in Links \cup {Tree[d][n], None} : ent' = [ent EXCEPT ![d][n] = i] BY <1>1
  <1>3. d \in Dirs /\ i \in Inodes \cup {None} BY TreeAssumption DEF Inodes
  <1>4. scn' \in Scenario /\ scn'.grants = scn.grants /\ scn'.reqs = scn.reqs
    <2>1. scn \in Scenario /\ scn.swaps \in Nat BY DEF IInv, Typed, Scenario
    <2>2. scn' = [scn EXCEPT !.swaps = @ - 1] /\ scn.swaps - 1 \in Nat BY <2>1 DEF Swap
    <2> QED BY <2>1, <2>2 DEF Scenario
  <1>5. ent' \in [Dirs -> [Range(Names) -> Inodes \cup {None}]] BY <1>2, <1>3 DEF IInv, Typed
  <1>6. Typed' BY <1>4, <1>5 DEF IInv, Typed, Swap, walk, worker, walking
  <1>7. Entries' BY <1>2, <1>3 DEF IInv, Entries, Typed
  <1>8. \A x \in Calls : Same(x) BY DEF Swap, Same, walk, worker, walking
  <1>9. \A x \in Calls : CallOK(x)' BY <1>4, <1>8, Frame DEF IInv
  <1>10. Given' BY <1>4 DEF IInv, Given
  <1> QED BY <1>6, <1>7, <1>9, <1>10 DEF IInv

\* The master's check: a call that will follow no link starts on a path that a
\* grant allows.
LEMMA CheckInv ==
    ASSUME IInv, NEW c \in Calls, Check(c)
    PROVE  Kept(c)
  <1> DEFINE r == Req(c)
             allowed == PathAllowed(r.path, scn.grants)
             asRoot == IF Resource(r) THEN allowed ELSE r.priv
             ok == /\ Absolute(r.path)
                   /\ asRoot => allowed
                   /\ ~Malformed(r)
                   /\ Creating(r) => Clean(r.path) # <<>>
  <1>1. /\ pc[c] = "start"
        /\ root' = [root EXCEPT ![c] = asRoot]
        /\ noFollow' = [noFollow EXCEPT ![c] = asRoot /\ ~CoversRoot(scn.grants)]
        /\ rest' = [rest EXCEPT ![c] = IF ok THEN WalkPath(r) ELSE <<>>]
        /\ pc' = [pc EXCEPT ![c] = IF ok THEN "open" ELSE "failed"]
        /\ UNCHANGED <<scn, ent, text, mode, own, at, held, smode, sown, stack, touched>>
    BY DEF Check, Goto, fs, walking
  <1>2. Typed /\ Given /\ Entries /\ CallOK(c) BY DEF IInv
  <1>3. r \in Request /\ r.path \in Seq(STRING) /\ r.priv \in BOOLEAN /\ scn.grants \subseteq Seq(STRING)
    BY <1>2, ReqType DEF Request
  <1>4. asRoot \in BOOLEAN BY <1>3 DEF PathAllowed, Absolute
  <1>5. at[c] = RootDir /\ ~noFollow[c] /\ touched[c] = {} /\ stack[c] = <<>>
    BY <1>1, <1>2 DEF CallOK, Phase
  <1>6. ok => /\ Clean(r.path) \in Seq(STRING) /\ WalkPath(r) \in Seq(STRING)
              /\ Creating(r) => Clean(r.path) # <<>> /\ Append(WalkPath(r), Last(Clean(r.path))) = Clean(r.path)
    <2> SUFFICES ASSUME ok
                 PROVE  /\ Clean(r.path) \in Seq(STRING) /\ WalkPath(r) \in Seq(STRING)
                        /\ Creating(r) => Clean(r.path) # <<>> /\ Append(WalkPath(r), Last(Clean(r.path))) = Clean(r.path)
      OBVIOUS
    <2>1. Clean(r.path) \in Seq(STRING) BY <1>3, CleanType DEF Absolute
    <2>2. Creating(r) => Front(Clean(r.path)) \in Seq(STRING)
                         /\ Append(Front(Clean(r.path)), Last(Clean(r.path))) = Clean(r.path)
      BY <2>1, FrontLast
    <2> QED BY <2>1, <2>2 DEF WalkPath
  <1>7. ok /\ asRoot /\ ~CoversRoot(scn.grants) => LeadsInto(RootDir, Clean(r.path), Granted(scn.grants))
    BY <1>2, <1>3, PathLeads
  <1>8. Req(c)' = r BY <1>1 DEF Req
  <1> HIDE DEF r, allowed, asRoot, ok
  <1>9. Typed'
    <2>1. rest' \in [Calls -> Seq(STRING)] BY <1>1, <1>2, <1>6, EmptySeq DEF Typed
    <2>2. pc' \in [Calls -> Places] BY <1>1, <1>2 DEF Typed, Places
    <2>3. root' \in [Calls -> BOOLEAN] /\ noFollow' \in [Calls -> BOOLEAN]
      BY <1>1, <1>2, <1>4 DEF Typed, CoversRoot
    <2> QED BY <1>1, <1>2, <2>1, <2>2, <2>3 DEF Typed
  <1>10. Entries' BY <1>1, <1>2 DEF Entries
  <1>11. ASSUME ok PROVE CallOK(c)'
    <2>1. /\ pc'[c] = "open" /\ rest'[c] = WalkPath(r) /\ at'[c] = RootDir /\ touched'[c] = {} /\ stack'[c] = <<>>
          /\ noFollow'[c] => asRoot /\ ~CoversRoot(scn.grants)
      BY <1>1, <1>2, <1>5, <1>11 DEF Typed
    <2>2. Phase(c)' BY <1>6, <1>8, <1>11, <2>1 DEF Phase, Looking, Holding
    <2>3. Ahead(c)' = Clean(r.path) BY <1>6, <1>8, <1>11, <2>1 DEF Ahead, WalkPath
    <2>4. OnTheWay(c)'
      BY <1>1, <1>7, <1>11, <2>1, <2>3 DEF OnTheWay, Looking, Holding
    <2>5. Inside(c)' BY <2>1 DEF Inside
    <2> QED BY <2>2, <2>4, <2>5 DEF CallOK
  <1>12. ASSUME ~ok PROVE CallOK(c)'
    <2>1. /\ pc'[c] = "failed" /\ touched'[c] = {} /\ stack'[c] = <<>>
          /\ noFollow'[c] => asRoot /\ ~CoversRoot(scn.grants)
      BY <1>1, <1>2, <1>5, <1>12 DEF Typed
    <2>2. Phase(c)' BY <2>1 DEF Phase, Looking, Holding
    <2>3. OnTheWay(c)' BY <1>1, <2>1 DEF OnTheWay, Looking, Holding
    <2>4. Inside(c)' BY <2>1 DEF Inside
    <2> QED BY <2>2, <2>3, <2>4 DEF CallOK
  <1>13. \A x \in Calls \ {c} : Same(x) BY <1>1, <1>2 DEF Typed, Same
  <1> QED BY <1>1, <1>9, <1>10, <1>11, <1>12, <1>13 DEF Kept

\* A call that looks up a name and follows no link: the entry is on the way too.
LEMMA NextName ==
    ASSUME IInv, NEW c \in Calls, noFollow[c], pc[c] \in {"open", "again"}, rest[c] # <<>>,
           Lookat(at[c], Head(rest[c])) # None, Lookat(at[c], Head(rest[c])) \notin Links
    PROVE  LET e == Lookat(at[c], Head(rest[c]))
               left == IF Creating(Req(c)) THEN Append(Tail(rest[c]), Last(Clean(Req(c).path))) ELSE Tail(rest[c])
           IN e \in Safe(scn.grants) \/ LeadsInto(e, left, Granted(scn.grants))
  <1> DEFINE q == Ahead(c)
             x == Last(Clean(Req(c).path))
             left == IF Creating(Req(c)) THEN Append(Tail(rest[c]), x) ELSE Tail(rest[c])
  <1>1. Typed /\ Given /\ Entries /\ CallOK(c) BY DEF IInv
  <1>2. rest[c] \in Seq(STRING) BY <1>1 DEF Typed
  <1>3. Creating(Req(c)) => x \in STRING
    BY <1>1, FrontLast DEF CallOK, Phase, Looking
  <1> HIDE DEF x
  <1>4. /\ Head(Append(rest[c], x)) = Head(rest[c]) /\ Tail(Append(rest[c], x)) = Append(Tail(rest[c]), x)
        /\ (x \in STRING => Append(rest[c], x) \in Seq(STRING) /\ Append(rest[c], x) # <<>>)
    BY <1>2, HeadTailAppend, AppendProperties
  <1>5. q = IF Creating(Req(c)) THEN Append(rest[c], x) ELSE rest[c] BY DEF Ahead, x
  <1> HIDE DEF q
  <1>6. q \in Seq(STRING) /\ q # <<>> /\ Head(q) = Head(rest[c]) /\ Tail(q) = left
    BY <1>2, <1>3, <1>4, <1>5
  <1>7. ~CoversRoot(scn.grants) /\ (at[c] \in Safe(scn.grants) \/ LeadsInto(at[c], q, Granted(scn.grants)))
    BY <1>1 DEF CallOK, OnTheWay, Looking, q
  <1> HIDE DEF left
  <1>8. \/ Lookat(at[c], Head(q)) \in Safe(scn.grants)
        \/ LeadsInto(Lookat(at[c], Head(q)), Tail(q), Granted(scn.grants))
    BY <1>1, <1>6, <1>7, StepLeads
  <1> QED BY <1>6, <1>8 DEF left, x

\* One component of a path.
LEMMA OpenatInv ==
    ASSUME IInv, NEW c \in Calls, Openat(c)
    PROVE  Kept(c)
  <1> DEFINE raw == Lookat(at[c], Head(rest[c]))
             i == IF LastLink(c, raw) THEN raw ELSE Seen(c, raw)
             last == Len(rest[c]) = 1
             missing == raw = None
             Make == missing /\ Req(c).op = "create" /\ pc[c] = "open" /\ Goto(c, "mkdirat") /\ UNCHANGED walk
             Stop == (Goto(c, "done") \/ Goto(c, "failed")) /\ UNCHANGED walk
             Enter == /\ ~missing /\ ~LastLink(c, raw) /\ i \in Dirs
                      /\ at' = [at EXCEPT ![c] = i]
                      /\ rest' = [rest EXCEPT ![c] = Tail(@)]
                      /\ Goto(c, "open")
                      /\ UNCHANGED <<held, smode, sown>>
             Hold == /\ ~missing /\ ~LastLink(c, raw) /\ last /\ i \notin Links /\ ~Creating(Req(c))
                     /\ held' = [held EXCEPT ![c] = i]
                     /\ smode' = [smode EXCEPT ![c] = mode[i]]
                     /\ rest' = [rest EXCEPT ![c] = <<>>]
                     /\ Goto(c, "held")
                     /\ UNCHANGED at
  <1>1. /\ pc[c] \in {"open", "again"} /\ rest[c] # <<>>
        /\ UNCHANGED <<scn, ent, mode, root, noFollow, stack, touched>>
    BY DEF Openat, fs, worker, walking
  <1>2. Make \/ Stop \/ Enter \/ Hold BY DEF Openat
  <1>3. Typed /\ Given /\ Entries /\ CallOK(c) BY DEF IInv
  <1>4. raw \in Inodes \cup {None} BY <1>3, LookatType
  <1>5. rest[c] \in Seq(STRING) /\ Tail(rest[c]) \in Seq(STRING)
    BY <1>1, <1>3 DEF Typed
  <1>6. ~missing /\ ~LastLink(c, raw) => i \in Inodes /\ (noFollow[c] => i = raw)
    BY <1>3, <1>4, SeenType
  <1>7. noFollow[c] /\ ~missing /\ raw \notin Links =>
          LET left == IF Creating(Req(c)) THEN Append(Tail(rest[c]), Last(Clean(Req(c).path))) ELSE Tail(rest[c])
          IN raw \in Safe(scn.grants) \/ LeadsInto(raw, left, Granted(scn.grants))
    BY <1>1, NextName
  <1> HIDE DEF raw, i, missing
  <1>8. Entries' /\ Req(c)' = Req(c) BY <1>1, <1>3 DEF Entries, Req
  <1>9. CASE Make
    <2>1. Typed' BY <1>1, <1>3, <1>9 DEF Typed, Goto, Places, walk
    <2>2. \A x \in Calls \ {c} : Same(x) BY <1>1, <1>3, <1>9 DEF Typed, Same, Goto, walk
    <2>3. /\ pc'[c] = "mkdirat" /\ noFollow'[c] = noFollow[c] /\ at'[c] = at[c] /\ rest'[c] = rest[c]
          /\ touched'[c] = touched[c] /\ stack'[c] = stack[c]
      BY <1>1, <1>3, <1>9 DEF Goto, walk, Typed
    <2>4. Phase(c)' BY <1>1, <1>3, <1>8, <1>9, <2>3 DEF Phase, CallOK, Looking, Holding, Creating
    <2>5. Ahead(c)' = Ahead(c) BY <1>8, <2>3 DEF Ahead
    <2>6. OnTheWay(c)' BY <1>1, <1>3, <2>3, <2>5 DEF OnTheWay, CallOK, Looking, Holding
    <2>7. Inside(c)' BY <1>1, <1>3, <1>8, <2>3 DEF Inside, Above, CallOK, Looking
    <2> QED BY <1>1, <1>8, <2>1, <2>2, <2>4, <2>6, <2>7 DEF Kept, CallOK
  <1>10. CASE Stop
    <2>1. Typed' BY <1>1, <1>3, <1>10 DEF Typed, Goto, Places, walk
    <2>2. \A x \in Calls \ {c} : Same(x) BY <1>1, <1>3, <1>10 DEF Typed, Same, Goto, walk
    <2>3. /\ pc'[c] \in {"done", "failed"} /\ noFollow'[c] = noFollow[c]
          /\ touched'[c] = touched[c] /\ stack'[c] = stack[c]
      BY <1>1, <1>3, <1>10 DEF Goto, walk, Typed
    <2>4. Phase(c)' BY <2>3 DEF Phase, Looking, Holding
    <2>5. OnTheWay(c)' BY <1>1, <1>3, <2>3 DEF OnTheWay, CallOK, Looking, Holding
    <2>6. Inside(c)' BY <1>1, <1>3, <1>8, <2>3 DEF Inside, Above, CallOK, Looking
    <2> QED BY <1>1, <1>8, <2>1, <2>2, <2>4, <2>5, <2>6 DEF Kept, CallOK
  <1>11. CASE Enter
    <2>1. Typed' BY <1>1, <1>3, <1>5, <1>11 DEF Typed, Goto, Places
    <2>2. \A x \in Calls \ {c} : Same(x) BY <1>1, <1>3, <1>11 DEF Typed, Same, Goto
    <2>3. /\ pc'[c] = "open" /\ noFollow'[c] = noFollow[c] /\ at'[c] = i /\ rest'[c] = Tail(rest[c])
          /\ touched'[c] = touched[c] /\ stack'[c] = stack[c]
      BY <1>1, <1>3, <1>11 DEF Goto, Typed
    <2>4. Phase(c)' BY <1>1, <1>3, <1>8, <2>3 DEF Phase, CallOK, Looking, Holding
    <2>5. Ahead(c)' = IF Creating(Req(c)) THEN Append(Tail(rest[c]), Last(Clean(Req(c).path))) ELSE Tail(rest[c])
      BY <1>8, <2>3 DEF Ahead
    <2>6. noFollow[c] => i \in Safe(scn.grants) \/ LeadsInto(i, Ahead(c)', Granted(scn.grants))
      <3>1. noFollow[c] => i = raw /\ raw \notin Links BY <1>6, <1>11, TreeAssumption
      <3> QED BY <1>7, <1>11, <2>5, <3>1
    <2>7. OnTheWay(c)' BY <1>1, <1>3, <2>3, <2>6 DEF OnTheWay, CallOK, Looking, Holding
    <2>8. Inside(c)' BY <1>1, <1>3, <1>8, <2>3 DEF Inside, Above, CallOK, Looking
    <2> QED BY <1>1, <1>8, <2>1, <2>2, <2>4, <2>7, <2>8 DEF Kept, CallOK
  <1>12. CASE Hold
    <2>1. i \in Inodes BY <1>6, <1>12
    <2>2. Typed'
      <3>1. held' \in [Calls -> Inodes \cup {None}] /\ smode' \in [Calls -> SUBSET Bits]
        BY <1>3, <1>12, <2>1 DEF Typed
      <3>2. rest' \in [Calls -> Seq(STRING)] BY <1>3, <1>12, EmptySeq DEF Typed
      <3>3. pc' \in [Calls -> Places] BY <1>3, <1>12 DEF Typed, Goto, Places
      <3> QED BY <1>1, <1>3, <1>12, <3>1, <3>2, <3>3 DEF Typed
    <2>3. \A x \in Calls \ {c} : Same(x) BY <1>1, <1>3, <1>12 DEF Typed, Same, Goto
    <2>4. /\ pc'[c] = "held" /\ noFollow'[c] = noFollow[c] /\ held'[c] = i
          /\ touched'[c] = touched[c] /\ stack'[c] = stack[c]
      BY <1>1, <1>3, <1>12 DEF Goto, Typed
    <2>5. Phase(c)' BY <2>1, <2>4 DEF Phase, Looking, Holding
    <2>6. noFollow[c] => i \in Safe(scn.grants)
      <3>1. Tail(rest[c]) = <<>>
        <4>1. Len(Tail(rest[c])) = 0 BY <1>1, <1>5, <1>12
        <4> QED BY <1>5, <4>1, EmptySeq
      <3>2. noFollow[c] => i = raw BY <1>6, <1>12
      <3>3. noFollow[c] => i \in Safe(scn.grants) \/ LeadsInto(i, <<>>, Granted(scn.grants))
        BY <1>7, <1>12, <3>1, <3>2
      <3> QED BY <3>3, EmptyLeads DEF Safe
    <2>7. OnTheWay(c)' BY <1>1, <1>3, <2>4, <2>6 DEF OnTheWay, CallOK, Looking, Holding
    <2>8. Inside(c)' BY <1>1, <1>3, <1>8, <2>4 DEF Inside, Above, CallOK, Looking
    <2> QED BY <1>1, <1>8, <2>2, <2>3, <2>5, <2>7, <2>8 DEF Kept, CallOK
  <1> QED BY <1>2, <1>9, <1>10, <1>11, <1>12

\* A step that leaves a call where it was, or ends it, and shows nothing new.
LEMMA PcInv ==
    ASSUME IInv, NEW c \in Calls, NEW where \in {"again", "creat", "write", "done", "failed"}, Goto(c, where),
           UNCHANGED <<scn, ent, mode, root, noFollow, at, rest, held, smode, stack, touched>>,
           where = "again" => pc[c] = "mkdirat",
           where = "creat" => pc[c] \in {"open", "again"} /\ rest[c] = <<>> /\ Creating(Req(c)),
           where = "write" => pc[c] = "truncate"
    PROVE  Kept(c)
  <1>1. Typed /\ Entries /\ CallOK(c) BY DEF IInv
  <1>2. Typed' BY <1>1 DEF Typed, Goto, Places
  <1>3. Entries' /\ Req(c)' = Req(c) BY <1>1 DEF Entries, Req
  <1>4. \A x \in Calls \ {c} : Same(x) BY <1>1 DEF Typed, Same, Goto
  <1>5. pc'[c] = where BY <1>1 DEF Goto, Typed
  <1>6. Phase(c)' BY <1>1, <1>3, <1>5 DEF Phase, CallOK, Looking, Holding
  <1>7. Ahead(c)' = Ahead(c) BY <1>3 DEF Ahead
  <1>8. OnTheWay(c)' BY <1>1, <1>5, <1>7 DEF OnTheWay, CallOK, Looking, Holding
  <1>9. Inside(c)' BY <1>1, <1>3, <1>5 DEF Inside, Above, CallOK, Looking
  <1> QED BY <1>2, <1>3, <1>4, <1>6, <1>8, <1>9 DEF Kept, CallOK

\* The end of a path.
LEMMA OpenedInv ==
    ASSUME IInv, NEW c \in Calls, Opened(c)
    PROVE  Kept(c)
  <1>1. /\ pc[c] \in {"open", "again"} /\ rest[c] = <<>>
        /\ UNCHANGED <<scn, ent, mode, root, noFollow, at, rest, stack, touched>>
    BY DEF Opened, fs, worker, walking
  <1>2. CASE Creating(Req(c))
    <2>1. Goto(c, "creat") /\ UNCHANGED <<held, smode>> BY <1>2 DEF Opened
    <2> QED BY <1>1, <1>2, <2>1, PcInv
  <1>3. CASE ~Creating(Req(c))
    <2>1. /\ held' = [held EXCEPT ![c] = at[c]]
          /\ smode' = [smode EXCEPT ![c] = mode[at[c]]]
          /\ pc' = [pc EXCEPT ![c] = "held"]
      BY <1>3 DEF Opened, Goto
    <2>2. Typed /\ Entries /\ CallOK(c) BY DEF IInv
    <2>3. at[c] \in Inodes BY <2>2 DEF Typed, Inodes
    <2>4. Typed' BY <1>1, <2>1, <2>2, <2>3 DEF Typed, Places
    <2>5. Entries' /\ Req(c)' = Req(c) BY <1>1, <2>2 DEF Entries, Req
    <2>6. \A x \in Calls \ {c} : Same(x) BY <1>1, <2>1, <2>2 DEF Typed, Same
    <2>7. pc'[c] = "held" /\ held'[c] = at[c] BY <2>1, <2>2 DEF Typed
    <2>8. Phase(c)' BY <2>3, <2>7 DEF Phase, Looking, Holding
    <2>9. noFollow[c] => at[c] \in Safe(scn.grants)
      <3>1. Ahead(c) = <<>> BY <1>1, <1>3 DEF Ahead
      <3>2. noFollow[c] => at[c] \in Safe(scn.grants) \/ LeadsInto(at[c], <<>>, Granted(scn.grants))
        BY <1>1, <2>2, <3>1 DEF CallOK, OnTheWay, Looking
      <3> QED BY <3>2, EmptyLeads DEF Safe
    <2>10. OnTheWay(c)' BY <1>1, <2>2, <2>7, <2>9 DEF OnTheWay, CallOK, Looking, Holding
    <2>11. Inside(c)' BY <1>1, <2>2, <2>5, <2>7 DEF Inside, Above, CallOK, Looking
    <2> QED BY <1>1, <2>4, <2>5, <2>6, <2>8, <2>10, <2>11 DEF Kept, CallOK
  <1> QED BY <1>2, <1>3

\* A directory is made: what is new is nobody's secret.
LEMMA MkdiratInv ==
    ASSUME IInv, NEW c \in Calls, Mkdirat(c)
    PROVE  Kept(c)
  <1> DEFINE n == Head(rest[c])
             new == {i \in Fresh \cap Dirs : \A d \in Dirs, m \in Range(Names) : ent[d][m] # i}
  <1>1. /\ pc[c] = "mkdirat"
        /\ UNCHANGED <<scn, mode, root, noFollow, at, rest, held, smode, stack, touched>>
    BY DEF Mkdirat, worker, walk, walking
  <1>2. \/ UNCHANGED ent /\ (Goto(c, "again") \/ Goto(c, "failed"))
        \/ new # {} /\ ent' = [ent EXCEPT ![at[c]][n] = CHOOSE i \in new : TRUE] /\ Goto(c, "again")
    BY DEF Mkdirat
  <1>3. CASE UNCHANGED ent /\ (Goto(c, "again") \/ Goto(c, "failed"))
    BY <1>1, <1>3, PcInv
  <1>4. CASE new # {} /\ ent' = [ent EXCEPT ![at[c]][n] = CHOOSE i \in new : TRUE] /\ Goto(c, "again")
    <2>1. PICK i \in Fresh \cap Dirs : ent' = [ent EXCEPT ![at[c]][n] = i] BY <1>4
    <2>2. Typed /\ Entries /\ CallOK(c) BY DEF IInv
    <2> HIDE DEF n
    <2>3. at[c] \in Dirs /\ i \in Inodes BY <2>2 DEF Typed, Inodes
    <2>4. ent' \in [Dirs -> [Range(Names) -> Inodes \cup {None}]] BY <2>1, <2>2, <2>3 DEF Typed
    <2>5. Typed' BY <1>1, <1>4, <2>2, <2>4 DEF Typed, Goto, Places
    <2>6. Entries' BY <2>1, <2>2, <2>3 DEF Entries, Typed
    <2>7. \A x \in Calls \ {c} : Same(x) BY <1>1, <1>4, <2>2 DEF Typed, Same, Goto
    <2>8. pc'[c] = "again" /\ Req(c)' = Req(c) BY <1>1, <1>4, <2>2 DEF Typed, Goto, Req
    <2>9. Phase(c)' BY <1>1, <2>2, <2>8 DEF Phase, CallOK, Looking, Holding
    <2>10. Ahead(c)' = Ahead(c) BY <1>1, <2>8 DEF Ahead
    <2>11. OnTheWay(c)' BY <1>1, <2>2, <2>8, <2>10 DEF OnTheWay, CallOK, Looking, Holding
    <2>12. Inside(c)' BY <1>1, <2>2, <2>8 DEF Inside, Above, CallOK, Looking
    <2> QED BY <1>1, <2>5, <2>6, <2>7, <2>9, <2>11, <2>12 DEF Kept, CallOK
  <1> QED BY <1>2, <1>3, <1>4

\* A step that touches inodes which a call that follows no link may touch, and
\* then is done, or goes on with the descriptor it holds.
LEMMA TouchInv ==
    ASSUME IInv, NEW c \in Calls, NEW where \in {"done", "dots", "lstat", "truncate"}, NEW is \in SUBSET Inodes,
           NEW q \in Seq(STRING),
           Goto(c, where), Touch(c, is), rest' = [rest EXCEPT ![c] = q],
           UNCHANGED <<scn, mode, root, noFollow, at, held, smode, stack>>,
           ent' \in [Dirs -> [Range(Names) -> Inodes \cup {None}]], Entries',
           noFollow[c] /\ Req(c).op # "usage" => is \cap Outside \subseteq Above(c),
           where \in {"dots", "lstat"} =>
              pc[c] \in {"held", "dots", "lstat"} /\ Req(c).op = "list" /\ held[c] \in Dirs,
           where = "dots" => Req(c).all,
           where = "truncate" => pc[c] = "held" /\ Req(c).op = "update" /\ held[c] \in Regs
    PROVE  Kept(c)
  <1>1. Typed /\ CallOK(c) BY DEF IInv
  <1>2. Typed'
    <2>1. pc' \in [Calls -> Places] BY <1>1 DEF Typed, Goto, Places
    <2>2. rest' \in [Calls -> Seq(STRING)] BY <1>1 DEF Typed
    <2>3. touched' \in [Calls -> SUBSET Inodes] BY <1>1 DEF Typed, Touch
    <2> QED BY <1>1, <2>1, <2>2, <2>3 DEF Typed
  <1>3. Req(c)' = Req(c) BY DEF Req
  <1>4. \A x \in Calls \ {c} : Same(x) BY <1>1 DEF Typed, Same, Goto, Touch
  <1>5. pc'[c] = where /\ touched'[c] = touched[c] \cup is BY <1>1 DEF Goto, Touch, Typed
  <1>6. Phase(c)' BY <1>1, <1>3, <1>5 DEF Phase, CallOK, Looking, Holding, Inodes
  <1>7. OnTheWay(c)' BY <1>1, <1>5 DEF OnTheWay, CallOK, Looking, Holding
  <1>8. Inside(c)' BY <1>1, <1>3, <1>5 DEF Inside, Above, CallOK, Looking
  <1> QED BY <1>2, <1>4, <1>6, <1>7, <1>8 DEF Kept, CallOK

\* What a call that follows no link holds is covered, and outside of nothing.
LEMMA HeldSafe ==
    ASSUME IInv, NEW c \in Calls, pc[c] \in Holding
    PROVE  /\ held[c] \in Inodes
           /\ noFollow[c] => /\ held[c] \in Safe(scn.grants) /\ held[c] \notin Outside
                             /\ ~CoversRoot(scn.grants)
                             /\ Safe(scn.grants) \subseteq Inodes /\ Safe(scn.grants) \cap Outside = {}
  <1>1. held[c] \in Inodes BY DEF IInv, CallOK, Phase
  <1>2. noFollow[c] => held[c] \in Safe(scn.grants) /\ ~CoversRoot(scn.grants) BY DEF IInv, CallOK, OnTheWay
  <1>3. Given BY DEF IInv
  <1> QED BY <1>1, <1>2, <1>3, GrantedCovers

\* The file a call creates, or the one it finds there.
LEMMA CreatInv ==
    ASSUME IInv, NEW c \in Calls, Creat(c)
    PROVE  Kept(c)
  <1> DEFINE n == Last(Clean(Req(c).path))
             raw == Lookat(at[c], n)
             new == {i \in Fresh \cap Regs : \A d \in Dirs, m \in Range(Names) : ent[d][m] # i}
             i == IF raw = None /\ new # {} THEN CHOOSE x \in new : TRUE ELSE Seen(c, raw)
  <1>1. /\ pc[c] = "creat"
        /\ UNCHANGED <<scn, mode, root, noFollow, at, rest, held, smode, stack>>
        /\ \/ i \notin Regs /\ Goto(c, "failed") /\ UNCHANGED <<ent, touched>>
           \/ /\ i \in Regs /\ ent' = IF raw = None THEN [ent EXCEPT ![at[c]][n] = i] ELSE ent
              /\ Touch(c, {i}) /\ Goto(c, "done")
    BY DEF Creat, worker, walk, walking
  <1>2. Typed /\ Given /\ Entries /\ CallOK(c) BY DEF IInv
  <1>3. raw \in Inodes \cup {None} BY <1>2, LookatType
  <1>4. new # {} => (CHOOSE x \in new : TRUE) \in Fresh OBVIOUS
  <1>5. CASE i \notin Regs
    <2>1. Goto(c, "failed") /\ UNCHANGED <<ent, touched>> BY <1>1, <1>5
    <2> QED BY <1>1, <2>1, PcInv
  <1>6. CASE i \in Regs
    <2>1. /\ ent' = IF raw = None THEN [ent EXCEPT ![at[c]][n] = i] ELSE ent
          /\ Touch(c, {i}) /\ Goto(c, "done")
      BY <1>1, <1>6
    <2>2. i \in Inodes BY <1>6 DEF Inodes
    <2>3. raw = None => i \in Fresh
      <3>1. raw = None /\ new = {} => Seen(c, raw) = None BY TreeAssumption DEF Seen, Deref, Inodes
      <3> QED BY <1>4, <1>6, <3>1, TreeAssumption DEF Inodes
    <2>4. noFollow[c] /\ raw # None => i = raw BY <1>2, <1>3, SeenType
    <2> HIDE DEF raw, i, n
    <2>5. noFollow[c] => i \notin Outside
      <3> SUFFICES ASSUME noFollow[c], raw # None PROVE i \notin Outside BY <2>3, TreeAssumption
      <3>1. i = raw /\ raw \notin Links BY <1>6, <2>4, TreeAssumption
      <3>2. Creating(Req(c)) /\ rest[c] = <<>> /\ Clean(Req(c).path) \in Seq(STRING) \ {<<>>}
        BY <1>1, <1>2 DEF CallOK, Phase, Looking
      <3>3. n \in STRING BY <3>2, FrontLast DEF n
      <3>4. Ahead(c) = Append(<<>>, n) BY <3>2 DEF Ahead, n
      <3> DEFINE q == Append(<<>>, n)
      <3>5. q \in Seq(STRING) /\ q # <<>> /\ Head(q) = n /\ Tail(q) = <<>>
        BY <3>3, EmptySeq, AppendProperties, HeadTailAppend
      <3>6. ~CoversRoot(scn.grants) /\ (at[c] \in Safe(scn.grants) \/ LeadsInto(at[c], q, Granted(scn.grants)))
        BY <1>1, <1>2, <3>4 DEF CallOK, OnTheWay, Looking
      <3> HIDE DEF q
      <3>7. raw \in Safe(scn.grants) \/ LeadsInto(raw, <<>>, Granted(scn.grants))
        BY <1>2, <3>1, <3>5, <3>6, StepLeads DEF raw
      <3>8. raw \in Safe(scn.grants) BY <3>7, EmptyLeads DEF Safe
      <3> QED BY <1>2, <3>1, <3>6, <3>8, GrantedCovers
    <2>6. at[c] \in Dirs BY <1>2 DEF Typed
    <2>7. ent' \in [Dirs -> [Range(Names) -> Inodes \cup {None}]] BY <1>2, <2>1, <2>2, <2>6 DEF Typed
    <2>8. Entries' BY <1>2, <2>1, <2>3, <2>6 DEF Entries, Typed
    <2>9. rest' = [rest EXCEPT ![c] = rest[c]] /\ rest[c] \in Seq(STRING) BY <1>1, <1>2 DEF Typed
    <2>10. {i} \in SUBSET Inodes BY <2>2
    <2>11. noFollow[c] /\ Req(c).op # "usage" => {i} \cap Outside = {} BY <2>5
    <2> QED BY <1>1, <2>1, <2>7, <2>8, <2>9, <2>10, <2>11, TouchInv
  <1> QED BY <1>5, <1>6

\* Everything below what is covered is covered, or a link.
LEMMA BelowSafe ==
    ASSUME IInv, NEW i \in Inodes, NEW depth \in Nat
    PROVE  /\ Below(i, depth) \subseteq Inodes
           /\ i \in Safe(scn.grants) /\ ~CoversRoot(scn.grants) => Below(i, depth) \cap Outside = {}
  <1>1. Typed /\ Given /\ Entries BY DEF IInv
  <1>2. \A d \in Inodes \cap Dirs, n \in Range(Names) : Lookat(d, n) \in Inodes \cup {None} BY <1>1, LookatType
  <1>3. Below(i, depth) \subseteq Inodes BY <1>2, BelowStays
  <1>4. ASSUME i \in Safe(scn.grants), ~CoversRoot(scn.grants) PROVE Below(i, depth) \cap Outside = {}
    <2> DEFINE C == Safe(scn.grants) \cup Links
    <2>1. C \cap Outside = {} BY <1>1, <1>4, GrantedCovers, TreeAssumption
    <2>2. C \cap Dirs \subseteq Safe(scn.grants) BY TreeAssumption
    <2>3. \A d \in C \cap Dirs, n \in Range(Names) : Lookat(d, n) \in C \cup {None}
      BY <1>1, <1>4, <2>2, ChildSafe
    <2>4. i \in C BY <1>4
    <2> HIDE DEF C
    <2>5. Below(i, depth) \subseteq C BY <2>3, <2>4, BelowStays
    <2> QED BY <2>1, <2>5
  <1> QED BY <1>3, <1>4

\* An answer from the descriptor, find's walk below it included.
LEMMA DescribeInv ==
    ASSUME IInv, NEW c \in Calls, Describe(c)
    PROVE  Kept(c)
  <1> DEFINE r == Req(c)
             i == held[c]
             depth == IF r.depth > 0 THEN r.depth ELSE 5
  <1>1. /\ pc[c] = "held"
        /\ UNCHANGED <<scn, ent, mode, root, noFollow, at, rest, held, smode, stack>>
    BY DEF Describe, fs, worker, walk, walking
  <1>2. \/ Goto(c, "failed") /\ UNCHANGED touched
        \/ /\ Goto(c, "done")
           /\ \E is : is \subseteq Below(i, depth) \cup {i} /\ Touch(c, is)
    <2> DEFINE pruned == {v \in Virtual : IsStrictPrefix(Clean(r.path), Clean(v))}
               gone == UNION {Subtree(Resolve(Clean(v))) : v \in pruned}
               is == IF r.op = "find" THEN {x \in Below(i, depth) \ gone : Permitted(c, x)} ELSE {i}
    <2>1. \/ Goto(c, "failed") /\ UNCHANGED touched
          \/ Goto(c, "done") /\ Touch(c, is)
      BY DEF Describe
    <2> HIDE DEF gone
    <2>2. is \subseteq Below(i, depth) \cup {i} OBVIOUS
    <2> QED BY <2>1, <2>2
  <1>3. CASE Goto(c, "failed") /\ UNCHANGED touched BY <1>1, <1>3, PcInv
  <1>4. CASE Goto(c, "done") /\ \E is : is \subseteq Below(i, depth) \cup {i} /\ Touch(c, is)
    <2>1. PICK is : is \subseteq Below(i, depth) \cup {i} /\ Touch(c, is) BY <1>4
    <2>2. Typed /\ Entries BY DEF IInv
    <2>3. depth \in Nat BY <2>2, ReqType
    <2>4. i \in Inodes /\ (noFollow[c] => i \in Safe(scn.grants) /\ i \notin Outside /\ ~CoversRoot(scn.grants))
      BY <1>1, HeldSafe DEF Holding
    <2> HIDE DEF depth, i
    <2>5. is \subseteq Inodes /\ (noFollow[c] => is \cap Outside = {}) BY <2>1, <2>3, <2>4, BelowSafe
    <2>6. rest' = [rest EXCEPT ![c] = rest[c]] /\ rest[c] \in Seq(STRING) BY <1>1, <2>2 DEF Typed
    <2>7. ent' \in [Dirs -> [Range(Names) -> Inodes \cup {None}]] /\ Entries' BY <1>1, <2>2 DEF Typed, Entries
    <2>8. is \in SUBSET Inodes BY <2>5
    <2> QED BY <1>1, <1>4, <2>1, <2>5, <2>6, <2>7, <2>8, TouchInv
  <1> QED BY <1>2, <1>3, <1>4

\* The names of a directory.
LEMMA ReadDirInv ==
    ASSUME IInv, NEW c \in Calls, ReadDir(c)
    PROVE  Kept(c)
  <1>1. /\ pc[c] = "held" /\ Req(c).op = "list"
        /\ UNCHANGED <<scn, ent, mode, root, noFollow, at, held, smode, stack>>
    BY DEF ReadDir, fs, worker, walking
  <1>2. \/ Goto(c, "failed") /\ UNCHANGED <<rest, touched>>
        \/ /\ held[c] \in Dirs /\ rest' = [rest EXCEPT ![c] = EntriesOf(held[c])]
           /\ Touch(c, {held[c]})
           /\ \E where \in {"dots", "lstat"} : Goto(c, where) /\ (where = "dots" => Req(c).all)
    BY DEF ReadDir
  <1>3. CASE Goto(c, "failed") /\ UNCHANGED <<rest, touched>> BY <1>1, <1>3, PcInv
  <1>4. CASE /\ held[c] \in Dirs /\ rest' = [rest EXCEPT ![c] = EntriesOf(held[c])]
             /\ Touch(c, {held[c]})
             /\ \E where \in {"dots", "lstat"} : Goto(c, where) /\ (where = "dots" => Req(c).all)
    <2>0. PICK where \in {"dots", "lstat"} : Goto(c, where) /\ (where = "dots" => Req(c).all) BY <1>4
    <2>1. Typed /\ Entries BY DEF IInv
    <2>2. EntriesOf(held[c]) \in Seq(STRING) BY EntriesType
    <2>3. {held[c]} \in SUBSET Inodes /\ (noFollow[c] => {held[c]} \cap Outside = {})
      BY <1>1, HeldSafe DEF Holding
    <2>4. ent' \in [Dirs -> [Range(Names) -> Inodes \cup {None}]] /\ Entries' BY <1>1, <2>1 DEF Typed, Entries
    <2> QED BY <1>1, <1>4, <2>0, <2>2, <2>3, <2>4, TouchInv
  <1> QED BY <1>2, <1>3, <1>4

\* "." and "..": the one step that may show something outside.
LEMMA DotsInv ==
    ASSUME IInv, NEW c \in Calls, Dots(c)
    PROVE  Kept(c)
  <1> DEFINE p == Clean(Req(c).path)
             self == IF noFollow[c] THEN held[c] ELSE ResolveLast(p)
             up == IF noFollow[c] THEN at[c] ELSE IF p = <<>> THEN RootDir ELSE ResolveLast(Front(p))
  <1>1. /\ pc[c] = "dots" /\ Touch(c, {self, up} \ {None}) /\ Goto(c, "lstat")
        /\ UNCHANGED <<scn, ent, mode, root, noFollow, at, rest, held, smode, stack>>
    BY DEF Dots, fs, worker, walk, walking
  <1>2. Typed /\ Entries /\ CallOK(c) BY DEF IInv
  <1>3. Req(c).op = "list" /\ Req(c).all /\ held[c] \in Dirs BY <1>1, <1>2 DEF CallOK, Phase
  <1>4. /\ held[c] \in Inodes /\ (noFollow[c] => held[c] \notin Outside)
        /\ at[c] \in Inodes /\ RootDir \in Inodes
    <2>1. held[c] \in Inodes /\ (noFollow[c] => held[c] \notin Outside) BY <1>1, HeldSafe DEF Holding
    <2>2. at[c] \in Inodes /\ RootDir \in Inodes BY <1>2, TreeAssumption DEF Typed, Inodes
    <2> QED BY <2>1, <2>2
  <1>5. ASSUME NEW q PROVE ResolveLast(q) \in Inodes \cup {None}
    BY <1>2, <1>4, LookatType DEF ResolveLast
  <1>6. self \in Inodes \cup {None} /\ up \in Inodes \cup {None} BY <1>4, <1>5
  <1>7. noFollow[c] => ({self, up} \ {None}) \cap Outside \subseteq Above(c) BY <1>3, <1>4 DEF Above
  <1> HIDE DEF self, up
  <1>8. {self, up} \ {None} \in SUBSET Inodes BY <1>6
  <1>9. rest' = [rest EXCEPT ![c] = rest[c]] /\ rest[c] \in Seq(STRING) BY <1>1, <1>2 DEF Typed
  <1>10. ent' \in [Dirs -> [Range(Names) -> Inodes \cup {None}]] /\ Entries' BY <1>1, <1>2 DEF Typed, Entries
  <1> QED BY <1>1, <1>3, <1>7, <1>8, <1>9, <1>10, TouchInv

\* One entry of it.
LEMMA LstatInv ==
    ASSUME IInv, NEW c \in Calls, Lstat(c)
    PROVE  Kept(c)
  <1> DEFINE i == Lookat(held[c], Head(rest[c]))
  <1>1. /\ pc[c] = "lstat"
        /\ UNCHANGED <<scn, ent, mode, root, noFollow, at, held, smode, stack>>
    BY DEF Lstat, fs, worker, walking
  <1>2. Typed /\ Given /\ Entries /\ CallOK(c) BY DEF IInv
  <1>3. CASE rest[c] = <<>>
    <2>1. Goto(c, "done") /\ UNCHANGED <<rest, touched>> BY <1>3 DEF Lstat
    <2> QED BY <1>1, <2>1, PcInv
  <1>4. CASE rest[c] # <<>>
    <2>1. Touch(c, {i} \ {None}) /\ rest' = [rest EXCEPT ![c] = Tail(@)] /\ UNCHANGED pc BY <1>4 DEF Lstat
    <2>2. Goto(c, "lstat") BY <1>1, <1>2, <2>1 DEF Goto, Typed
    <2>3. Tail(rest[c]) \in Seq(STRING) /\ rest' = [rest EXCEPT ![c] = Tail(rest[c])]
      BY <1>2, <1>4, <2>1 DEF Typed
    <2>4. i \in Inodes \cup {None} BY <1>2, LookatType
    <2>5. noFollow[c] => i \notin Outside
      <3>1. noFollow[c] => held[c] \in Safe(scn.grants) /\ ~CoversRoot(scn.grants) /\ Safe(scn.grants) \cap Outside = {}
        BY <1>1, HeldSafe DEF Holding
      <3>2. noFollow[c] => i \in Safe(scn.grants) \cup Links \cup {None} BY <1>2, <3>1, ChildSafe
      <3>3. Links \cap Outside = {} /\ None \notin Outside BY TreeAssumption DEF Inodes
      <3> QED BY <3>1, <3>2, <3>3
    <2> HIDE DEF i
    <2>6. {i} \ {None} \in SUBSET Inodes /\ (noFollow[c] => ({i} \ {None}) \cap Outside = {}) BY <2>4, <2>5
    <2>7. ent' \in [Dirs -> [Range(Names) -> Inodes \cup {None}]] /\ Entries' BY <1>1, <1>2 DEF Typed, Entries
    <2>8. Req(c).op = "list" /\ held[c] \in Dirs BY <1>1, <1>2 DEF CallOK, Phase
    <2> QED BY <1>1, <2>1, <2>2, <2>3, <2>6, <2>7, <2>8, TouchInv
  <1> QED BY <1>3, <1>4

\* disks/usage: a walk by path; nothing is claimed of what it touches.
LEMMA UsageInv ==
    ASSUME IInv, NEW c \in Calls, Usage(c)
    PROVE  Kept(c)
  <1> DEFINE start == ResolveLast(Clean(Req(c).path))
             is == {x \in Subtree(start) : Permitted(c, x)}
  <1>1. /\ pc[c] = "held" /\ Req(c).op = "usage"
        /\ UNCHANGED <<scn, ent, mode, root, noFollow, at, rest, held, smode, stack>>
    BY DEF Usage, fs, worker, walk, walking
  <1>2. \/ Goto(c, "failed") /\ UNCHANGED touched
        \/ start # None /\ Touch(c, is) /\ Goto(c, "done")
    BY DEF Usage
  <1>3. CASE Goto(c, "failed") /\ UNCHANGED touched BY <1>1, <1>3, PcInv
  <1>4. CASE start # None /\ Touch(c, is) /\ Goto(c, "done")
    <2>1. Typed /\ Entries BY DEF IInv
    <2>2. start \in Inodes
      <3>1. RootDir \in Inodes BY TreeAssumption DEF Inodes
      <3> HIDE DEF start
      <3>2. start \in Inodes \cup {None} BY <2>1, <3>1, LookatType DEF ResolveLast, start
      <3> QED BY <1>4, <3>2
    <2> HIDE DEF start
    <2>3. Subtree(start) \subseteq Inodes BY <2>2, BelowSafe DEF Subtree
    <2>4. is \in SUBSET Inodes BY <2>3
    <2> HIDE DEF is
    <2>5. rest' = [rest EXCEPT ![c] = rest[c]] /\ rest[c] \in Seq(STRING) BY <1>1, <2>1 DEF Typed
    <2>6. ent' \in [Dirs -> [Range(Names) -> Inodes \cup {None}]] /\ Entries' BY <1>1, <2>1 DEF Typed, Entries
    <2> QED BY <1>1, <1>4, <2>4, <2>5, <2>6, TouchInv
  <1> QED BY <1>2, <1>3, <1>4

\* files/update, its three steps.
LEMMA UpdateInv ==
    ASSUME IInv, NEW c \in Calls, UpdateRead(c) \/ UpdateTruncate(c) \/ UpdateWrite(c)
    PROVE  Kept(c)
  <1>1. UNCHANGED <<scn, ent, mode, root, noFollow, at, rest, held, smode, stack>>
    BY DEF UpdateRead, UpdateTruncate, UpdateWrite, fs, worker, walk, walking
  <1>2. Typed /\ Entries BY DEF IInv
  <1>3. CASE UpdateRead(c)
    <2>1. pc[c] = "held" /\ Req(c).op = "update" BY <1>3 DEF UpdateRead
    <2>2. \/ Goto(c, "failed") /\ UNCHANGED touched
          \/ held[c] \in Regs /\ Touch(c, {held[c]}) /\ Goto(c, "truncate")
      BY <1>3 DEF UpdateRead
    <2>3. CASE Goto(c, "failed") /\ UNCHANGED touched BY <1>1, <2>3, PcInv
    <2>4. CASE held[c] \in Regs /\ Touch(c, {held[c]}) /\ Goto(c, "truncate")
      <3>1. {held[c]} \in SUBSET Inodes /\ (noFollow[c] => {held[c]} \cap Outside = {})
        BY <2>1, HeldSafe DEF Holding
      <3>2. rest' = [rest EXCEPT ![c] = rest[c]] /\ rest[c] \in Seq(STRING) BY <1>1, <1>2 DEF Typed
      <3>3. ent' \in [Dirs -> [Range(Names) -> Inodes \cup {None}]] /\ Entries' BY <1>1, <1>2 DEF Typed, Entries
      <3> QED BY <1>1, <2>1, <2>4, <3>1, <3>2, <3>3, TouchInv
    <2> QED BY <2>2, <2>3, <2>4
  <1>4. CASE UpdateTruncate(c)
    <2>1. pc[c] = "truncate" /\ Goto(c, "write") /\ UNCHANGED touched BY <1>4 DEF UpdateTruncate
    <2> QED BY <1>1, <2>1, PcInv
  <1>5. CASE UpdateWrite(c)
    <2>1. (Goto(c, "done") \/ Goto(c, "failed")) /\ UNCHANGED touched BY <1>5 DEF UpdateWrite
    <2> QED BY <1>1, <2>1, PcInv
  <1> QED BY <1>3, <1>4, <1>5

\* The callback of chmod and chown, and the names below.
LEMMA VisitInv ==
    ASSUME IInv, NEW c \in Calls, Visit(c)
    PROVE  Kept(c)
  <1> DEFINE i == held[c]
             e == [dir |-> i, names |-> NamesToVisit(c, i)]
  <1>1. /\ pc[c] \in {"held", "visit"} /\ Req(c).op \in {"chmod", "chown"}
        /\ UNCHANGED <<scn, ent, root, noFollow, at, rest, held, smode>>
        /\ stack' = [stack EXCEPT ![c] = Append(@, e)] /\ Goto(c, "walk") /\ Change(c, i)
    BY DEF Visit, worker, walk
  <1>2. Typed /\ Given /\ Entries /\ CallOK(c) BY DEF IInv
  <1>3. /\ i \in Inodes
        /\ noFollow[c] => i \in Safe(scn.grants) /\ i \notin Outside
    BY <1>1, HeldSafe DEF Holding
  <1>4. \E is \in SUBSET {i} : touched' = [touched EXCEPT ![c] = @ \cup is]
    <2> DEFINE how == CASE IF Req(c).op = "chmod"
                             THEN ApplyMode(Req(c).spec, smode[c], i \in Dirs) = smode[c]
                             ELSE NewOwner(Req(c).owner, sown[c]) = sown[c] -> "unchanged"
                        [] ~(IF Req(c).op = "chmod"
                             THEN ApplyMode(Req(c).spec, smode[c], i \in Dirs) = smode[c]
                             ELSE NewOwner(Req(c).owner, sown[c]) = sown[c]) /\ MayChange(c, i) -> "changed"
                        [] OTHER -> "errors"
               is == IF how = "changed" THEN {i} ELSE {}
    <2>1. touched' = [touched EXCEPT ![c] = @ \cup is] BY <1>1 DEF Change
    <2> HIDE DEF how
    <2>2. is \in SUBSET {i} OBVIOUS
    <2> QED BY <2>1, <2>2
  <1>5. mode' \in [Inodes -> SUBSET Bits]
    <2> DEFINE new == ApplyMode(Req(c).spec, smode[c], i \in Dirs)
    <2>1. new \in SUBSET Bits
      <3>1. Req(c).spec \in ModeSpec BY <1>2, ReqType
      <3>2. smode[c] \in SUBSET Bits BY <1>2 DEF Typed
      <3>3. (i \in Dirs) \in BOOLEAN OBVIOUS
      <3> QED BY <3>1, <3>2, <3>3, ModeKeeps
    <2> DEFINE less == mode[i] \ (IF "gx" \in mode[i] THEN Special ELSE {"setuid"})
    <2>2. mode' = mode \/ mode' = [mode EXCEPT ![i] = new] \/ mode' = [mode EXCEPT ![i] = less]
      BY <1>1 DEF Change
    <2>3. less \in SUBSET Bits BY <1>2, <1>3 DEF Typed
    <2> HIDE DEF new, less
    <2> QED BY <1>2, <1>3, <2>1, <2>2, <2>3 DEF Typed
  <1>6. PICK is \in SUBSET {i} : touched' = [touched EXCEPT ![c] = @ \cup is] BY <1>4
  <1>7. e \in [dir : Inodes, names : Seq(STRING)]
    <2>1. NamesToVisit(c, i) \in Seq(STRING) BY EntriesType, EmptySeq DEF NamesToVisit
    <2> QED BY <1>3, <2>1
  <1>8. e.dir = i OBVIOUS
  <1> HIDE DEF i, e
  <1>9. stack[c] \in Seq([dir : Inodes, names : Seq(STRING)]) BY <1>2 DEF Typed
  <1>10. /\ Append(stack[c], e) \in Seq([dir : Inodes, names : Seq(STRING)])
         /\ Len(Append(stack[c], e)) = Len(stack[c]) + 1 /\ Len(stack[c]) \in Nat
         /\ \A k \in 1..Len(stack[c]) : Append(stack[c], e)[k] = stack[c][k]
         /\ Append(stack[c], e)[Len(stack[c]) + 1] = e
    BY <1>7, <1>9, AppendProperties
  <1>11. Typed'
    <2>1. stack' \in [Calls -> Seq([dir : Inodes, names : Seq(STRING)])] BY <1>1, <1>2, <1>10 DEF Typed
    <2>2. touched' \in [Calls -> SUBSET Inodes] BY <1>2, <1>3, <1>6 DEF Typed
    <2>3. pc' \in [Calls -> Places] BY <1>1, <1>2 DEF Typed, Goto, Places
    <2> QED BY <1>1, <1>2, <1>5, <2>1, <2>2, <2>3 DEF Typed
  <1>12. Entries' /\ Req(c)' = Req(c) BY <1>1, <1>2 DEF Entries, Req
  <1>13. \A x \in Calls \ {c} : Same(x) BY <1>1, <1>2, <1>6 DEF Typed, Same, Goto
  <1>14. pc'[c] = "walk" /\ stack'[c] = Append(stack[c], e) /\ touched'[c] = touched[c] \cup is
    BY <1>1, <1>2, <1>6 DEF Goto, Typed
  <1>15. Phase(c)' BY <1>1, <1>12, <1>14 DEF Phase, Looking, Holding
  <1>16. OnTheWay(c)'
    <2>1. noFollow[c] => \A k \in 1..Len(stack[c]) + 1 : Append(stack[c], e)[k].dir \in Safe(scn.grants)
      <3> SUFFICES ASSUME noFollow[c], NEW k \in 1..Len(stack[c]) + 1
                   PROVE  Append(stack[c], e)[k].dir \in Safe(scn.grants)
        OBVIOUS
      <3>1. CASE k = Len(stack[c]) + 1 BY <1>3, <1>8, <1>10, <3>1
      <3>2. CASE k \in 1..Len(stack[c]) BY <1>2, <1>10, <3>2 DEF CallOK, OnTheWay
      <3> QED BY <1>10, <3>1, <3>2
    <2> QED BY <1>1, <1>2, <1>10, <1>14, <2>1 DEF OnTheWay, CallOK, Looking, Holding
  <1>17. Inside(c)' BY <1>1, <1>2, <1>3, <1>12, <1>14 DEF Inside, Above, CallOK, Looking
  <1> QED BY <1>1, <1>11, <1>12, <1>13, <1>15, <1>16, <1>17 DEF Kept, CallOK

\* The next entry of the innermost directory.
LEMMA ChildInv ==
    ASSUME IInv, NEW c \in Calls, Child(c)
    PROVE  Kept(c)
  <1> DEFINE Frames == [dir : Inodes, names : Seq(STRING)]
             s == stack[c]
             top == Last(s)
             i == Lookat(top.dir, Head(top.names))
             e == [top EXCEPT !.names = Tail(@)]
             t == Append(Front(s), e)
  <1>1. /\ pc[c] = "walk" /\ s # <<>> /\ top.names # <<>>
        /\ UNCHANGED <<scn, ent, mode, root, noFollow, at, rest, touched>>
        /\ stack' = [stack EXCEPT ![c] = t]
        /\ \/ UNCHANGED <<held, smode, pc>>
           \/ /\ i # None /\ i \notin Links
              /\ held' = [held EXCEPT ![c] = i] /\ smode' = [smode EXCEPT ![c] = mode[i]] /\ Goto(c, "visit")
    BY DEF Child, fs, worker
  <1>2. Typed /\ Given /\ Entries /\ CallOK(c) BY DEF IInv
  <1>3. s \in Seq(Frames) BY <1>2 DEF Typed
  <1> HIDE DEF s
  <1>4. /\ Front(s) \in Seq(Frames) /\ top \in Frames /\ Len(s) \in Nat \ {0} /\ Len(Front(s)) = Len(s) - 1
        /\ \A k \in 1..Len(s) - 1 : Front(s)[k] = s[k]
    BY <1>1, <1>3, FrontLast
  <1>5. top = s[Len(s)] BY DEF Last
  <1> HIDE DEF top
  <1>6. e \in Frames /\ e.dir = top.dir
    <2>1. top.names \in Seq(STRING) /\ top.names # <<>> BY <1>1, <1>4
    <2>2. Tail(top.names) \in Seq(STRING) BY <2>1, HeadTailProperties
    <2> QED BY <1>4, <2>2
  <1> HIDE DEF e, Frames
  <1>7. /\ t \in Seq(Frames) /\ Len(t) = Len(s) /\ \A k \in 1..Len(s) - 1 : t[k] = s[k]
        /\ t[Len(s)] = e
    BY <1>4, <1>6, AppendProperties
  <1> HIDE DEF t
  <1>8. \A k \in 1..Len(s) : t[k].dir = s[k].dir BY <1>4, <1>5, <1>6, <1>7
  <1>9. i \in Inodes \cup {None} BY <1>2, LookatType
  <1>10. noFollow[c] => ~CoversRoot(scn.grants) /\ \A k \in 1..Len(s) : s[k].dir \in Safe(scn.grants)
    BY <1>2 DEF CallOK, OnTheWay, s
  <1>11. noFollow[c] => top.dir \in Safe(scn.grants) BY <1>4, <1>5, <1>10
  <1>12. noFollow[c] /\ i # None /\ i \notin Links => i \in Safe(scn.grants)
    BY <1>2, <1>10, <1>11, ChildSafe
  <1> HIDE DEF i
  <1>13. Typed'
    <2>1. stack' \in [Calls -> Seq(Frames)] BY <1>1, <1>2, <1>7 DEF Typed, Frames
    <2>2. held' \in [Calls -> Inodes \cup {None}] /\ smode' \in [Calls -> SUBSET Bits] BY <1>1, <1>2, <1>9 DEF Typed
    <2>3. pc' \in [Calls -> Places] BY <1>1, <1>2 DEF Typed, Goto, Places
    <2> QED BY <1>1, <1>2, <2>1, <2>2, <2>3 DEF Typed, Frames
  <1>14. Entries' /\ Req(c)' = Req(c) BY <1>1, <1>2 DEF Entries, Req
  <1>15. \A x \in Calls \ {c} : Same(x) BY <1>1, <1>2 DEF Typed, Same, Goto
  <1>16. /\ stack'[c] = t /\ touched'[c] = touched[c] /\ noFollow'[c] = noFollow[c]
         /\ pc'[c] = "walk" \/ (pc'[c] = "visit" /\ held'[c] = i /\ i # None /\ i \notin Links)
    BY <1>1, <1>2 DEF Goto, Typed
  <1>17. Phase(c)' BY <1>1, <1>2, <1>9, <1>14, <1>16 DEF Phase, CallOK, Looking, Holding
  <1>18. OnTheWay(c)' BY <1>1, <1>7, <1>8, <1>10, <1>12, <1>16 DEF OnTheWay, Looking, Holding
  <1>19. Inside(c)' BY <1>1, <1>2, <1>14, <1>16 DEF Inside, Above, CallOK, Looking
  <1> QED BY <1>1, <1>13, <1>14, <1>15, <1>17, <1>18, <1>19 DEF Kept, CallOK

\* A directory is finished.
LEMMA LeaveInv ==
    ASSUME IInv, NEW c \in Calls, Leave(c)
    PROVE  Kept(c)
  <1> DEFINE Frames == [dir : Inodes, names : Seq(STRING)]
             s == stack[c]
             where == IF Len(s) = 1 THEN "done" ELSE "walk"
  <1>1. /\ pc[c] = "walk" /\ s # <<>>
        /\ UNCHANGED <<scn, ent, mode, root, noFollow, at, rest, held, smode, touched>>
        /\ stack' = [stack EXCEPT ![c] = Front(s)] /\ Goto(c, where)
    BY DEF Leave, fs, worker, walk
  <1>2. Typed /\ Given /\ Entries /\ CallOK(c) BY DEF IInv
  <1>3. s \in Seq(Frames) BY <1>2 DEF Typed
  <1>4. noFollow[c] => ~CoversRoot(scn.grants) /\ \A k \in 1..Len(s) : s[k].dir \in Safe(scn.grants)
    BY <1>2 DEF CallOK, OnTheWay
  <1>5. where \in {"done", "walk"} OBVIOUS
  <1> HIDE DEF s, where, Frames
  <1>6. /\ Front(s) \in Seq(Frames) /\ Len(s) \in Nat \ {0} /\ Len(Front(s)) = Len(s) - 1
        /\ \A k \in 1..Len(s) - 1 : Front(s)[k] = s[k]
    BY <1>1, <1>3, FrontLast
  <1>7. Typed'
    <2>1. stack' \in [Calls -> Seq(Frames)] BY <1>1, <1>2, <1>6 DEF Typed, Frames
    <2>2. pc' \in [Calls -> Places] BY <1>1, <1>2, <1>5 DEF Typed, Goto, Places
    <2> QED BY <1>1, <1>2, <2>1, <2>2 DEF Typed, Frames
  <1>8. Entries' /\ Req(c)' = Req(c) BY <1>1, <1>2 DEF Entries, Req
  <1>9. \A x \in Calls \ {c} : Same(x) BY <1>1, <1>2 DEF Typed, Same, Goto
  <1>10. stack'[c] = Front(s) /\ pc'[c] \in {"done", "walk"} BY <1>1, <1>2, <1>5 DEF Goto, Typed
  <1>11. Phase(c)' BY <1>1, <1>2, <1>8, <1>10 DEF Phase, CallOK, Looking, Holding
  <1>12. OnTheWay(c)'
    <2>1. noFollow[c] => \A k \in 1..Len(Front(s)) : Front(s)[k].dir \in Safe(scn.grants) BY <1>4, <1>6
    <2> QED BY <1>1, <1>4, <1>10, <2>1 DEF OnTheWay, Looking, Holding
  <1>13. Inside(c)' BY <1>1, <1>2, <1>8, <1>10 DEF Inside, Above, CallOK, Looking
  <1> QED BY <1>1, <1>7, <1>8, <1>9, <1>11, <1>12, <1>13 DEF Kept, CallOK

\* Every step keeps the invariant.
LEMMA StepInv == IInv /\ [Next]_vars => IInv'
  <1> SUFFICES ASSUME IInv, [Next]_vars PROVE IInv' OBVIOUS
  <1>1. CASE Swap BY <1>1, SwapInv
  <1>2. ASSUME NEW c \in Calls,
               \/ Check(c) \/ Openat(c) \/ Opened(c) \/ Mkdirat(c) \/ Creat(c)
               \/ Describe(c) \/ ReadDir(c) \/ Dots(c) \/ Lstat(c) \/ Usage(c)
               \/ UpdateRead(c) \/ UpdateTruncate(c) \/ UpdateWrite(c)
               \/ Visit(c) \/ Child(c) \/ Leave(c)
        PROVE IInv'
    <2>1. CASE Check(c) \/ Openat(c) \/ Opened(c) \/ Mkdirat(c) \/ Creat(c)
      BY <2>1, CheckInv, OpenatInv, OpenedInv, MkdiratInv, CreatInv, KeptInv
    <2>2. CASE Describe(c) \/ ReadDir(c) \/ Dots(c) \/ Lstat(c) \/ Usage(c)
      BY <2>2, DescribeInv, ReadDirInv, DotsInv, LstatInv, UsageInv, KeptInv
    <2>3. CASE UpdateRead(c) \/ UpdateTruncate(c) \/ UpdateWrite(c) BY <2>3, UpdateInv, KeptInv
    <2>4. CASE Visit(c) \/ Child(c) \/ Leave(c) BY <2>4, VisitInv, ChildInv, LeaveInv, KeptInv
    <2> QED BY <1>2, <2>1, <2>2, <2>3, <2>4
  <1>3. CASE UNCHANGED vars
    <2>1. /\ UNCHANGED <<scn, ent, mode, root, noFollow, at, rest, held, smode, stack, touched, pc>>
      BY <1>3 DEF vars
    <2>2. Typed' /\ Given' /\ Entries' BY <2>1 DEF IInv, Typed, Given, Entries
    <2>3. \A x \in Calls : Same(x) BY <2>1 DEF Same
    <2>4. \A x \in Calls : CallOK(x)' BY <2>1, <2>3, Frame DEF IInv
    <2> QED BY <2>2, <2>4 DEF IInv
  <1> QED BY <1>1, <1>2, <1>3 DEF Next

\* The inductive invariant holds throughout: types, entries that lead nowhere new
\* but through links, and calls that are on the way to what is granted.
THEOREM FilesInvariant == Spec => []IInv
  <1>1. Init => IInv BY InitInv
  <1>2. IInv /\ [Next]_vars => IInv' BY StepInv
  <1> QED BY <1>1, <1>2, PTL DEF Spec

\* A call that runs as root under a paths: grant touches nothing outside the
\* granted directories, but that files/list with all describes the directory
\* above the one it lists, whatever trees, paths, grants and calls there are and
\* whatever other users do to the directories they own.
THEOREM NoFollowStaysInside == Spec => []StaysInside
  <1>1. IInv => StaysInside BY DEF IInv, CallOK, Inside, Above, StaysInside
  <1> QED BY <1>1, FilesInvariant, PTL

-----------------------------------------------------------------------------
(* chmod and the setgid bit of a directory                                 *)

\* A directory with a setgid bit that chmod has just seen keeps it, unless the
\* mode asked for says that it goes.
LEMMA StepSetgid == IInv /\ SharedDirsKeepSetgid /\ [Next]_vars => SharedDirsKeepSetgid'
  <1> SUFFICES ASSUME IInv, SharedDirsKeepSetgid, [Next]_vars PROVE SharedDirsKeepSetgid' OBVIOUS
  <1>1. UNCHANGED drops \/ \E c \in Calls : Visit(c)
    <2>1. ASSUME NEW c \in Calls,
                 \/ Check(c) \/ Openat(c) \/ Opened(c) \/ Mkdirat(c) \/ Creat(c)
                 \/ Describe(c) \/ ReadDir(c) \/ Dots(c) \/ Lstat(c) \/ Usage(c)
                 \/ UpdateRead(c) \/ UpdateTruncate(c) \/ UpdateWrite(c) \/ Child(c) \/ Leave(c)
          PROVE  UNCHANGED drops
      <3>1. Check(c) => UNCHANGED drops BY DEF Check, history
      <3>2. Openat(c) => UNCHANGED drops BY DEF Openat, history
      <3>3. Opened(c) \/ Mkdirat(c) => UNCHANGED drops BY DEF Opened, Mkdirat, history
      <3>4. Creat(c) => UNCHANGED drops BY DEF Creat
      <3>5. Describe(c) => UNCHANGED drops BY DEF Describe, history
      <3>6. ReadDir(c) \/ Dots(c) \/ Lstat(c) \/ Usage(c) => UNCHANGED drops
        BY DEF ReadDir, Dots, Lstat, Usage, history
      <3>7. UpdateRead(c) \/ UpdateTruncate(c) \/ UpdateWrite(c) => UNCHANGED drops
        BY DEF UpdateRead, UpdateTruncate, UpdateWrite, history
      <3>8. Child(c) \/ Leave(c) => UNCHANGED drops BY DEF Child, Leave, history
      <3> QED BY <2>1, <3>1, <3>2, <3>3, <3>4, <3>5, <3>6, <3>7, <3>8
    <2>2. Swap \/ UNCHANGED vars => UNCHANGED drops BY DEF Swap, vars, history
    <2> QED BY <2>1, <2>2 DEF Next
  <1>2. CASE UNCHANGED drops BY <1>2 DEF SharedDirsKeepSetgid
  <1>3. ASSUME NEW c \in Calls, Visit(c) PROVE SharedDirsKeepSetgid'
    <2> DEFINE i == held[c]
               spec == Req(c).spec
               new == ApplyMode(spec, smode[c], i \in Dirs)
               lost == Req(c).op = "chmod" /\ i \in Dirs /\ "setgid" \in mode[i] \ mode'[i] /\ ~DropsSetgid(spec)
    <2>1. drops' = IF lost THEN drops \cup {[call |-> c, fresh |-> mode[i] = smode[c]]} ELSE drops
      BY <1>3 DEF Visit, Change
    <2>2. Req(c).op = "chmod" => mode' = mode \/ mode' = [mode EXCEPT ![i] = new]
      BY <1>3 DEF Visit, Change
    <2>3. Typed BY DEF IInv
    <2>4. spec \in ModeSpec BY <2>3, ReqType
    <2>5. smode[c] \in SUBSET Bits /\ mode \in [Inodes -> SUBSET Bits] BY <2>3 DEF Typed
    <2>6. (i \in Dirs) \in BOOLEAN OBVIOUS
    <2>7. i \in Dirs /\ "setgid" \in smode[c] /\ ~DropsSetgid(spec) => "setgid" \in new
      BY <2>4, <2>5, <2>6, ModeKeeps
    <2>8. i \in Dirs => i \in Inodes BY DEF Inodes
    <2> HIDE DEF new, spec, i
    <2>9. lost => mode[i] # smode[c]
      <3> SUFFICES ASSUME lost, mode[i] = smode[c] PROVE FALSE OBVIOUS
      <3>1. "setgid" \in new BY <2>7
      <3>2. mode'[i] = mode[i] \/ mode'[i] = new BY <2>2, <2>5, <2>8
      <3> QED BY <3>1, <3>2
    <2> HIDE DEF lost
    <2> DEFINE x == [call |-> c, fresh |-> mode[i] = smode[c]]
    <2>10. lost => ~x.fresh BY <2>9
    <2> HIDE DEF x
    <2> QED BY <2>1, <2>10 DEF SharedDirsKeepSetgid, x
  <1> QED BY <1>1, <1>2, <1>3

\* No chmod, octal or symbolic, costs a directory a setgid bit that it has seen
\* and was not told to take.
THEOREM ChmodKeepsSetgid == Spec => []SharedDirsKeepSetgid
  <1>1. Init => SharedDirsKeepSetgid BY DEF Init, SharedDirsKeepSetgid
  <1> QED BY <1>1, StepSetgid, FilesInvariant, PTL DEF Spec

-----------------------------------------------------------------------------
(* Lines                                                                   *)

\* Induction over sequences, for a property given as a set.
LEMMA SeqSetInduction ==
    ASSUME NEW S, NEW T, <<>> \in T, \A s \in Seq(S), x \in S : s \in T => Append(s, x) \in T
    PROVE  Seq(S) \subseteq T
  <1> DEFINE U == {n \in Nat : \A s \in Seq(S) : Len(s) = n => s \in T}
  <1>1. 0 \in U BY EmptySeq
  <1>2. ASSUME NEW n \in Nat, n \in U PROVE n + 1 \in U
    <2> SUFFICES ASSUME NEW s \in Seq(S), Len(s) = n + 1 PROVE s \in T OBVIOUS
    <2>1. s # <<>> BY EmptySeq
    <2>2. PICK u \in Seq(S), x \in S : s = Append(u, x) BY <2>1, SequenceEmptyOrAppend
    <2>3. Len(u) = n BY <2>2, AppendProperties, LenProperties
    <2>4. u \in T BY <1>2, <2>3
    <2> QED BY <2>2, <2>4
  <1>3. Nat \subseteq U BY <1>1, <1>2, NatSetInduction
  <1> QED BY <1>3, LenProperties

\* Front and Last undo Append.
LEMMA FrontAppend ==
    ASSUME NEW S, NEW s \in Seq(S), NEW x \in S
    PROVE  Front(Append(s, x)) = s /\ Last(Append(s, x)) = x
  <1> DEFINE t == Append(s, x)
  <1>1. t \in Seq(S) /\ t # <<>> BY AppendProperties
  <1>2. Front(t) \in Seq(S) /\ Last(t) \in S /\ Append(Front(t), Last(t)) = t BY <1>1, FrontLast
  <1> QED BY <1>2, AppendInjective

\* A text without a newline.
Line == Seq(Chars \ {"n"})

\* Extend on the last line of many is Extend on that line.
LEMMA ExtendLast ==
    ASSUME NEW ls \in Seq(Seq(Chars)), NEW l \in Seq(Chars), NEW ch \in Chars
    PROVE  Extend(Append(ls, l), ch) =
             IF ch = "n" THEN Append(Append(ls, l), <<>>) ELSE Append(ls, Append(l, ch))
  BY FrontAppend DEF Extend

\* Split is never empty and has no newline in any line.
LEMMA ExtendType ==
    ASSUME NEW ls \in Seq(Line) \ {<<>>}, NEW ch \in Chars
    PROVE  Extend(ls, ch) \in Seq(Line) \ {<<>>}
  <1>1. PICK u \in Seq(Line), l \in Line : ls = Append(u, l) BY SequenceEmptyOrAppend
  <1>2. Front(ls) = u /\ Last(ls) = l BY <1>1, FrontAppend
  <1>3. CASE ch = "n"
    <2>1. <<>> \in Line BY EmptySeq DEF Line
    <2> QED BY <1>3, <2>1, AppendProperties DEF Extend
  <1>4. CASE ch # "n"
    <2>1. Append(l, ch) \in Line BY <1>4, AppendProperties DEF Line
    <2> QED BY <1>2, <1>4, <2>1, AppendProperties DEF Extend
  <1> QED BY <1>3, <1>4

\* Split as a function of the prefixes of a text.
LEMMA SplitFunction ==
    ASSUME NEW s \in Seq(Chars)
    PROVE  \E g : /\ Split(s) = g[Len(s)] /\ g[0] = << <<>> >>
                  /\ \A k \in 1..Len(s) : g[k] = Extend(g[k - 1], s[k])
                  /\ \A k \in 0..Len(s) : g[k] \in Seq(Line) \ {<<>>}
  <1> DEFINE n == Len(s)
             V == Seq(Line) \ {<<>>}
             base == << <<>> >>
             step == [k \in 1..n |-> [v \in V |-> Extend(v, s[k])]]
             g == CHOOSE upto : upto = [k \in 0..n |-> IF k = 0 THEN base ELSE Extend(upto[k - 1], s[k])]
  <1>1. n \in Nat /\ \A k \in 1..n : s[k] \in Chars BY LenProperties
  <1>2. \A v \in V, k \in 1..n : Extend(v, s[k]) \in V BY <1>1, ExtendType
  <1>3. step \in [1..n -> [V -> V]] BY <1>2
  <1>4. base \in V
    <2>1. <<>> \in Line BY EmptySeq DEF Line
    <2> QED BY <2>1
  <1>5. Split(s) = g[n] BY DEF Split
  <1> HIDE DEF step, n, V, base
  <1>6. PICK f \in [0..n -> V] : Follows(f, n, base, step) BY <1>1, <1>3, <1>4, RecursionExists
  <1>7. \A k \in 1..n : k - 1 \in 0..n /\ f[k - 1] \in V BY <1>1
  <1>8. \A k \in 1..n : f[k] = Extend(f[k - 1], s[k]) BY <1>6, <1>7 DEF Follows, step
  <1>9. f = [k \in 0..n |-> IF k = 0 THEN base ELSE Extend(f[k - 1], s[k])]
    <2>1. \A k \in 0..n : f[k] = IF k = 0 THEN base ELSE Extend(f[k - 1], s[k])
      BY <1>1, <1>6, <1>8 DEF Follows
    <2> QED BY <2>1
  <1>10. g = [k \in 0..n |-> IF k = 0 THEN base ELSE Extend(g[k - 1], s[k])] BY <1>9
  <1> HIDE DEF g
  <1>11. g[0] = base /\ \A k \in 1..n : g[k] = Extend(g[k - 1], s[k])
    <2>1. \A k \in 0..n : g[k] = IF k = 0 THEN base ELSE Extend(g[k - 1], s[k]) BY <1>10
    <2> QED BY <1>1, <2>1
  <1>12. \A k \in 1..n : g[k - 1] \in V => g[k] \in V BY <1>1, <1>2, <1>11
  <1>13. g[0] \in V BY <1>4, <1>11
  <1>14. \A k \in 0..n : g[k] \in V BY <1>1, <1>12, <1>13, RecursionStays
  <1> QED BY <1>5, <1>11, <1>14 DEF n, V, base

\* What Split computes: one line to begin with, then one character more.
LEMMA SplitSteps ==
    /\ Split(<<>>) = << <<>> >>
    /\ \A s \in Seq(Chars) : Split(s) \in Seq(Line) \ {<<>>}
    /\ \A s \in Seq(Chars), ch \in Chars : Split(Append(s, ch)) = Extend(Split(s), ch)
  <1>1. ASSUME NEW s \in Seq(Chars) PROVE Split(s) \in Seq(Line) \ {<<>>}
    BY SplitFunction, LenProperties
  <1>2. Split(<<>>) = << <<>> >>
    <2>1. <<>> \in Seq(Chars) /\ Len(<<>>) = 0 BY EmptySeq
    <2> QED BY <2>1, SplitFunction
  <1>3. ASSUME NEW s \in Seq(Chars), NEW ch \in Chars PROVE Split(Append(s, ch)) = Extend(Split(s), ch)
    <2> DEFINE t == Append(s, ch)
               n == Len(s)
    <2>1. /\ t \in Seq(Chars) /\ Len(t) = n + 1 /\ n \in Nat /\ t[n + 1] = ch
          /\ \A k \in 1..n : t[k] = s[k]
      BY AppendProperties, LenProperties
    <2>2. PICK g : /\ Split(s) = g[n] /\ g[0] = << <<>> >>
                   /\ \A k \in 1..n : g[k] = Extend(g[k - 1], s[k])
      BY SplitFunction
    <2> HIDE DEF t
    <2>3. PICK h : /\ Split(t) = h[Len(t)] /\ h[0] = << <<>> >>
                   /\ \A k \in 1..Len(t) : h[k] = Extend(h[k - 1], t[k])
      BY <2>1, SplitFunction
    <2>4. Split(t) = h[n + 1] /\ \A k \in 1..n + 1 : h[k] = Extend(h[k - 1], t[k]) BY <2>1, <2>3
    <2>5. g[0] = h[0] BY <2>2, <2>3
    <2>6. n \in Nat BY <2>1
    <2> HIDE DEF n
    <2>7. \A k \in 1..n : g[k - 1] = h[k - 1] => g[k] = h[k] BY <2>1, <2>2, <2>4
    <2>8. \A k \in 0..n : g[k] = h[k] BY <2>5, <2>6, <2>7, RecursionUnique
    <2>9. g[n] = h[n] BY <2>6, <2>8
    <2>10. h[n + 1] = Extend(h[n], ch)
      <3>1. n + 1 \in 1..n + 1 /\ (n + 1) - 1 = n BY <2>6
      <3> QED BY <2>1, <2>4, <3>1
    <2> QED BY <2>2, <2>4, <2>9, <2>10 DEF t
  <1> QED BY <1>1, <1>2, <1>3

\* Appending to the second of two sequences appends to both.
LEMMA ConcatAppend ==
    ASSUME NEW S, NEW s \in Seq(S), NEW t \in Seq(S), NEW x \in S
    PROVE  s \o Append(t, x) = Append(s \o t, x) /\ s \o t \in Seq(S)
  <1> DEFINE u == <<x>>
  <1>1. u \in Seq(S) /\ s \o t \in Seq(S) BY ConcatProperties
  <1>2. Append(t, x) = t \o u /\ Append(s \o t, x) = (s \o t) \o u BY <1>1, AppendIsConcat
  <1> HIDE DEF u
  <1>3. (s \o t) \o u = s \o (t \o u) BY <1>1, ConcatAssociative
  <1> QED BY <1>1, <1>2, <1>3

\* A line is a text, and lines are texts.
LEMMA LineType ==
    /\ Line \subseteq Seq(Chars) /\ Seq(Line) \subseteq Seq(Seq(Chars)) /\ <<>> \in Line
    /\ \A s \in Seq(Chars) : Split(s) \in Seq(Seq(Chars))
  <1>1. Line \subseteq Seq(Chars) BY SeqMonotonic DEF Line
  <1>2. Seq(Line) \subseteq Seq(Seq(Chars)) BY <1>1, SeqMonotonic
  <1>3. <<>> \in Line BY EmptySeq DEF Line
  <1> QED BY <1>1, <1>2, <1>3, SplitSteps

\* A newline separates: what is before it is split as if it were alone.
LEMMA SplitConcat ==
    ASSUME NEW a \in Seq(Chars), NEW b \in Seq(Chars)
    PROVE  Split(a \o <<"n">> \o b) = Split(a) \o Split(b)
  <1> DEFINE T == {x \in Seq(Chars) : Split(a \o <<"n">> \o x) = Split(a) \o Split(x)}
             V == Seq(Chars)
             an == a \o <<"n">>
  <1>1. an \in V /\ an = Append(a, "n") BY TreeAssumption, AppendIsConcat, AppendProperties
  <1>2. Split(a) \in Seq(V) /\ Split(a) # <<>> BY SplitSteps, LineType
  <1>3. <<>> \in V BY EmptySeq
  <1>4. <<>> \in T
    <2>1. an \o <<>> = an BY <1>1, ConcatEmptySeq
    <2>2. Split(an) = Append(Split(a), <<>>) BY <1>1, SplitSteps, TreeAssumption DEF Extend
    <2>3. Append(Split(a), <<>>) = Split(a) \o << <<>> >> BY <1>2, <1>3, AppendIsConcat
    <2> QED BY <1>3, <2>1, <2>2, <2>3, SplitSteps
  <1>5. ASSUME NEW x \in V, NEW ch \in Chars, x \in T PROVE Append(x, ch) \in T
    <2>1. Append(x, ch) \in V BY AppendProperties
    <2>2. an \o Append(x, ch) = Append(an \o x, ch) /\ an \o x \in V
      BY <1>1, ConcatAppend
    <2>3. Split(an \o Append(x, ch)) = Extend(Split(a) \o Split(x), ch) BY <1>5, <2>2, SplitSteps
    <2>4. Split(x) \in Seq(V) /\ Split(x) # <<>> BY SplitSteps, LineType
    <2>5. PICK ls \in Seq(V), l \in V : Split(x) = Append(ls, l) BY <2>4, SequenceEmptyOrAppend
    <2>6. Split(a) \o ls \in Seq(V) BY <1>2, ConcatProperties
    <2>7. \A y \in V : Split(a) \o Append(ls, y) = Append(Split(a) \o ls, y)
      <3> DEFINE sa == Split(a)
      <3>1. sa \in Seq(V) BY <1>2
      <3> HIDE DEF V, sa
      <3>2. \A y \in V : sa \o Append(ls, y) = Append(sa \o ls, y) BY <3>1, ConcatAppend
      <3> QED BY <3>2 DEF sa
    <2>8. Extend(Split(a) \o Split(x), ch) = Split(a) \o Extend(Split(x), ch)
      <3>1. Split(a) \o Split(x) = Append(Split(a) \o ls, l) BY <2>5, <2>7
      <3>2. CASE ch = "n"
        <4> DEFINE m == Append(ls, l)
        <4>1. Extend(Append(Split(a) \o ls, l), ch) = Append(Append(Split(a) \o ls, l), <<>>)
          BY <2>6, <3>2, ExtendLast
        <4>2. Extend(Split(x), ch) = Append(m, <<>>) BY <2>5, <3>2, ExtendLast
        <4>3. m \in Seq(V) /\ <<>> \in V /\ << <<>> >> \in Seq(V) BY <1>3, AppendProperties
        <4>4. Split(a) \o Append(m, <<>>) = Append(Split(a) \o m, <<>>)
          BY <1>2, <4>3, ConcatAppend
        <4> QED BY <2>7, <3>1, <4>1, <4>2, <4>4
      <3>3. CASE ch # "n"
        <4>1. Append(l, ch) \in V BY AppendProperties
        <4>2. Extend(Append(Split(a) \o ls, l), ch) = Append(Split(a) \o ls, Append(l, ch)) BY <2>6, <3>3, ExtendLast
        <4>3. Extend(Split(x), ch) = Append(ls, Append(l, ch)) BY <2>5, <3>3, ExtendLast
        <4> QED BY <2>7, <3>1, <4>1, <4>2, <4>3
      <3> QED BY <3>2, <3>3
    <2>9. Split(Append(x, ch)) = Extend(Split(x), ch) BY SplitSteps
    <2> QED BY <2>1, <2>3, <2>8, <2>9
  <1> HIDE DEF T, V
  <1>6. V \subseteq T BY <1>4, <1>5, SeqSetInduction DEF V
  <1> QED BY <1>6 DEF T, V

\* A text without a newline is one line.
LEMMA SplitLine ==
    ASSUME NEW l \in Line
    PROVE  Split(l) = <<l>>
  <1> DEFINE T == {x \in Line : Split(x) = <<x>>}
  <1>1. <<>> \in T BY SplitSteps, LineType
  <1>2. ASSUME NEW x \in Seq(Chars \ {"n"}), NEW ch \in Chars \ {"n"}, x \in T PROVE Append(x, ch) \in T
    <2>1. Append(x, ch) \in Line /\ x \in Seq(Chars) BY AppendProperties, LineType DEF Line
    <2>2. Split(Append(x, ch)) = Extend(<<x>>, ch) BY <1>2, <2>1, SplitSteps
    <2>3. <<>> \in Seq(Seq(Chars)) /\ Append(<<>>, x) = <<x>> /\ Append(<<>>, Append(x, ch)) = <<Append(x, ch)>>
      BY EmptySeq
    <2>4. Extend(Append(<<>>, x), ch) = Append(<<>>, Append(x, ch)) BY <2>1, <2>3, ExtendLast
    <2> QED BY <2>1, <2>2, <2>3, <2>4
  <1> HIDE DEF T
  <1>3. Line \subseteq T BY <1>1, <1>2, SeqSetInduction DEF Line
  <1> QED BY <1>3 DEF T

\* Join as a function of the number of pieces.
LEMMA JoinFunction ==
    ASSUME NEW ls \in Seq(Seq(Chars)), ls # <<>>
    PROVE  \E g : /\ Join(ls) = g[Len(ls) - 1] /\ g[0] = ls[1]
                  /\ \A k \in 1..Len(ls) - 1 : g[k] = g[k - 1] \o <<"n">> \o ls[k + 1]
                  /\ \A k \in 0..Len(ls) - 1 : g[k] \in Seq(Chars)
  <1> DEFINE n == Len(ls) - 1
             V == Seq(Chars)
             nl == <<"n">>
             E(v, k) == v \o nl \o ls[k + 1]
             base == ls[1]
             step == [k \in 1..n |-> [v \in V |-> E(v, k)]]
             g == CHOOSE upto : upto = [k \in 0..n |-> IF k = 0 THEN base ELSE upto[k - 1] \o nl \o ls[k + 1]]
  <1>1. n \in Nat /\ base \in V /\ \A k \in 1..n : ls[k + 1] \in V
    <2>1. Len(ls) \in Nat \ {0} /\ \A k \in 1..Len(ls) : ls[k] \in V BY EmptySeq, ElementOfSeq
    <2>2. 1 \in 1..Len(ls) /\ \A k \in 1..n : k + 1 \in 1..Len(ls) BY <2>1
    <2>3. n \in Nat BY <2>1
    <2> QED BY <2>1, <2>2, <2>3
  <1>2. Join(ls) = g[n] BY DEF Join
  <1>3. nl \in V BY TreeAssumption
  <1> HIDE DEF V, nl
  <1>4. \A v \in V, k \in 1..n : E(v, k) \in V BY <1>1, <1>3, ConcatProperties DEF V
  <1> HIDE DEF E
  <1>5. step \in [1..n -> [V -> V]] BY <1>4
  <1> HIDE DEF step, n, base
  <1>6. PICK f \in [0..n -> V] : Follows(f, n, base, step) BY <1>1, <1>5, RecursionExists
  <1>7. \A k \in 1..n : k - 1 \in 0..n /\ f[k - 1] \in V BY <1>1
  <1>8. \A k \in 1..n : f[k] = E(f[k - 1], k) BY <1>6, <1>7 DEF Follows, step
  <1>9. f = [k \in 0..n |-> IF k = 0 THEN base ELSE E(f[k - 1], k)]
    <2>1. \A k \in 0..n : f[k] = IF k = 0 THEN base ELSE E(f[k - 1], k) BY <1>1, <1>6, <1>8 DEF Follows
    <2> QED BY <2>1
  <1>10. g = [k \in 0..n |-> IF k = 0 THEN base ELSE E(g[k - 1], k)] BY <1>9 DEF E
  <1> HIDE DEF g
  <1>11. g[0] = base /\ \A k \in 1..n : g[k] = E(g[k - 1], k)
    <2>1. \A k \in 0..n : g[k] = IF k = 0 THEN base ELSE E(g[k - 1], k) BY <1>10
    <2> QED BY <1>1, <2>1
  <1>12. \A k \in 1..n : g[k - 1] \in V => g[k] \in V BY <1>1, <1>4, <1>11
  <1>13. g[0] \in V BY <1>1, <1>11
  <1>14. \A k \in 0..n : g[k] \in V BY <1>1, <1>12, <1>13, RecursionStays
  <1> QED BY <1>2, <1>11, <1>14 DEF n, V, base, E, nl

\* What Join computes: one piece alone, then a newline and one piece more.
LEMMA JoinSteps ==
    /\ \A ls \in Seq(Seq(Chars)) \ {<<>>} : Join(ls) \in Seq(Chars)
    /\ \A l \in Seq(Chars) : Join(Append(<<>>, l)) = l
    /\ \A ls \in Seq(Seq(Chars)) \ {<<>>}, l \in Seq(Chars) :
         Join(Append(ls, l)) = Join(ls) \o <<"n">> \o l
  <1> DEFINE V == Seq(Chars)
  <1>1. ASSUME NEW ls \in Seq(V) \ {<<>>} PROVE Join(ls) \in V
    <2>1. Len(ls) \in Nat \ {0} BY EmptySeq
    <2>2. Len(ls) - 1 \in 0..Len(ls) - 1 BY <2>1
    <2> QED BY <2>2, JoinFunction
  <1>2. ASSUME NEW l \in V PROVE Join(Append(<<>>, l)) = l
    <2> DEFINE t == Append(<<>>, l)
    <2>1. t \in Seq(V) /\ t # <<>> /\ Len(t) - 1 = 0 /\ t[1] = l OBVIOUS
    <2> HIDE DEF t
    <2> QED BY <2>1, JoinFunction DEF t
  <1>3. ASSUME NEW ls \in Seq(V) \ {<<>>}, NEW l \in V PROVE Join(Append(ls, l)) = Join(ls) \o <<"n">> \o l
    <2> DEFINE t == Append(ls, l)
               n == Len(ls)
    <2>1. /\ t \in Seq(V) /\ t # <<>> /\ Len(t) = n + 1 /\ n \in Nat \ {0} /\ t[n + 1] = l
          /\ \A k \in 1..n : t[k] = ls[k]
      BY AppendProperties, EmptySeq
    <2>2. PICK g : /\ Join(ls) = g[n - 1] /\ g[0] = ls[1]
                   /\ \A k \in 1..n - 1 : g[k] = g[k - 1] \o <<"n">> \o ls[k + 1]
      BY JoinFunction
    <2> HIDE DEF t
    <2>3. PICK h : /\ Join(t) = h[Len(t) - 1] /\ h[0] = t[1]
                   /\ \A k \in 1..Len(t) - 1 : h[k] = h[k - 1] \o <<"n">> \o t[k + 1]
      BY <2>1, JoinFunction
    <2> DEFINE nl == <<"n">>
    <2> HIDE DEF nl
    <2>4. n \in Nat \ {0} /\ Len(t) - 1 = n /\ n - 1 \in Nat BY <2>1
    <2>5. Join(t) = h[n] /\ \A k \in 1..n : h[k] = h[k - 1] \o nl \o t[k + 1] BY <2>3, <2>4 DEF nl
    <2>6. \A k \in 1..n - 1 : g[k] = g[k - 1] \o nl \o ls[k + 1] BY <2>2 DEF nl
    <2> HIDE DEF n
    <2>7. g[0] = h[0] BY <2>1, <2>2, <2>3, <2>4
    <2>8. \A k \in 1..n - 1 : k \in 1..n /\ k + 1 \in 1..n BY <2>4
    <2>9. \A k \in 1..n - 1 : g[k - 1] = h[k - 1] => g[k] = h[k]
      <3> SUFFICES ASSUME NEW k \in 1..n - 1, g[k - 1] = h[k - 1] PROVE g[k] = h[k] OBVIOUS
      <3>1. t[k + 1] = ls[k + 1] BY <2>1, <2>8
      <3> QED BY <2>5, <2>6, <2>8, <3>1
    <2>10. \A k \in 0..n - 1 : g[k] = h[k]
      <3> DEFINE m == n - 1
      <3>1. m \in Nat BY <2>4
      <3>2. \A k \in 1..m : g[k - 1] = h[k - 1] => g[k] = h[k] BY <2>9
      <3> HIDE DEF m
      <3>3. \A k \in 0..m : g[k] = h[k] BY <2>7, <3>1, <3>2, RecursionUnique, ZenonT(60)
      <3> QED BY <3>3 DEF m
    <2>11. g[n - 1] = h[n - 1] BY <2>4, <2>10
    <2>12. h[n] = h[n - 1] \o nl \o l
      <3>1. n \in 1..n BY <2>4
      <3> QED BY <2>1, <2>5, <3>1
    <2> QED BY <2>2, <2>5, <2>11, <2>12 DEF t, nl
  <1> QED BY <1>1, <1>2, <1>3

\* Lines that are joined and split are the same lines.
LEMMA SplitJoin ==
    ASSUME NEW ls \in Seq(Line), ls # <<>>
    PROVE  Split(Join(ls)) = ls
  <1> DEFINE T == {x \in Seq(Line) : x # <<>> => Split(Join(x)) = x}
  <1>1. <<>> \in T BY EmptySeq
  <1>2. ASSUME NEW x \in Seq(Line), NEW l \in Line, x \in T PROVE Append(x, l) \in T
    <2>1. Append(x, l) \in Seq(Line) BY AppendProperties
    <2>2. x \in Seq(Seq(Chars)) /\ l \in Seq(Chars) BY LineType
    <2>3. CASE x = <<>>
      <3>1. Join(Append(<<>>, l)) = l BY <2>2, JoinSteps
      <3>2. Split(l) = <<l>> BY SplitLine
      <3>3. Append(<<>>, l) = <<l>> OBVIOUS
      <3> QED BY <2>1, <2>3, <3>1, <3>2, <3>3
    <2>4. CASE x # <<>>
      <3>1. Join(x) \in Seq(Chars) /\ Join(Append(x, l)) = Join(x) \o <<"n">> \o l BY <2>2, <2>4, JoinSteps
      <3>2. Split(Join(Append(x, l))) = Split(Join(x)) \o Split(l) BY <2>2, <3>1, SplitConcat
      <3>3. Split(Join(x)) = x /\ Split(l) = <<l>> BY <1>2, <2>4, SplitLine
      <3>4. Append(x, l) = x \o <<l>> BY AppendIsConcat
      <3> QED BY <2>1, <3>2, <3>3, <3>4
    <2> QED BY <2>3, <2>4
  <1> HIDE DEF T
  <1>3. Seq(Line) \subseteq T BY <1>1, <1>2, SeqSetInduction
  <1> QED BY <1>3 DEF T

\* A final newline taken away, and what TrimNL gives otherwise.
LEMMA TrimSteps ==
    ASSUME NEW s \in Seq(Chars)
    PROVE  /\ TrimNL(s) \in Seq(Chars) /\ FileLines(s) \in Seq(Line)
           /\ Ends(s) => s = Append(TrimNL(s), "n")
           /\ ~Ends(s) => TrimNL(s) = s
           /\ Ends(Append(s, "n")) /\ TrimNL(Append(s, "n")) = s
           /\ Append(s, "n") \in Seq(Chars) /\ Append(s, "n") # <<>> /\ Append(s, "n") = s \o <<"n">>
  <1>1. "n" \in Chars BY TreeAssumption
  <1>2. Ends(s) => s # <<>> /\ Last(s) = "n" /\ TrimNL(s) = Front(s) BY DEF Ends, TrimNL
  <1>3. Ends(s) => Front(s) \in Seq(Chars) /\ s = Append(Front(s), "n") BY <1>2, FrontLast
  <1>4. ~Ends(s) => TrimNL(s) = s BY DEF TrimNL
  <1>5. /\ Append(s, "n") \in Seq(Chars) /\ Append(s, "n") # <<>>
        /\ Front(Append(s, "n")) = s /\ Last(Append(s, "n")) = "n"
    BY <1>1, AppendProperties, FrontAppend
  <1>6. Ends(Append(s, "n")) /\ TrimNL(Append(s, "n")) = s BY <1>5 DEF Ends, TrimNL
  <1>7. TrimNL(s) \in Seq(Chars) BY <1>2, <1>3, <1>4
  <1>8. FileLines(s) \in Seq(Line) BY <1>7, SplitSteps, EmptySeq DEF FileLines
  <1>9. Append(s, "n") = s \o <<"n">> BY <1>1, AppendIsConcat
  <1> QED BY <1>2, <1>3, <1>4, <1>5, <1>6, <1>7, <1>8, <1>9

\* The lines that are to be there, as UpdateKeepsRest has them.
Wanted(s, from, to, new) ==
    LET old == FileLines(s)
        upto == IF to > Len(old) THEN Len(old) ELSE to
    IN SubSeq(old, 1, IF from > Len(old) THEN Len(old) ELSE from - 1) \o Split(TrimNL(new))
         \o SubSeq(old, upto + 1, Len(old))

\* The pieces that files/update joins, and the lines these make.
Pieces(s, from, to, new) ==
    LET old == FileLines(s)
    IN IF from > Len(old) THEN Append(old, TrimNL(new)) ELSE Wanted(s, from, to, new)

\* Part of a sequence of lines is one.
LEMMA PartType ==
    ASSUME NEW S, NEW ls \in Seq(S), NEW m \in 1..Len(ls) + 1, NEW n \in 0..Len(ls)
    PROVE  SubSeq(ls, m, n) \in Seq(S)
  <1>1. Len(ls) \in Nat /\ \A i \in 1..Len(ls) : ls[i] \in S BY LenProperties, ElementOfSeq
  <1>2. m \in Int /\ n \in Int /\ \A i \in m..n : i \in 1..Len(ls) BY <1>1
  <1>3. \A i \in m..n : ls[i] \in S BY <1>1, <1>2
  <1> QED BY <1>2, <1>3, SubSeqProperties

\* Split of what is joined is what is wanted.
LEMMA PiecesSplit ==
    ASSUME NEW s \in Seq(Chars), NEW new \in Seq(Chars), NEW from \in Nat, NEW to \in Nat,
           from >= 1, to >= from
    PROVE  /\ Wanted(s, from, to, new) \in Seq(Line) \ {<<>>}
           /\ Join(Pieces(s, from, to, new)) \in Seq(Chars)
           /\ Split(Join(Pieces(s, from, to, new))) = Wanted(s, from, to, new)
  <1> DEFINE old == FileLines(s)
             n == Len(old)
             t == TrimNL(new)
             upto == IF to > n THEN n ELSE to
             before == SubSeq(old, 1, IF from > n THEN n ELSE from - 1)
             rem == SubSeq(old, upto + 1, n)
             want == before \o Split(t) \o rem
  <1>1. old \in Seq(Line) /\ t \in Seq(Chars) BY TrimSteps
  <1>2. Split(t) \in Seq(Line) /\ Split(t) # <<>> BY <1>1, SplitSteps
  <1>3. Wanted(s, from, to, new) = want BY DEF Wanted
  <1>4. Pieces(s, from, to, new) = IF from > n THEN Append(old, t) ELSE want BY <1>3 DEF Pieces
  <1> HIDE DEF old, t
  <1>5. n \in Nat BY <1>1, LenProperties
  <1>6. before \in Seq(Line) /\ rem \in Seq(Line)
    <2>1. /\ (IF from > n THEN n ELSE from - 1) \in 0..n /\ 1 \in 1..n + 1
          /\ upto + 1 \in 1..n + 1 /\ n \in 0..n
      BY <1>5
    <2> HIDE DEF upto
    <2> QED BY <1>1, <2>1, PartType
  <1> HIDE DEF before, rem
  <1>7. want \in Seq(Line) /\ want # <<>>
    <2> DEFINE mid == Split(t)
    <2> HIDE DEF mid
    <2>1. mid \in Seq(Line) /\ mid # <<>> BY <1>2 DEF mid
    <2>2. before \o mid \in Seq(Line) /\ Len(before \o mid) = Len(before) + Len(mid) BY <1>6, <2>1, ConcatProperties
    <2>3. Len(mid) \in Nat \ {0} /\ Len(before) \in Nat /\ Len(rem) \in Nat BY <1>6, <2>1, EmptySeq, LenProperties
    <2>4. (before \o mid) \o rem \in Seq(Line) /\ Len((before \o mid) \o rem) = Len(before \o mid) + Len(rem)
      BY <1>6, <2>2, ConcatProperties
    <2>5. (before \o mid) \o rem # <<>> BY <2>2, <2>3, <2>4, EmptySeq
    <2> QED BY <2>4, <2>5 DEF mid
  <1>8. CASE ~(from > n)
    <2> HIDE DEF want
    <2>1. Pieces(s, from, to, new) = want BY <1>4, <1>8
    <2>2. Split(Join(want)) = want BY <1>7, SplitJoin
    <2>3. Join(want) \in Seq(Chars) BY <1>7, LineType, JoinSteps
    <2> QED BY <1>3, <1>7, <2>1, <2>2, <2>3
  <1>9. CASE from > n
    <2>1. Pieces(s, from, to, new) = Append(old, t) BY <1>4, <1>9
    <2>2. want = old \o Split(t)
      <3>1. before = old
        <4>1. before = SubSeq(old, 1, Len(old)) BY <1>9 DEF before
        <4> QED BY <1>1, <4>1, SubSeqFull
      <3>2. rem = <<>>
        <4>1. upto = n BY <1>5, <1>9
        <4>2. rem = SubSeq(old, n + 1, n) BY <4>1 DEF rem
        <4>3. n + 1 \in Int /\ n \in Int /\ n + 1 > n BY <1>5
        <4> QED BY <1>1, <4>2, <4>3, SubSeqEmpty
      <3>3. old \o Split(t) \in Seq(Line) BY <1>1, <1>2, ConcatProperties
      <3> QED BY <3>1, <3>2, <3>3, ConcatEmptySeq
    <2> HIDE DEF want
    <2>3. old \in Seq(Seq(Chars)) BY <1>1, LineType
    <2>4. CASE old = <<>>
      <3>1. Join(Append(old, t)) = t BY <1>1, <2>4, JoinSteps
      <3>2. want = Split(t) BY <1>2, <2>2, <2>4, ConcatEmptySeq
      <3> QED BY <1>1, <1>3, <1>7, <2>1, <3>1, <3>2
    <2>5. CASE old # <<>>
      <3>1. Join(old) \in Seq(Chars) /\ Join(Append(old, t)) = Join(old) \o <<"n">> \o t
        BY <1>1, <2>3, <2>5, JoinSteps
      <3>2. Split(Join(Append(old, t))) = Split(Join(old)) \o Split(t) BY <1>1, <3>1, SplitConcat
      <3>3. Split(Join(old)) = old BY <1>1, <2>5, SplitJoin
      <3>4. Append(old, t) \in Seq(Seq(Chars)) /\ Append(old, t) # <<>> BY <1>1, <2>3, AppendProperties
      <3>5. Join(Append(old, t)) \in Seq(Chars) BY <3>4, JoinSteps
      <3> QED BY <1>3, <1>7, <2>1, <2>2, <3>2, <3>3, <3>5
    <2> QED BY <2>4, <2>5
  <1> QED BY <1>8, <1>9

\* files/update computes the text whose lines are those wanted.
LEMMA UpdatedKeeps ==
    ASSUME NEW s \in Seq(Chars), NEW new \in Seq(Chars), NEW from \in Nat, NEW to \in Nat,
           from >= 1, to >= from
    PROVE  LET want == Wanted(s, from, to, new)
               now == UpdatedText(s, from, to, new)
               got == FileLines(now)
           IN /\ now \in Seq(Chars)
              /\ got = want \/ (~Ends(s) /\ Last(want) = <<>> /\ got = Front(want))
              /\ Ends(s) \/ s = <<>> => Ends(now)
  <1> DEFINE want == Wanted(s, from, to, new)
             now == UpdatedText(s, from, to, new)
             got == FileLines(now)
             J == Join(Pieces(s, from, to, new))
  <1>1. now = IF Ends(s) \/ s = <<>> THEN J \o <<"n">> ELSE J
    <2> DEFINE old == FileLines(s)
               upto == IF to > Len(old) THEN Len(old) ELSE to
               out == IF from > Len(old) THEN Append(old, TrimNL(new))
                      ELSE SubSeq(old, 1, from - 1) \o Split(TrimNL(new)) \o SubSeq(old, upto + 1, Len(old))
    <2>1. now = IF Ends(s) \/ s = <<>> THEN Join(out) \o <<"n">> ELSE Join(out)
      BY DEF UpdatedText, FileLines
    <2> HIDE DEF old
    <2>2. Pieces(s, from, to, new) = out
      <3>1. CASE from > Len(old) BY <3>1 DEF Pieces, old
      <3>2. CASE ~(from > Len(old))
        <4>1. Pieces(s, from, to, new) = want BY <3>2 DEF Pieces, old
        <4>2. want = SubSeq(old, 1, from - 1) \o Split(TrimNL(new)) \o SubSeq(old, upto + 1, Len(old))
          BY <3>2 DEF Wanted, old
        <4> QED BY <3>2, <4>1, <4>2
      <3> QED BY <3>1, <3>2
    <2> HIDE DEF out
    <2> QED BY <2>1, <2>2
  <1>2. want \in Seq(Line) \ {<<>>} /\ J \in Seq(Chars) /\ Split(J) = want BY PiecesSplit
  <1> HIDE DEF want, now, J
  <1>3. CASE Ends(s) \/ s = <<>>
    <2>1. now = Append(J, "n") BY <1>1, <1>2, <1>3, TrimSteps
    <2>2. now \in Seq(Chars) /\ now # <<>> /\ Ends(now) /\ TrimNL(now) = J BY <1>2, <2>1, TrimSteps
    <2>3. got = want BY <1>2, <2>2 DEF FileLines
    <2> QED BY <2>2, <2>3 DEF want, now
  <1>4. CASE ~(Ends(s) \/ s = <<>>)
    <2>1. now = J BY <1>1, <1>4
    <2>2. CASE J = <<>>
      <3> DEFINE e == <<>>
                 V == Seq(Chars)
      <3>1. want = Append(<<>>, e) BY <1>2, <2>2, SplitSteps
      <3>2. got = <<>> BY <2>1, <2>2 DEF FileLines
      <3>3. e \in V /\ <<>> \in Seq(V) BY EmptySeq
      <3> HIDE DEF e, V
      <3>4. Front(want) = <<>> /\ Last(want) = e BY <3>1, <3>3, FrontAppend
      <3> QED BY <1>2, <1>4, <2>1, <3>2, <3>4 DEF want, now, e
    <2>3. CASE J # <<>> /\ ~Ends(J)
      <3>1. got = want BY <1>2, <2>1, <2>3 DEF FileLines, TrimNL
      <3> QED BY <1>2, <1>4, <2>1, <3>1 DEF want, now
    <2>4. CASE J # <<>> /\ Ends(J)
      <3> DEFINE K == TrimNL(J)
      <3>1. K \in Seq(Chars) /\ J = Append(K, "n") BY <1>2, <2>4, TrimSteps
      <3>2. got = Split(K) BY <2>1, <2>4 DEF FileLines
      <3> HIDE DEF K
      <3>3. want = Append(Split(K), <<>>) BY <1>2, <3>1, SplitSteps, TreeAssumption DEF Extend
      <3>4. Split(K) \in Seq(Line) /\ <<>> \in Line BY <3>1, SplitSteps, LineType
      <3>5. Front(want) = Split(K) /\ Last(want) = <<>> BY <3>3, <3>4, FrontAppend
      <3> QED BY <1>2, <1>4, <2>1, <3>2, <3>5 DEF want, now
    <2> QED BY <2>2, <2>3, <2>4
  <1> QED BY <1>3, <1>4

-----------------------------------------------------------------------------
(* files/update: read, truncate, write                                     *)

\* A call between its truncate and its write has an empty file, unless another
\* wrote it; the text of one that is done is what UpdatedText made of its buffer.
Updating(c) ==
    LET r == Req(c) IN
    /\ pc[c] = "write" /\ ~raced[c] => text[held[c]] = <<>>
    /\ r.op = "update" /\ pc[c] \notin {"start", "failed"} => r.from >= 1 /\ r.to >= r.from
    /\ r.op = "update" /\ pc[c] = "done" /\ ~raced[c] =>
         after[c] = UpdatedText(buf[c], r.from, r.to, r.content)

Texts ==
    /\ text \in [Regs -> Seq(Chars)] /\ buf \in [Calls -> Seq(Chars)] /\ raced \in [Calls -> BOOLEAN]
    /\ DOMAIN after = Calls
    /\ \A c \in Calls : Updating(c)

\* At the start nothing is being updated.
LEMMA InitTexts == Init => Texts
  <1> SUFFICES ASSUME Init PROVE Texts OBVIOUS
  <1>1. text \in [Regs -> Seq(Chars)] BY TreeAssumption DEF Init
  <1>2. buf \in [Calls -> Seq(Chars)] BY EmptySeq DEF Init
  <1>3. raced \in [Calls -> BOOLEAN] /\ DOMAIN after = Calls BY DEF Init
  <1>4. \A c \in Calls : pc[c] = "start" BY DEF Init
  <1> QED BY <1>1, <1>2, <1>3, <1>4 DEF Texts, Updating

\* A step that writes no file and does not end an update.
LEMMA QuietTexts ==
    ASSUME IInv, Texts, NEW c \in Calls, Kept(c), UNCHANGED <<text, after, raced>>,
           buf' \in [Calls -> Seq(Chars)], \A x \in Calls \ {c} : buf'[x] = buf[x],
           pc'[c] # "write", Req(c).op = "update" => pc'[c] # "done",
           Req(c).op = "update" /\ pc'[c] \notin {"start", "failed"} =>
             pc[c] \notin {"start", "failed"} \/ (Req(c).from >= 1 /\ Req(c).to >= Req(c).from)
    PROVE  Texts'
  <1>1. scn'.reqs = scn.reqs /\ \A x \in Calls \ {c} : pc'[x] = pc[x] /\ held'[x] = held[x]
    BY DEF Kept, Same
  <1>2. \A x \in Calls : Req(x)' = Req(x) BY <1>1 DEF Req
  <1>3. \A x \in Calls : Updating(x) BY DEF Texts
  <1>4. \A x \in Calls \ {c} : Updating(x)' BY <1>1, <1>2, <1>3 DEF Updating
  <1>5. Updating(c)' BY <1>2, <1>3 DEF Updating
  <1> QED BY <1>4, <1>5 DEF Texts

\* A step that writes file i: the others who hold it have been raced.
LEMMA WriteTexts ==
    ASSUME IInv, Texts, NEW c \in Calls, Kept(c), NEW i \in Regs, NEW v \in Seq(Chars),
           text' = [text EXCEPT ![i] = v], Race(c, i), UNCHANGED buf, DOMAIN after' = Calls,
           \A x \in Calls \ {c} : after'[x] = after[x], Updating(c)'
    PROVE  Texts'
  <1>1. scn'.reqs = scn.reqs /\ \A x \in Calls \ {c} : pc'[x] = pc[x] /\ held'[x] = held[x]
    BY DEF Kept, Same
  <1>2. \A x \in Calls : Req(x)' = Req(x) BY <1>1 DEF Req
  <1>3. text' \in [Regs -> Seq(Chars)] /\ raced' \in [Calls -> BOOLEAN] BY DEF Texts, Race
  <1>4. ASSUME NEW x \in Calls \ {c} PROVE Updating(x)'
    <2>1. ~raced'[x] => ~raced[x] /\ ~(held[x] = i /\ pc[x] = "write") BY DEF Race
    <2>2. pc[x] = "write" => held[x] \in Regs BY DEF IInv, CallOK, Phase
    <2>3. Updating(x) BY DEF Texts
    <2>4. pc'[x] = "write" /\ ~raced'[x] => text'[held'[x]] = <<>> BY <1>1, <2>1, <2>2, <2>3 DEF Texts, Updating
    <2> QED BY <1>1, <1>2, <2>1, <2>3, <2>4 DEF Updating
  <1> QED BY <1>3, <1>4 DEF Texts

\* The actions that write no file.
LEMMA QuietSteps ==
    ASSUME IInv, Texts, NEW c \in Calls,
           \/ Check(c) \/ Openat(c) \/ Opened(c) \/ Mkdirat(c)
           \/ Describe(c) \/ ReadDir(c) \/ Dots(c) \/ Lstat(c) \/ Usage(c)
           \/ UpdateRead(c) \/ Visit(c) \/ Child(c) \/ Leave(c)
    PROVE  Texts'
  <1>1. pc \in [Calls -> Places] /\ buf \in [Calls -> Seq(Chars)] BY DEF IInv, Typed, Texts
  <1>2. Phase(c) /\ c \in DOMAIN pc BY <1>1 DEF IInv, CallOK
  <1>3. CASE Check(c)
    <2>1. UNCHANGED <<text, buf, after, raced>> BY <1>3 DEF Check, fs, history
    <2>2. pc'[c] \in {"open", "failed"} BY <1>1, <1>3 DEF Check, Goto
    <2>3. pc'[c] = "open" => ~Malformed(Req(c)) BY <1>1, <1>3 DEF Check, Goto
    <2>4. Req(c) \in Request /\ Req(c).from \in Nat /\ Req(c).to \in Nat BY ReqType DEF IInv, Request
    <2>5. Req(c).op = "update" /\ pc'[c] = "open" => Req(c).from >= 1 /\ Req(c).to >= Req(c).from
      BY <2>3, <2>4 DEF Malformed
    <2> QED BY <1>1, <1>3, <2>1, <2>2, <2>5, CheckInv, QuietTexts
  <1>4. CASE Openat(c)
    <2>1. UNCHANGED <<text, buf, after, raced>> /\ pc[c] \in {"open", "again"} BY <1>4 DEF Openat, fs, history
    <2>2. pc'[c] # "write" /\ (pc'[c] = "done" => Req(c).op = "filetype")
      BY <1>2, <1>4 DEF Openat, Goto, LastLink
    <2> QED BY <1>1, <1>4, <2>1, <2>2, OpenatInv, QuietTexts
  <1>5. CASE Opened(c) \/ Mkdirat(c)
    <2>1. UNCHANGED <<text, buf, after, raced>> /\ pc[c] \in {"open", "again", "mkdirat"}
      BY <1>5 DEF Opened, Mkdirat, fs, history
    <2>2. pc'[c] \in {"creat", "held", "again", "failed"} BY <1>2, <1>5 DEF Opened, Mkdirat, Goto
    <2> QED BY <1>1, <1>5, <2>1, <2>2, OpenedInv, MkdiratInv, QuietTexts
  <1>6. CASE Describe(c)
    <2>1. UNCHANGED <<text, buf, after, raced>> /\ pc[c] = "held" /\ Req(c).op # "update"
      BY <1>6 DEF Describe, fs, history
    <2>2. pc'[c] \in {"done", "failed"} BY <1>2, <1>6 DEF Describe, Goto
    <2> QED BY <1>1, <1>6, <2>1, <2>2, DescribeInv, QuietTexts
  <1>7. CASE ReadDir(c)
    <2>1. UNCHANGED <<text, buf, after, raced>> /\ pc[c] = "held" /\ Req(c).op # "update"
      BY <1>7 DEF ReadDir, fs, history
    <2>2. pc'[c] \in {"dots", "lstat", "failed"} BY <1>2, <1>7 DEF ReadDir, Goto
    <2> QED BY <1>1, <1>7, <2>1, <2>2, ReadDirInv, QuietTexts
  <1>8. CASE Lstat(c)
    <2>1. UNCHANGED <<text, buf, after, raced>> /\ pc[c] = "lstat" BY <1>8 DEF Lstat, fs, history
    <2>2. Req(c).op # "update" BY <1>2, <2>1 DEF Phase
    <2>3. pc'[c] \in {"lstat", "done"} BY <1>2, <1>8 DEF Lstat, Goto
    <2> QED BY <1>1, <1>8, <2>1, <2>2, <2>3, LstatInv, QuietTexts
  <1>13. CASE Dots(c)
    <2>1. UNCHANGED <<text, buf, after, raced>> /\ pc[c] = "dots" BY <1>13 DEF Dots, fs, history
    <2>2. Req(c).op # "update" BY <1>2, <2>1 DEF Phase
    <2>3. pc'[c] = "lstat" BY <1>2, <1>13 DEF Dots, Goto
    <2> QED BY <1>1, <1>13, <2>1, <2>2, <2>3, DotsInv, QuietTexts
  <1>9. CASE Usage(c)
    <2>1. UNCHANGED <<text, buf, after, raced>> /\ pc[c] = "held" /\ Req(c).op # "update"
      BY <1>9 DEF Usage, fs, history
    <2>2. pc'[c] \in {"done", "failed"} BY <1>2, <1>9 DEF Usage, Goto
    <2> QED BY <1>1, <1>9, <2>1, <2>2, UsageInv, QuietTexts
  <1>10. CASE UpdateRead(c)
    <2>1. UNCHANGED <<text, after, raced>> /\ pc[c] = "held" BY <1>10 DEF UpdateRead, fs, history
    <2>2. pc'[c] \in {"truncate", "failed"} BY <1>2, <1>10 DEF UpdateRead, Goto
    <2>3. buf' = buf \/ (held[c] \in Regs /\ buf' = [buf EXCEPT ![c] = text[held[c]]]) BY <1>10 DEF UpdateRead
    <2>4. buf' \in [Calls -> Seq(Chars)] /\ \A x \in Calls \ {c} : buf'[x] = buf[x] BY <1>1, <2>3 DEF Texts
    <2> QED BY <1>10, <2>1, <2>2, <2>4, UpdateInv, QuietTexts
  <1>11. CASE Visit(c)
    <2>1. UNCHANGED <<text, buf, after, raced>> /\ pc[c] \in {"held", "visit"} BY <1>11 DEF Visit
    <2>2. pc'[c] = "walk" BY <1>2, <1>11 DEF Visit, Goto
    <2> QED BY <1>1, <1>11, <2>1, <2>2, VisitInv, QuietTexts
  <1>12. CASE Child(c) \/ Leave(c)
    <2>1. UNCHANGED <<text, buf, after, raced>> /\ pc[c] = "walk" BY <1>12 DEF Child, Leave, fs, history
    <2>2. Req(c).op # "update" BY <1>2, <2>1 DEF Phase
    <2>3. pc'[c] \in {"walk", "visit", "done"} BY <1>2, <1>12 DEF Child, Leave, Goto
    <2> QED BY <1>1, <1>12, <2>1, <2>2, <2>3, ChildInv, LeaveInv, QuietTexts
  <1> QED BY <1>3, <1>4, <1>5, <1>6, <1>7, <1>8, <1>9, <1>10, <1>11, <1>12, <1>13

\* files/create and files/append write the file they made or found.
LEMMA CreatTexts ==
    ASSUME IInv, Texts, NEW c \in Calls, Creat(c)
    PROVE  Texts'
  <1> DEFINE r == Req(c)
             n == Last(Clean(r.path))
             raw == Lookat(at[c], n)
             new == {i \in Fresh \cap Regs : \A d \in Dirs, m \in Range(Names) : ent[d][m] # i}
             i == IF raw = None /\ new # {} THEN CHOOSE x \in new : TRUE ELSE Seen(c, raw)
             v == CASE r.op = "append" -> text[i] \o r.content
                    [] r.op = "create" /\ r.content # <<>> -> r.content
                    [] OTHER -> text[i]
  <1>1. /\ pc[c] = "creat" /\ UNCHANGED <<buf, after>>
        /\ \/ i \notin Regs /\ Goto(c, "failed") /\ UNCHANGED <<text, raced>>
           \/ i \in Regs /\ Goto(c, "done") /\ text' = [text EXCEPT ![i] = v] /\ Race(c, i)
    BY DEF Creat
  <1>2. Kept(c) BY CreatInv
  <1>3. pc \in [Calls -> Places] /\ buf \in [Calls -> Seq(Chars)] /\ Creating(r)
    BY <1>1 DEF IInv, Typed, Texts, CallOK, Phase
  <1>4. r.op # "update" BY <1>3 DEF Creating
  <1>5. r.content \in Seq(Chars) BY ReqType DEF IInv, Request
  <1>6. scn'.reqs = scn.reqs BY <1>2 DEF Kept
  <1> HIDE DEF i
  <1>7. CASE i \notin Regs
    <2>1. pc'[c] = "failed" /\ UNCHANGED <<text, raced>> BY <1>1, <1>3, <1>7 DEF Goto
    <2> QED BY <1>1, <1>2, <1>3, <2>1, QuietTexts
  <1>8. CASE i \in Regs
    <2>1. pc'[c] = "done" /\ text' = [text EXCEPT ![i] = v] /\ Race(c, i) BY <1>1, <1>3, <1>8 DEF Goto
    <2>2. text[i] \in Seq(Chars) BY <1>8 DEF Texts
    <2>3. v \in Seq(Chars) BY <1>5, <2>2, ConcatProperties
    <2>4. Updating(c)' BY <1>4, <1>6, <2>1 DEF Updating, Req
    <2> HIDE DEF v
    <2> QED BY <1>1, <1>2, <1>8, <2>1, <2>3, <2>4, WriteTexts DEF Texts
  <1> QED BY <1>7, <1>8

\* The truncate of files/update leaves its file empty.
LEMMA TruncateTexts ==
    ASSUME IInv, Texts, NEW c \in Calls, UpdateTruncate(c)
    PROVE  Texts'
  <1>1. /\ pc[c] = "truncate" /\ UNCHANGED <<buf, after, held>> /\ Goto(c, "write")
        /\ text' = [text EXCEPT ![held[c]] = <<>>] /\ Race(c, held[c])
    BY DEF UpdateTruncate, walk
  <1>2. Kept(c) BY UpdateInv
  <1>3. pc \in [Calls -> Places] /\ held[c] \in Regs BY <1>1 DEF IInv, Typed, CallOK, Phase
  <1>4. pc'[c] = "write" BY <1>1, <1>3 DEF Goto
  <1>5. scn'.reqs = scn.reqs BY <1>2 DEF Kept
  <1>6. Updating(c)' BY <1>1, <1>3, <1>4, <1>5 DEF Updating, Req, Texts
  <1>7. <<>> \in Seq(Chars) BY EmptySeq
  <1> QED BY <1>1, <1>2, <1>3, <1>6, <1>7, WriteTexts DEF Texts

\* The write of files/update, over an empty file unless it was raced.
LEMMA WriteBackTexts ==
    ASSUME IInv, Texts, NEW c \in Calls, UpdateWrite(c)
    PROVE  Texts'
  <1> DEFINE r == Req(c)
             new == UpdatedText(buf[c], r.from, r.to, r.content)
             now == text[held[c]]
             v == new \o SubSeq(now, Len(new) + 1, Len(now))
             Written == /\ text' = [text EXCEPT ![held[c]] = v]
                        /\ after' = [after EXCEPT ![c] = text'[held[c]]]
                        /\ Race(c, held[c])
                        /\ Goto(c, "done")
  <1>1. /\ pc[c] = "write" /\ UNCHANGED <<buf, held>>
        /\ Written \/ (Goto(c, "failed") /\ UNCHANGED <<text, after, raced>>)
    BY DEF UpdateWrite, walk
  <1>2. Kept(c) BY UpdateInv
  <1>3. /\ pc \in [Calls -> Places] /\ held[c] \in Regs /\ r.op = "update" /\ Updating(c)
        /\ buf \in [Calls -> Seq(Chars)] /\ text \in [Regs -> Seq(Chars)]
    BY <1>1 DEF IInv, Typed, CallOK, Phase, Texts
  <1>4. r.content \in Seq(Chars) /\ r.from \in Nat /\ r.to \in Nat BY ReqType DEF IInv, Request
  <1>5. r.from >= 1 /\ r.to >= r.from /\ (~raced[c] => now = <<>>) BY <1>1, <1>3 DEF Updating
  <1>6. Req(c)' = r BY <1>2 DEF Kept, Req
  <1>7. new \in Seq(Chars) /\ now \in Seq(Chars) BY <1>3, <1>4, <1>5, UpdatedKeeps
  <1> HIDE DEF r, new, now
  <1>8. v \in Seq(Chars) /\ (now = <<>> => v = new)
    <2> DEFINE n == Len(now)
               m == Len(new) + 1
    <2>1. n \in Nat /\ m \in Nat /\ m >= 1 BY <1>7, LenProperties
    <2>2. \A k \in m..n : now[k] \in Chars BY <1>7, <2>1, ElementOfSeq
    <2>3. m \in Int /\ n \in Int BY <2>1
    <2> HIDE DEF m, n
    <2>4. SubSeq(now, m, n) \in Seq(Chars) BY <2>2, <2>3, SubSeqProperties
    <2>5. v \in Seq(Chars) BY <1>7, <2>4, ConcatProperties DEF m, n
    <2>6. now = <<>> => n = 0 BY EmptySeq DEF n
    <2>7. now = <<>> => SubSeq(now, m, n) = <<>> BY <2>1, <2>3, <2>6, SubSeqEmpty
    <2>8. new \o <<>> = new BY <1>7, ConcatEmptySeq
    <2> QED BY <2>5, <2>7, <2>8 DEF m, n
  <1> HIDE DEF v
  <1>9. CASE Written
    <2>1. pc'[c] = "done" /\ text' = [text EXCEPT ![held[c]] = v] BY <1>3, <1>9 DEF Goto
    <2>2. text'[held[c]] = v BY <1>3, <2>1
    <2>3. after'[c] = v /\ DOMAIN after' = Calls /\ \A x \in Calls \ {c} : after'[x] = after[x]
      <3>1. after' = [after EXCEPT ![c] = v] /\ DOMAIN after = Calls BY <1>9, <2>2 DEF Texts
      <3> QED BY <3>1
    <2>4. ~raced'[c] => after'[c] = new BY <1>5, <1>8, <1>9, <2>3 DEF Race
    <2>5. Updating(c)' BY <1>1, <1>5, <1>6, <2>1, <2>4 DEF Updating, new
    <2>6. Race(c, held[c]) BY <1>9
    <2> QED BY <1>1, <1>2, <1>3, <1>8, <2>1, <2>3, <2>5, <2>6, WriteTexts
  <1>10. CASE Goto(c, "failed") /\ UNCHANGED <<text, after, raced>>
    <2>1. pc'[c] = "failed" BY <1>3, <1>10 DEF Goto
    <2> QED BY <1>1, <1>2, <1>3, <1>10, <2>1, QuietTexts
  <1> QED BY <1>1, <1>9, <1>10

\* Every step keeps what is said of the texts.
LEMMA StepTexts == IInv /\ Texts /\ [Next]_vars => Texts'
  <1> SUFFICES ASSUME IInv, Texts, [Next]_vars PROVE Texts' OBVIOUS
  <1>1. CASE Swap \/ UNCHANGED vars
    <2>1. UNCHANGED <<text, buf, after, raced, pc, held>> BY <1>1 DEF Swap, vars, walk, history
    <2>2. scn'.reqs = scn.reqs
      <3>1. CASE Swap
        <4>1. scn \in Scenario /\ scn' = [scn EXCEPT !.swaps = @ - 1] BY <3>1 DEF Swap, IInv, Typed
        <4> QED BY <4>1 DEF Scenario
      <3>2. CASE UNCHANGED vars BY <3>2 DEF vars
      <3> QED BY <1>1, <3>1, <3>2
    <2> QED BY <2>1, <2>2 DEF Texts, Updating, Req
  <1>2. ASSUME NEW c \in Calls, Creat(c) \/ UpdateTruncate(c) \/ UpdateWrite(c) PROVE Texts'
    BY <1>2, CreatTexts, TruncateTexts, WriteBackTexts
  <1>3. ASSUME NEW c \in Calls,
               \/ Check(c) \/ Openat(c) \/ Opened(c) \/ Mkdirat(c)
               \/ Describe(c) \/ ReadDir(c) \/ Dots(c) \/ Lstat(c) \/ Usage(c)
               \/ UpdateRead(c) \/ Visit(c) \/ Child(c) \/ Leave(c)
        PROVE Texts'
    BY <1>3, QuietSteps
  <1> QED BY <1>1, <1>2, <1>3 DEF Next

\* An update that nobody raced leaves every line outside its range where it was,
\* whatever the text, the range and the new lines are.
THEOREM UpdateKeepsLines == Spec => []UpdateKeepsRest
  <1>1. IInv /\ Texts => UpdateKeepsRest
    <2> SUFFICES ASSUME IInv, Texts, NEW c \in Calls, Req(c).op = "update", pc[c] = "done", ~raced[c]
                 PROVE  LET r == Req(c)
                            want == Wanted(buf[c], r.from, r.to, r.content)
                            got == FileLines(after[c])
                        IN /\ got = want \/ (~Ends(buf[c]) /\ Last(want) = <<>> /\ got = Front(want))
                           /\ Ends(buf[c]) \/ buf[c] = <<>> => Ends(after[c])
      BY DEF UpdateKeepsRest, Wanted
    <2> DEFINE r == Req(c)
    <2>1. r.content \in Seq(Chars) /\ r.from \in Nat /\ r.to \in Nat BY ReqType DEF IInv, Request
    <2>2. /\ r.from >= 1 /\ r.to >= r.from /\ after[c] = UpdatedText(buf[c], r.from, r.to, r.content)
          /\ buf[c] \in Seq(Chars)
      BY DEF Texts, Updating
    <2> DEFINE want == Wanted(buf[c], r.from, r.to, r.content)
               now == UpdatedText(buf[c], r.from, r.to, r.content)
               got == FileLines(now)
    <2> HIDE DEF r
    <2>3. /\ got = want \/ (~Ends(buf[c]) /\ Last(want) = <<>> /\ got = Front(want))
          /\ Ends(buf[c]) \/ buf[c] = <<>> => Ends(now)
      BY <2>1, <2>2, UpdatedKeeps
    <2> HIDE DEF want
    <2> QED BY <2>2, <2>3 DEF r, want
  <1>2. Init => Texts BY InitTexts
  <1>3. IInv /\ Texts /\ [Next]_vars => Texts' BY StepTexts
  <1> QED BY <1>1, <1>2, <1>3, FilesInvariant, PTL DEF Spec

=============================================================================
