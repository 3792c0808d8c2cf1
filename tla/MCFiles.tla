------------------------------ MODULE MCFiles ------------------------------
(* An instance of Files: /srv is granted, its users own /srv and /srv/d;    *)
(* /, /etc and /etc/key are outside.  Two calls per scenario.               *)
EXTENDS Files

MCDirs == {"/", "srv", "d", "etc", "newdir"}
MCRegs == {"f", "g", "key", "newfile"}
MCFresh == {"newdir", "newfile"}
MCLinks == {"l", "k"}
MCLinkTo == [l |-> "etc", k |-> "key"]
MCNames == <<"d", "etc", "f", "g", "srv">>
Dir(es) == [n \in Range(MCNames) |-> IF n \in DOMAIN es THEN es[n] ELSE None]
Empty == [n \in {} |-> None]
MCTree == ("/" :> Dir([srv |-> "srv", etc |-> "etc"])) @@ ("srv" :> Dir([d |-> "d", f |-> "f"]))
          @@ ("d" :> Dir([g |-> "g", f |-> "k"])) @@ ("etc" :> Dir([g |-> "key", f |-> "key"])) @@ ("newdir" :> Dir(Empty))
MCOutside == {"/", "etc", "key"}
MCUserDirs == {"srv", "d"}
MCVirtual == {<<"/", "srv", "d">>}
MCChars == {"a", "b", "c", "n"}
MCText0 == [f |-> <<"a", "n", "b", "n">>, g |-> <<"a">>, key |-> <<"b">>, newfile |-> <<>>]
MCMode0 == [i \in MCDirs \cup MCRegs \cup MCLinks |->
              IF i \in MCDirs THEN {"ur", "uw", "ux", "gr", "gx", "setgid"} ELSE {"ur", "uw", "gr"}]
MCOwn0 == [i \in MCDirs \cup MCRegs \cup MCLinks |-> IF i \in {"srv", "d", "f", "g"} THEN <<7, 7>> ELSE <<0, 0>>]
MCPasswd == << [name |-> "root", id |-> 0, gid |-> 0], [name |-> "ann", id |-> 7, gid |-> 8],
               [name |-> "bob", id |-> 9, gid |-> 10] >>
MCGroup == << [name |-> "wheel", id |-> 5] >>
MCAtoi == ("12" :> 12)

Srv == <<"/", "srv">>
Octal(bits, digits) == [octal |-> TRUE, bits |-> bits, digits |-> digits, clauses |-> <<>>]
Symbolic(cls) == [octal |-> FALSE, bits |-> {}, digits |-> 0, clauses |-> cls]
Cl(who, op, perms) == [who |-> who, op |-> op, perms |-> perms]
R(op, path) == [op |-> op, path |-> path, priv |-> TRUE, from |-> 0, to |-> 0, offset |-> 0, limit |-> 0,
                content |-> <<"c">>, spec |-> Octal({"ur", "uw", "ux"}, 3),
                owner |-> [user |-> "bob", colon |-> TRUE, group |-> ""], recursive |-> FALSE, all |-> FALSE, depth |-> 0]
Idle == R("idle", <<>>)
Scn(r1, r2, swaps) == [grants |-> {Srv}, reqs |-> <<r1, r2>>, swaps |-> swaps, alone |-> swaps = 0 /\ r2 = Idle]

\* One call as root while the directories are rearranged.
Paths == {Srv, Srv \o <<"f">>, Srv \o <<"d">>, Srv \o <<"d", "g">>, Srv \o <<"..", "etc", "g">>, Srv \o <<"g", "f">>, <<"/">>}
Ops == {"read", "content", "stat", "filetype", "list", "find", "usage", "create", "append", "update", "chmod", "chown"}
Racing ==
    {Scn([R(op, p) EXCEPT !.from = 1, !.to = 1, !.recursive = rec, !.all = rec, !.depth = IF rec THEN 1 ELSE 0, !.priv = priv], Idle, 2) :
        op \in Ops, p \in Paths, rec \in BOOLEAN, priv \in BOOLEAN}

\* One update, of every short text; and two writers of one file.
Texts == UNION {[1..k -> {"a", "n"}] : k \in 0..3}
Update(from, to, s) == [R("update", Srv \o <<"f">>) EXCEPT !.from = from, !.to = to, !.content = s]
Writers ==
    {Scn([R("create", Srv \o <<"f">>) EXCEPT !.content = s], Update(from, to, t), 0) :
        s \in Texts, from \in 0..3, to \in 1..3, t \in UNION {[1..k -> {"b", "n"}] : k \in 0..2}}
    \cup {Scn(R("append", Srv \o <<"f">>), Update(1, 1, <<"b">>), 0), Scn(Update(2, 2, <<"c", "n">>), Update(1, 1, <<"b">>), 0)}
    \cup {Scn([R(op, Srv \o <<"f">>) EXCEPT !.from = from, !.to = 1, !.offset = from, !.limit = from], Update(1, 1, <<"b">>), 0) :
             op \in {"read", "content"}, from \in 0..2}

\* Modes and owners, alone and against another chmod.
Specs == {Octal({"ur", "ux"}, 3), Octal({"ur", "setgid"}, 4), Octal({"ur"}, 5),
          Symbolic(<<Cl({"g"}, "=", {"r", "X"})>>), Symbolic(<<Cl({"u", "g"}, "-", {"s"}), Cl({}, "+", {"w"})>>),
          Symbolic(<<Cl({"a"}, "=", {"t", "x"}), Cl({"o"}, "-", {"x"})>>), Symbolic(<<Cl({"g"}, "+", {"s"})>>)}
Owners == {[user |-> u, colon |-> col, group |-> g] : u \in {"", "bob", "12", "nobody"}, col \in BOOLEAN, g \in {"", "wheel", "12"}}
Chmod(s) == [R("chmod", Srv) EXCEPT !.spec = s, !.recursive = TRUE]
Changes ==
    {Scn(Chmod(s), Idle, 0) : s \in Specs}
    \cup {Scn([R("chown", Srv) EXCEPT !.owner = o, !.recursive = TRUE], Idle, 0) : o \in {w \in Owners : w.group = "" \/ w.colon}}
    \cup {Scn([Chmod(s) EXCEPT !.recursive = FALSE], [Chmod(t) EXCEPT !.recursive = FALSE], 0) : s \in Specs, t \in Specs}
    \cup {[Scn(Chmod(s), R("chown", Srv \o <<"d">>), 1) EXCEPT !.grants = {<<"/">>, <<"srv">>}] : s \in Specs}

MCScenarios == Racing \cup Writers \cup Changes
=============================================================================
