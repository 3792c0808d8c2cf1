------------------------------- MODULE Files -------------------------------
(***************************************************************************)
(* The file tools as a worker runs them (internal/tools/files, and         *)
(* disks/usage), over the safe path access of internal/fsafe, while other  *)
(* users of the host rearrange the directories they own.                   *)
(*                                                                         *)
(* A path is a sequence of names, absolute when it starts with "/". The    *)
(* filesystem is the entries of each directory; an entry leads to a        *)
(* directory, a regular file or a symbolic link. Every lookup of one name  *)
(* in one directory is a step of its own: that is the grain at which the   *)
(* kernel resolves a path and at which fsafe walks it.                     *)
(***************************************************************************)
EXTENDS Naturals, Sequences, FiniteSets, SequencesExt

CONSTANTS
    Dirs, Regs,     \* the inodes that can be directories, and regular files
    Fresh,          \* those of them that exist only once a call made them
    Links, LinkTo,  \* symbolic links, and the inode each leads to
    RootDir,        \* the directory "/"
    Names,          \* entry names, in the order of sort.Strings
    Tree,           \* the entries of every directory at the start
    Outside,        \* the inodes no grant covers
    UserDirs,       \* directories whose entries other users may change
    Virtual,        \* paths of the pseudo-filesystems files/find prunes
    Chars,          \* what a text consists of
    Text0, Mode0, Own0,   \* contents, mode bits and <<uid, gid>> at the start
    Binary,         \* regular files that hold a NUL byte
    UserUid,        \* the uid of the caller's own account
    Passwd, Group,  \* the lines of /etc/passwd and /etc/group
    Atoi,           \* the value of the names that are decimal numbers
    SafeLen,        \* maxSafeBytes, maxReadBytes
    Calls,          \* the calls of a behaviour
    Scenarios,      \* what they ask: [grants, reqs, swaps, alone]
    None            \* no inode

Inodes == Dirs \cup Regs \cup Links
Bits == {"setuid", "ur", "uw", "ux", "setgid", "gr", "gw", "gx", "sticky", "or", "ow", "ox"}

\* Nothing leads to an inode that does not exist yet, nor from it.
ASSUME TreeAssumption ==
    /\ RootDir \in Dirs /\ Fresh \subseteq Dirs \cup Regs /\ UserDirs \subseteq Dirs
    /\ Links \cap (Dirs \cup Regs) = {} /\ Dirs \cap Regs = {} /\ None \notin Inodes
    /\ Outside \subseteq (Dirs \cup Regs) \ Fresh
    /\ Tree \in [Dirs -> [Range(Names) -> (Inodes \ Fresh) \cup {None}]]
    /\ \A d \in Fresh \cap Dirs, n \in Range(Names) : Tree[d][n] = None
    /\ LinkTo \in [Links -> Inodes \ Links] /\ Names \in Seq(STRING)
    /\ "n" \in Chars /\ Text0 \in [Regs -> Seq(Chars)] /\ Mode0 \in [Inodes -> SUBSET Bits]

VARIABLES
    scn,            \* the scenario of this behaviour; its swaps left to do
    ent,            \* ent[d][n]: the entry n of directory d
    text,           \* contents of the regular files
    mode, own,      \* mode bits and owner of each inode
    pc,             \* where each call is
    root, noFollow, \* its worker runs as root; the daemon told it _no_follow
    at, rest,       \* the directory it has opened, the names still to look up
    held,           \* the object its descriptor refers to
    smode, sown,    \* mode and owner its Node.Stat holds
    buf,            \* what files/update read
    after,          \* history: the text as its write left it
    raced,          \* history: another call wrote that file in between
    stack,          \* directories a walk is in: [dir, names]
    visited,        \* inodes a walk called fn on, in order
    tally,          \* WalkResult: [changed, unchanged, skipped, errors]
    drops,          \* history: [call, fresh]: a chmod that cost a directory its setgid bit
    touched,        \* inodes it read, wrote, listed, described or changed
    answer          \* what it answered with

walk == <<at, rest, held, smode, sown>>
walking == <<stack, visited, tally>>
history == <<after, raced, drops>>
fs == <<ent, text, mode, own>>
worker == <<root, noFollow>>
vars == <<scn, ent, text, mode, own, pc, root, noFollow, at, rest, held, smode, sown,
          buf, after, raced, stack, visited, tally, drops, touched, answer>>

Req(c) == scn.reqs[c]

-----------------------------------------------------------------------------
(* Paths: filepath.Clean, and the check of a path against a grant          *)
(* (internal/config/sudo.go).                                              *)

Absolute(p) == p # <<>> /\ Head(p) = "/"

\* One more name: "." and ".." are resolved lexically.
Into(q, n) ==
    CASE n = "." -> q
      [] n = ".." -> IF q = <<>> THEN q ELSE Front(q)
      [] OTHER -> Append(q, n)

\* The names of an absolute path (its first element is the "/").
Clean(p) ==
    LET upto[k \in 0..Len(p) - 1] == IF k = 0 THEN <<>> ELSE Into(upto[k - 1], p[k + 1])
    IN upto[Len(p) - 1]

CoversRoot(grants) == \E g \in grants : Absolute(g) /\ Clean(g) = <<>>

\* PathAllowed: at a directory boundary, on cleaned paths.
PathAllowed(p, grants) ==
    Absolute(p) /\ \E g \in grants : Absolute(g) /\ IsPrefix(Clean(g), Clean(p))

-----------------------------------------------------------------------------
(* What the scenarios ask, and what their grants cover.                    *)

Clause == [who : SUBSET {"u", "g", "o", "a"}, op : {"+", "-", "="},
           perms : SUBSET {"r", "w", "x", "X", "s", "t"}]
ModeSpec == [octal : BOOLEAN, bits : SUBSET Bits, digits : Nat, clauses : Seq(Clause)]
OwnerSpec == [user : STRING, colon : BOOLEAN, group : STRING]
Request == [op : STRING, path : Seq(STRING), priv : BOOLEAN, from : Nat, to : Nat, offset : Nat,
            limit : Nat, content : Seq(Chars), spec : ModeSpec, owner : OwnerSpec,
            recursive : BOOLEAN, all : BOOLEAN, depth : Nat]
Scenario == [grants : SUBSET Seq(STRING), reqs : [Calls -> Request], swaps : Nat, alone : BOOLEAN]

\* One name down in the tree as it is at the start, past no link.
Down(d, n) == IF d \in Dirs /\ n \in Range(Names) /\ Tree[d][n] \notin Links THEN Tree[d][n] ELSE None

\* From d the names q, or the first of them, lead into the set in, or nowhere.
LeadsInto(d, q, in) ==
    \/ d \in in
    \/ \E m \in 1..Len(q) : \E way \in [0..m -> Inodes \cup {None}] :
         /\ way[0] = d /\ way[m] \in in \cup {None}
         /\ \A k \in 1..m : way[k] = Down(way[k - 1], q[k])

\* The set in holds what the grants name and all that is below.
Covers(grants, in) ==
    /\ \A d \in in, n \in Range(Names) : Down(d, n) \in in \cup {None}
    /\ \A g \in grants : Absolute(g) => LeadsInto(RootDir, Clean(g), in)

\* Outside is outside every grant but one of "/".
ASSUME ScenarioAssumption ==
    /\ Scenarios \subseteq Scenario
    /\ \A grants \in {s.grants : s \in Scenarios} :
         ~CoversRoot(grants) => \E in \in SUBSET (Inodes \ Outside) : Covers(grants, in)

-----------------------------------------------------------------------------
(* Lines: what files/read shows and files/update rewrites. A text is a     *)
(* sequence of characters, "n" for the newline.                            *)

Ends(s) == s # <<>> /\ Last(s) = "n"
TrimNL(s) == IF Ends(s) THEN Front(s) ELSE s

\* strings.Split(s, "\n"): always at least one piece.
Extend(ls, ch) ==
    IF ch = "n" THEN Append(ls, <<>>) ELSE Append(Front(ls), Append(Last(ls), ch))
Split(s) ==
    LET upto[k \in 0..Len(s)] == IF k = 0 THEN << <<>> >> ELSE Extend(upto[k - 1], s[k])
    IN upto[Len(s)]

\* strings.Join(ls, "\n") of at least one piece.
Join(ls) ==
    LET upto[k \in 0..Len(ls) - 1] == IF k = 0 THEN ls[1] ELSE upto[k - 1] \o <<"n">> \o ls[k + 1]
    IN upto[Len(ls) - 1]

\* What a bufio.Scanner yields: a final newline ends a line, it does not start one.
FileLines(s) == IF s = <<>> THEN <<>> ELSE Split(TrimNL(s))

\* files/read with start_line and end_line; an end before the start means none.
ReadLines(s, from, to) ==
    SubSeq(FileLines(s), from, IF to < from \/ to > Len(FileLines(s)) THEN Len(FileLines(s)) ELSE to)

\* Mutant: the final newline of the file is forgotten.
UpdatedTextGlued(s, from, to, new) ==
    LET lines == FileLines(s)
        upto == IF to > Len(lines) THEN Len(lines) ELSE to
    IN IF from > Len(lines) THEN Join(Append(lines, TrimNL(new)))
       ELSE Join(SubSeq(lines, 1, from - 1) \o Split(TrimNL(new))
                 \o SubSeq(lines, upto + 1, Len(lines)))

\* files/update: lines from..to are replaced by the lines of new; past the end
\* of the file, new is added after the last line.
UpdatedText(s, from, to, new) ==
    LET lines == IF s = <<>> THEN <<>> ELSE Split(TrimNL(s))
        upto == IF to > Len(lines) THEN Len(lines) ELSE to
        out == IF from > Len(lines) THEN Append(lines, TrimNL(new))
               ELSE SubSeq(lines, 1, from - 1) \o Split(TrimNL(new))
                    \o SubSeq(lines, upto + 1, Len(lines))
    IN IF Ends(s) \/ s = <<>> THEN Join(out) \o <<"n">> ELSE Join(out)

\* The answer of files/read and files/content: lines, or bytes from an offset,
\* at most SafeLen of them unless a limit is given.
ReadAnswer(r, s) ==
    IF r.op = "read" /\ r.from > 0
      THEN IF r.from > Len(FileLines(s)) THEN <<"error">> ELSE <<"lines">> \o FlattenSeq(ReadLines(s, r.from, r.to))
      ELSE LET most == IF r.op = "read" /\ r.limit > 0 THEN r.limit ELSE SafeLen
               skip == IF r.op = "read" THEN r.offset ELSE 0
           IN <<"bytes">> \o SubSeq(s, skip + 1, IF skip + most < Len(s) THEN skip + most ELSE Len(s))

-----------------------------------------------------------------------------
(* Modes (internal/tools/files/chmod): a mode is the set of its bits.      *)

Special == {"setuid", "setgid"}
WhoBits(w) == CASE w = "u" -> {"setuid", "ur", "uw", "ux"}
                [] w = "g" -> {"setgid", "gr", "gw", "gx"}
                [] w = "o" -> {"sticky", "or", "ow", "ox"}
                [] w = "a" -> Bits
PermBits(p, old, dir) ==
    CASE p = "r" -> {"ur", "gr", "or"}
      [] p = "w" -> {"uw", "gw", "ow"}
      [] p = "x" -> {"ux", "gx", "ox"}
      [] p = "X" -> IF dir \/ old \cap {"ux", "gx", "ox"} # {} THEN {"ux", "gx", "ox"} ELSE {}
      [] p = "s" -> Special
      [] p = "t" -> {"sticky"}

ClauseMode(cl, m, old, dir) ==
    LET who == IF cl.who = {} THEN WhoBits("a") ELSE UNION {WhoBits(w) : w \in cl.who}
        bits == who \cap UNION {PermBits(p, old, dir) : p \in cl.perms}
    IN CASE cl.op = "+" -> m \cup bits
         [] cl.op = "-" -> m \ bits
         [] cl.op = "=" -> (m \ (IF dir THEN who \ Special ELSE who)) \cup bits

\* The clauses of a symbolic mode, one after the other.
ApplyClauses(cls, old, dir) ==
    LET upto[k \in 0..Len(cls)] == IF k = 0 THEN old ELSE ClauseMode(cls[k], upto[k - 1], old, dir)
    IN upto[Len(cls)]

\* Mutant: an octal mode is exact on directories too.
ApplyModeExact(spec, old, dir) ==
    IF spec.octal THEN spec.bits ELSE ApplyClauses(spec.clauses, old, dir)

\* ParseMode: octal up to four digits keeps a directory's setuid and setgid.
ApplyMode(spec, old, dir) ==
    IF ~spec.octal THEN ApplyClauses(spec.clauses, old, dir)
    ELSE spec.bits \cup (IF dir /\ spec.digits # 5 THEN old \cap Special ELSE {})

\* The request itself says that setgid goes: five digits, or an s taken away.
DropsSetgid(spec) ==
    IF spec.octal THEN spec.digits = 5
    ELSE \E k \in DOMAIN spec.clauses : spec.clauses[k].op = "-" /\ "s" \in spec.clauses[k].perms

(* Owners (internal/tools/files/chown): None for "leave unchanged".        *)

\* lookup: a number is itself, a name the first line that has it.
Lookup(file, name) ==
    IF name \in DOMAIN Atoi THEN Atoi[name]
    ELSE IF \E k \in DOMAIN file : file[k].name = name
           THEN SelectSeq(file, LAMBDA l : l.name = name)[1].id ELSE None

LoginGroup(uid) == LET l == SelectSeq(Passwd, LAMBDA x : x.id = uid)
                   IN IF l = <<>> THEN None ELSE l[1].gid

\* ParseOwner: user, user:group, :group and user: ("" for a part left out).
\* The answer is <<ok, uid, gid>>.
ParseOwner(o) ==
    LET uid == IF o.user = "" THEN None ELSE Lookup(Passwd, o.user)
        gid == CASE o.group # "" -> Lookup(Group, o.group)
                 [] o.group = "" /\ o.colon /\ uid # None -> LoginGroup(uid)
                 [] OTHER -> None
        bad == \/ o.user # "" /\ uid = None
               \/ (o.group # "" \/ (o.colon /\ o.user # "")) /\ gid = None
               \/ uid = None /\ gid = None
    IN <<~bad, uid, gid>>

NewOwner(o, old) ==
    LET p == ParseOwner(o) IN <<IF p[2] = None THEN old[1] ELSE p[2],
                                IF p[3] = None THEN old[2] ELSE p[3]>>

-----------------------------------------------------------------------------
(* The filesystem as the kernel shows it (external).                       *)

Deref(i) == IF i \in Links THEN LinkTo[i] ELSE i
Lookat(d, n) == IF d \in Dirs /\ n \in Range(Names) THEN ent[d][n] ELSE None

\* A whole path, every link followed; and all but a last link.
Resolve(p) == FoldLeft(LAMBDA d, n : Deref(Lookat(d, n)), RootDir, p)
ResolveLast(p) == IF p = <<>> THEN RootDir ELSE Lookat(Resolve(Front(p)), Last(p))

\* What a walk that follows no link reaches from i, depth steps down.
Children(is) == {Lookat(d, n) : d \in is \cap Dirs, n \in Range(Names)} \ {None}
Below(i, depth) ==
    LET reach[k \in 0..depth] == IF k = 0 THEN {i} ELSE LET is == reach[k - 1] IN is \cup Children(is)
    IN reach[depth]

Subtree(i) == IF i = None THEN {} ELSE Below(i, 5)
EntriesOf(d) ==
    LET upto[k \in 0..Len(Names)] ==
          IF k = 0 THEN <<>>
          ELSE IF Lookat(d, Names[k]) # None THEN Append(upto[k - 1], Names[k]) ELSE upto[k - 1]
    IN upto[Len(Names)]

\* Another user replaces, removes or restores an entry of its own directory.
Swap ==
    /\ scn.swaps > 0
    /\ scn' = [scn EXCEPT !.swaps = @ - 1]
    /\ \E d \in UserDirs, n \in Range(Names) :
         \E i \in (Links \cup {Tree[d][n], None}) \ {ent[d][n]} :
           ent' = [ent EXCEPT ![d][n] = i]
    /\ UNCHANGED <<text, mode, own, pc, worker, walk, buf, history, walking, touched, answer>>

-----------------------------------------------------------------------------
NoTally == [changed |-> 0, unchanged |-> 0, skipped |-> 0, errors |-> 0]

Init ==
    /\ scn \in Scenarios
    /\ ent = Tree /\ text = Text0 /\ mode = Mode0 /\ own = Own0
    /\ pc = [c \in Calls |-> "start"]
    /\ root = [c \in Calls |-> FALSE]
    /\ noFollow = [c \in Calls |-> FALSE]
    /\ at = [c \in Calls |-> RootDir]
    /\ rest = [c \in Calls |-> <<>>]
    /\ held = [c \in Calls |-> None]
    /\ smode = [c \in Calls |-> {}]
    /\ sown = [c \in Calls |-> <<0, 0>>]
    /\ buf = [c \in Calls |-> <<>>]
    /\ after = [c \in Calls |-> <<>>]
    /\ raced = [c \in Calls |-> FALSE]
    /\ stack = [c \in Calls |-> <<>>]
    /\ visited = [c \in Calls |-> <<>>]
    /\ tally = [c \in Calls |-> NoTally]
    /\ drops = {}
    /\ touched = [c \in Calls |-> {}]
    /\ answer = [c \in Calls |-> <<>>]

Goto(c, where) == pc' = [pc EXCEPT ![c] = where]
Answer(c, what) == answer' = [answer EXCEPT ![c] = what]
Touch(c, is) == touched' = [touched EXCEPT ![c] = @ \cup is]

\* No request, or a request that the arguments' checks refuse.
Malformed(r) ==
    \/ r.op = "update" /\ (r.from < 1 \/ r.to < r.from)
    \/ r.op = "chown" /\ ~ParseOwner(r.owner)[1]

Creating(r) == r.op \in {"create", "append"}

\* The path the worker's Open or MkdirAll walks: the parent for CreateFile.
WalkPath(r) == IF Creating(r) THEN Front(Clean(r.path)) ELSE Clean(r.path)

\* files/stat and files/content serve the file:// resource.
Resource(r) == r.op \in {"stat", "content"}

\* The master. A tool call asks for root and is refused outside its grant; a
\* file:// read runs as root exactly when the grant covers it. Unless the grant
\* covers "/" anyway, a worker that is root is told not to follow links.
Check(c) ==
    /\ pc[c] = "start"
    /\ LET r == Req(c)
           allowed == PathAllowed(r.path, scn.grants)
           asRoot == IF Resource(r) THEN allowed ELSE r.priv
           ok == /\ Absolute(r.path)
                 /\ asRoot => allowed
                 /\ ~Malformed(r)
                 /\ Creating(r) => Clean(r.path) # <<>>
       IN /\ root' = [root EXCEPT ![c] = asRoot]
          /\ noFollow' = [noFollow EXCEPT ![c] = asRoot /\ ~CoversRoot(scn.grants)]
          /\ rest' = [rest EXCEPT ![c] = IF ok THEN WalkPath(r) ELSE <<>>]
          /\ Goto(c, IF ok THEN "open" ELSE "failed")
    /\ UNCHANGED <<scn, fs, at, held, smode, sown, buf, history, walking, touched, answer>>

\* Mutant: only the last name of the path is protected against links.
SeenLastOnly(c, i) ==
    IF (noFollow[c] /\ Len(rest[c]) = 1) \/ Req(c).op \in {"chmod", "chown"} THEN i ELSE Deref(i)

\* What looking up an entry leads to: the entry itself for fsafe (O_NOFOLLOW),
\* which chmod and chown always use; where it leads for the kernel.
Seen(c, i) ==
    IF noFollow[c] \/ Req(c).op \in {"chmod", "chown"} THEN i ELSE Deref(i)

\* files/filetype describes a link in the last place instead of following it.
LastLink(c, i) == Req(c).op = "filetype" /\ Len(rest[c]) = 1 /\ i \in Links

\* Open and MkdirAll, one component: openat, fstat, and the check that it is no
\* link and, before the last, a directory. Node.Stat is taken through the
\* descriptor just opened.
Openat(c) ==
    /\ pc[c] \in {"open", "again"} /\ rest[c] # <<>>
    /\ LET raw == Lookat(at[c], Head(rest[c]))
           i == IF LastLink(c, raw) THEN raw ELSE Seen(c, raw)
           last == Len(rest[c]) = 1
           missing == raw = None
       IN CASE missing /\ Req(c).op = "create" /\ pc[c] = "open" ->
                 Goto(c, "mkdirat") /\ UNCHANGED <<walk, answer>>
            [] ~missing /\ LastLink(c, raw) ->
                 Goto(c, "done") /\ Answer(c, <<"inode/symlink">>) /\ UNCHANGED walk
            [] ~missing /\ ~LastLink(c, raw) /\ i \in Dirs
                 /\ (~last \/ Creating(Req(c))) ->
                 /\ at' = [at EXCEPT ![c] = i]
                 /\ rest' = [rest EXCEPT ![c] = Tail(@)]
                 /\ Goto(c, "open")
                 /\ UNCHANGED <<held, smode, sown, answer>>
            [] ~missing /\ ~LastLink(c, raw) /\ last /\ i \notin Links /\ ~Creating(Req(c)) ->
                 /\ held' = [held EXCEPT ![c] = i]
                 /\ smode' = [smode EXCEPT ![c] = mode[i]]
                 /\ sown' = [sown EXCEPT ![c] = own[i]]
                 /\ rest' = [rest EXCEPT ![c] = <<>>]
                 /\ Goto(c, "held")
                 /\ UNCHANGED <<at, answer>>
            [] OTHER -> Goto(c, "failed") /\ UNCHANGED <<walk, answer>>
    /\ UNCHANGED <<scn, fs, worker, buf, history, walking, touched>>

\* The path was "/", or CreateFile's parent has been reached.
Opened(c) ==
    /\ pc[c] \in {"open", "again"} /\ rest[c] = <<>>
    /\ IF Creating(Req(c))
         THEN Goto(c, "creat") /\ UNCHANGED <<held, smode, sown>>
         ELSE /\ held' = [held EXCEPT ![c] = at[c]]
              /\ smode' = [smode EXCEPT ![c] = mode[at[c]]]
              /\ sown' = [sown EXCEPT ![c] = own[at[c]]]
              /\ Goto(c, "held")
    /\ UNCHANGED <<scn, fs, worker, at, rest, buf, history, walking, touched, answer>>

\* MkdirAll, a missing component: mkdirat (an entry that has appeared meanwhile
\* is no error), then openat again.
Mkdirat(c) ==
    /\ pc[c] = "mkdirat"
    /\ LET n == Head(rest[c])
           new == {i \in Fresh \cap Dirs : \A d \in Dirs, m \in Range(Names) : ent[d][m] # i}
       IN IF Lookat(at[c], n) # None THEN UNCHANGED ent /\ Goto(c, "again")
          ELSE IF new = {} THEN UNCHANGED ent /\ Goto(c, "failed")
          ELSE ent' = [ent EXCEPT ![at[c]][n] = CHOOSE i \in new : TRUE] /\ Goto(c, "again")
    /\ UNCHANGED <<scn, text, mode, own, worker, walk, buf, history, walking, touched, answer>>

\* Others who hold the file between reading and writing it have been raced.
Race(c, i) ==
    raced' = [x \in Calls |-> raced[x] \/ (x # c /\ held[x] = i /\ pc[x] \in {"truncate", "write"})]

\* CreateFile's openat (O_CREAT, O_NOFOLLOW) and the write of files/create
\* (O_TRUNC, or a touch when there is no content) and of append (O_APPEND).
Creat(c) ==
    /\ pc[c] = "creat"
    /\ LET r == Req(c)
           n == Last(Clean(r.path))
           raw == Lookat(at[c], n)
           new == {i \in Fresh \cap Regs : \A d \in Dirs, m \in Range(Names) : ent[d][m] # i}
           i == IF raw = None /\ new # {} THEN CHOOSE x \in new : TRUE ELSE Seen(c, raw)
       IN IF i \in Regs
            THEN /\ ent' = IF raw = None THEN [ent EXCEPT ![at[c]][n] = i] ELSE ent
                 /\ text' = [text EXCEPT ![i] = CASE r.op = "append" -> @ \o r.content
                                                  [] r.op = "create" /\ r.content # <<>> -> r.content
                                                  [] OTHER -> @]
                 /\ Race(c, i)
                 /\ Touch(c, {i})
                 /\ Goto(c, "done")
            ELSE Goto(c, "failed") /\ UNCHANGED <<ent, text, raced, touched>>
    /\ UNCHANGED <<scn, mode, own, worker, walk, buf, after, drops, walking, answer>>

\* The kernel's own check, for a worker that is not root; "/" is everybody's to read.
Permitted(c, i) == root[c] \/ i \notin Outside \ {RootDir}

\* read, content, stat, filetype and find answer from the descriptor held; a
\* directory or a binary file cannot be read. find has made it its working
\* directory and never follows a link below it; the pseudo-filesystems are
\* pruned unless the search starts inside one.
Describe(c) ==
    /\ pc[c] = "held"
    /\ Req(c).op \in {"read", "content", "stat", "filetype", "find"}
    /\ LET r == Req(c)
           i == held[c]
           pruned == {v \in Virtual : IsStrictPrefix(Clean(r.path), Clean(v))}
           found == Below(i, IF r.depth > 0 THEN r.depth ELSE 5)
                      \ UNION {Subtree(Resolve(Clean(v))) : v \in pruned}
           bad == ~Permitted(c, i) \/ (r.op \in {"read", "content"} /\ (i \in Dirs \/ i \in Binary))
       IN IF bad THEN Goto(c, "failed") /\ UNCHANGED <<touched, answer>>
          ELSE /\ Touch(c, IF r.op = "find" THEN {x \in found : Permitted(c, x)} ELSE {i})
               /\ Answer(c, CASE r.op \in {"read", "content"} -> ReadAnswer(r, text[i])
                              [] r.op = "filetype" /\ i \in Dirs -> <<"inode/directory">>
                              [] r.op = "filetype" /\ i \in Regs /\ text[i] = <<>> -> <<"inode/x-empty">>
                              [] OTHER -> <<"ok">>)
               /\ Goto(c, "done")
    /\ UNCHANGED <<scn, fs, worker, walk, buf, history, walking>>

\* files/list: ReadDir through the descriptor ...
ReadDir(c) ==
    /\ pc[c] = "held" /\ Req(c).op = "list"
    /\ IF held[c] \in Dirs /\ Permitted(c, held[c])
         THEN /\ rest' = [rest EXCEPT ![c] = EntriesOf(held[c])]
              /\ Touch(c, {held[c]})
              /\ Goto(c, IF Req(c).all THEN "dots" ELSE "lstat")
         ELSE Goto(c, "failed") /\ UNCHANGED <<rest, touched>>
    /\ UNCHANGED <<scn, fs, worker, at, held, smode, sown, buf, history, walking, answer>>

\* What lstat says an inode is; a link is shown as one, what has gone as "?".
Kind(i) == CASE i = None -> "?" [] i \in Links -> "symlink" [] i \in Dirs -> "dir" [] i \in Regs -> "file"

\* ... with all, "." and ".." first. By path when links may be followed. From
\* the descriptor, "." is the link /proc has for it, and ".." the directory it
\* was reached through (directories stay where they are).
Dots(c) ==
    /\ pc[c] = "dots"
    /\ LET p == Clean(Req(c).path)
           self == IF noFollow[c] THEN held[c] ELSE ResolveLast(p)
           up == IF noFollow[c] THEN at[c] ELSE IF p = <<>> THEN RootDir ELSE ResolveLast(Front(p))
       IN /\ Answer(c, <<IF noFollow[c] THEN "symlink" ELSE Kind(self), Kind(up)>>)
          /\ Touch(c, {self, up} \ {None})
    /\ Goto(c, "lstat")
    /\ UNCHANGED <<scn, fs, worker, walk, buf, history, walking>>

\* ... then each entry with lstat.
Lstat(c) ==
    /\ pc[c] = "lstat"
    /\ IF rest[c] = <<>> THEN Goto(c, "done") /\ UNCHANGED <<rest, touched, answer>>
       ELSE LET i == Lookat(held[c], Head(rest[c])) IN
            /\ Answer(c, Append(answer[c], Kind(i)))
            /\ Touch(c, {i} \ {None})
            /\ rest' = [rest EXCEPT ![c] = Tail(@)]
            /\ UNCHANGED pc
    /\ UNCHANGED <<scn, fs, worker, at, held, smode, sown, buf, history, walking>>

\* disks/usage: the descriptor was only a check. The tree is then walked by its
\* path, no link below it followed, hard-linked files counted once.
Usage(c) ==
    /\ pc[c] = "held" /\ Req(c).op = "usage"
    /\ LET start == ResolveLast(Clean(Req(c).path)) IN
       IF start = None THEN Goto(c, "failed") /\ UNCHANGED <<touched, answer>>
       ELSE /\ Touch(c, {x \in Subtree(start) : Permitted(c, x)})
            /\ Answer(c, <<"total", Cardinality({x \in Subtree(start) : Permitted(c, x)})>>)
            /\ Goto(c, "done")
    /\ UNCHANGED <<scn, fs, worker, walk, buf, history, walking>>

\* files/update, through one descriptor: read all, ...
UpdateRead(c) ==
    /\ pc[c] = "held" /\ Req(c).op = "update"
    /\ IF held[c] \in Regs /\ Permitted(c, held[c])
         THEN buf' = [buf EXCEPT ![c] = text[held[c]]] /\ Touch(c, {held[c]}) /\ Goto(c, "truncate")
         ELSE Goto(c, "failed") /\ UNCHANGED <<buf, touched>>
    /\ UNCHANGED <<scn, fs, worker, walk, history, walking, answer>>

\* ... truncate, ...
UpdateTruncate(c) ==
    /\ pc[c] = "truncate"
    /\ text' = [text EXCEPT ![held[c]] = <<>>]
    /\ Race(c, held[c])
    /\ Goto(c, "write")
    /\ UNCHANGED <<scn, ent, mode, own, worker, walk, buf, after, drops, walking, touched, answer>>

\* ... and write at offset 0, over whatever is there by then. The write can fail
\* (a full disk): the file stays truncated.
UpdateWrite(c) ==
    /\ pc[c] = "write"
    /\ LET r == Req(c)
           new == UpdatedText(buf[c], r.from, r.to, r.content)
           now == text[held[c]]
       IN \/ /\ text' = [text EXCEPT ![held[c]] = new \o SubSeq(now, Len(new) + 1, Len(now))]
             /\ after' = [after EXCEPT ![c] = text'[held[c]]]
             /\ Race(c, held[c])
             /\ Goto(c, "done")
          \/ Goto(c, "failed") /\ UNCHANGED <<text, after, raced>>
    /\ UNCHANGED <<scn, ent, mode, own, worker, walk, buf, drops, walking, touched, answer>>

\* The callback of chmod and chown, on the stat taken when the node was opened;
\* "changed", "unchanged" or an error. A chown costs a regular file its set-id
\* bits (the kernel's rule).
MayChange(c, i) == root[c] \/ own[i][1] = UserUid

Change(c, i) ==
    LET r == Req(c)
        dir == i \in Dirs
        newMode == ApplyMode(r.spec, smode[c], dir)
        newOwn == NewOwner(r.owner, sown[c])
        same == IF r.op = "chmod" THEN newMode = smode[c] ELSE newOwn = sown[c]
        how == CASE same -> "unchanged" [] ~same /\ MayChange(c, i) -> "changed" [] OTHER -> "errors"
    IN /\ mode' = CASE how = "changed" /\ r.op = "chmod" -> [mode EXCEPT ![i] = newMode]
                    [] how = "changed" /\ r.op = "chown" /\ ~dir ->
                         [mode EXCEPT ![i] = @ \ (IF "gx" \in @ THEN Special ELSE {"setuid"})]
                    [] OTHER -> mode
       /\ own' = IF how = "changed" /\ r.op = "chown" THEN [own EXCEPT ![i] = newOwn] ELSE own
       /\ tally' = [tally EXCEPT ![c][how] = @ + 1]
       /\ visited' = [visited EXCEPT ![c] = Append(@, i)]
       /\ drops' = IF r.op = "chmod" /\ dir /\ "setgid" \in mode[i] \ mode'[i] /\ ~DropsSetgid(r.spec)
                     THEN drops \cup {[call |-> c, fresh |-> mode[i] = smode[c]]} ELSE drops
       /\ touched' = [touched EXCEPT ![c] = @ \cup (IF how = "changed" THEN {i} ELSE {})]

\* Mutant: a walk does not go below the directory it starts at.
NamesShallow(c, i) == IF Req(c).recursive /\ i \in Dirs /\ stack[c] = <<>> THEN EntriesOf(i) ELSE <<>>

\* Walk: the entries of a directory it has just called fn on.
NamesToVisit(c, i) == IF Req(c).recursive /\ i \in Dirs THEN EntriesOf(i) ELSE <<>>

\* fn on the node just opened, then its Names.
Visit(c) ==
    /\ pc[c] \in {"held", "visit"} /\ Req(c).op \in {"chmod", "chown"}
    /\ Change(c, held[c])
    /\ stack' = [stack EXCEPT ![c] = Append(@, [dir |-> held[c], names |-> NamesToVisit(c, held[c])])]
    /\ Goto(c, "walk")
    /\ UNCHANGED <<scn, ent, text, worker, walk, buf, after, raced, answer>>

\* Walk: the next entry of the innermost directory, opened relative to it. A
\* link is skipped, an entry that has gone is an error.
Child(c) ==
    /\ pc[c] = "walk" /\ stack[c] # <<>> /\ Last(stack[c]).names # <<>>
    /\ LET top == Last(stack[c])
           i == Lookat(top.dir, Head(top.names))
       IN /\ stack' = [stack EXCEPT ![c] = Append(Front(@), [top EXCEPT !.names = Tail(@)])]
          /\ IF i = None \/ i \in Links
               THEN /\ tally' = [tally EXCEPT ![c][IF i = None THEN "errors" ELSE "skipped"] = @ + 1]
                    /\ UNCHANGED <<held, smode, sown, pc>>
               ELSE /\ held' = [held EXCEPT ![c] = i]
                    /\ smode' = [smode EXCEPT ![c] = mode[i]]
                    /\ sown' = [sown EXCEPT ![c] = own[i]]
                    /\ Goto(c, "visit")
                    /\ UNCHANGED tally
    /\ UNCHANGED <<scn, fs, worker, at, rest, buf, history, visited, touched, answer>>

\* The directory is finished; with the last one the call is.
Leave(c) ==
    /\ pc[c] = "walk" /\ stack[c] # <<>> /\ Last(stack[c]).names = <<>>
    /\ stack' = [stack EXCEPT ![c] = Front(@)]
    /\ Goto(c, IF Len(stack[c]) = 1 THEN "done" ELSE "walk")
    /\ UNCHANGED <<scn, fs, worker, walk, buf, history, visited, tally, touched, answer>>

Ended == \A c \in Calls : pc[c] \in {"done", "failed"}

Next ==
    \/ Swap
    \/ \E c \in Calls :
         \/ Check(c) \/ Openat(c) \/ Opened(c) \/ Mkdirat(c) \/ Creat(c)
         \/ Describe(c) \/ ReadDir(c) \/ Dots(c) \/ Lstat(c) \/ Usage(c)
         \/ UpdateRead(c) \/ UpdateTruncate(c) \/ UpdateWrite(c)
         \/ Visit(c) \/ Child(c) \/ Leave(c)
    \/ Ended /\ UNCHANGED vars

Spec == Init /\ [][Next]_vars

-----------------------------------------------------------------------------
\* What files/list with all shows as "..".
Above(c) == IF Req(c).op = "list" /\ Req(c).all THEN {at[c]} ELSE {}

\* The promise of _no_follow (internal/fsafe): a call that runs as root under a
\* paths: grant reads, writes, lists, describes and changes nothing outside the
\* granted directories, whatever the users of those directories do to their
\* entries while it runs. There is one exception: files/list with all describes
\* (mode, owner, size, times) the parent of the directory it lists as "..", and
\* the parent of a granted directory is outside the grant. disks/usage promises
\* less (usage.go says so): it reports sizes from a walk that starts by path.
StaysInside ==
    \A c \in Calls : noFollow[c] /\ Req(c).op # "usage" => touched[c] \cap Outside \subseteq Above(c)

\* files/update, when nobody else writes the file between its read and its
\* write: every line outside the range is still there, in its place, the range
\* reads back as what was sent, and a file whose last line ended keeps that (the
\* next append starts a line of its own). A last line that becomes empty in a
\* file without a final newline is the one that cannot be seen.
UpdateKeepsRest ==
    \A c \in Calls :
      Req(c).op = "update" /\ pc[c] = "done" /\ ~raced[c] =>
        LET r == Req(c)
            old == FileLines(buf[c])
            to == IF r.to > Len(old) THEN Len(old) ELSE r.to
            want == SubSeq(old, 1, IF r.from > Len(old) THEN Len(old) ELSE r.from - 1) \o Split(TrimNL(r.content))
                      \o SubSeq(old, to + 1, Len(old))
            got == FileLines(after[c])
        IN /\ got = want \/ (~Ends(buf[c]) /\ Last(want) = <<>> /\ got = Front(want))
           /\ Ends(buf[c]) \/ buf[c] = <<>> => Ends(after[c])

\* chmod: a directory loses its setgid bit only to a request that says so, or to
\* one whose stat was taken before somebody else set the bit.
SharedDirsKeepSetgid == \A x \in drops : ~x.fresh

\* A recursive chmod or chown that ran alone has called fn exactly once on
\* everything below its start that no link leads to, gave each the mode or owner
\* asked for, and its summary adds up to what is there.
WalkReachesAll ==
    \A c \in Calls :
      LET r == Req(c) IN
      /\ r.op \in {"chmod", "chown"} /\ r.recursive /\ pc[c] = "done"
      /\ scn.alone
      => LET start == Resolve(Clean(r.path)) IN
         /\ Range(visited[c]) = Subtree(start) \ Links /\ IsInjective(visited[c])
         /\ \A i \in Subtree(start) \ Links :
              IF r.op = "chmod" THEN mode[i] = ApplyMode(r.spec, Mode0[i], i \in Dirs)
                                ELSE own[i] = NewOwner(r.owner, Own0[i])
         /\ tally[c].skipped = Cardinality(Subtree(start) \cap Links)
         /\ tally[c].changed + tally[c].unchanged + tally[c].skipped = Cardinality(Subtree(start))
=============================================================================
