---------------------------- MODULE ConfigFiles ----------------------------
(***************************************************************************)
(* The configuration directory: daemon.yaml, users.yaml and mcp-sudo.yaml, *)
(* the linuxctl commands that rewrite them (cmd/linuxctl/mcpd_admin.go,    *)
(* edit_config.go) and the daemon, which reads them at startup and on      *)
(* daemon/reload-config (cmd/mcpd/reload.go, internal/config) and rewrites *)
(* the users whenever it pins a UID (cmd/mcpd/uid_pin.go). No two writers  *)
(* share a lock.                                                           *)
(*                                                                         *)
(* SaveDoc truncates a file and then writes it (os.WriteFile): two steps,  *)
(* between which a reader sees an empty file and a process may die. A      *)
(* users list maps a name to the generation of its entry, 0 for no entry;  *)
(* mcp-sudo.yaml maps a name to the generation its grants were written     *)
(* for. Tokens and pins in an entry are UidPin's subject.                  *)
(***************************************************************************)
EXTENDS Naturals, FiniteSets

CONSTANTS
    Names,          \* user names
    RootNames,      \* those that are accounts with uid 0
    Procs,          \* the writers: linuxctl processes ...
    Mcpd,           \* ... and the daemon, saving a pin
    MaxCmds,        \* bound: commands started
    None            \* no command

ASSUME NamesAssumption ==
    /\ RootNames \subseteq Names
    /\ Mcpd \in Procs
    /\ MaxCmds \in Nat

VARIABLES
    dfile,          \* daemon.yaml: whether it has content, and its legacy list
    ufile,          \* users.yaml
    sfile,          \* mcp-sudo.yaml; loose: grants only a lenient parse accepts
    pc,             \* where a process is
    job,            \* its command, the user it is about, and what it has in
                    \* memory: the users list, the legacy list, the grants
    up, mUsers, mGrants,    \* the running daemon and what it has loaded,
    mPath,          \* from which file: usersPath, where pins go
    rl, rd, ru, rp, rs, \* a reload or start: what it has read so far
    cmds,           \* commands started (bounded)
    made,           \* history: entries created under a name
    removed,        \* history: names an administrator removed
    orphans,        \* history: names whose entry or grants were edited by hand
                    \* so that the one came to stand without the other
    overlap,        \* history: two commands, or a command and the save of a
                    \* pin, ran at the same time
    broken,         \* history: a writer died or gave up half-way
    torn            \* history: it left the users truncated

vars == <<dfile, ufile, sfile, pc, job, up, mUsers, mGrants, mPath, rl, rd, ru, rp, rs, cmds,
          made, removed, orphans, overlap, broken, torn>>
files == <<dfile, ufile, sfile>>
daemon == <<up, mUsers, mGrants, mPath, rl, rd, ru, rp, rs>>
history == <<made, removed, orphans, overlap, broken, torn>>

Lists == [Names -> Nat]
NoUsers == [n \in Names |-> 0]
Users(list) == {n \in Names : list[n] # 0}

File(content) == [st |-> "doc", list |-> content]
Empty == [st |-> "empty", list |-> NoUsers]
Missing == [st |-> "missing", list |-> NoUsers]
Grants(content, l) == [st |-> "doc", list |-> content, loose |-> l]
NoGrants == [st |-> "empty", list |-> NoUsers, loose |-> {}]
NoJob == [verb |-> None, who |-> None, doc |-> NoUsers, leg |-> NoUsers, gdoc |-> NoGrants]

Commands == {"create", "create --grant", "delete", "update",
             "edit users", "edit sudo", "edit daemon"}
Verbs == Commands \cup {"pin"}
Pcs == {"idle", "stat", "migrate", "fill", "clear", "cleared", "load", "trunc", "save",
        "sudo", "strunc", "ssave", "edit", "editor", "rename", "ptrunc", "psave"}

-----------------------------------------------------------------------------
(* internal/config: what a list must satisfy, and which files together.    *)

\* validateUsers: no entry may be a root account (the other checks are of an
\* entry's own fields).
ValidUsers(list) == Users(list) \cap RootNames = {}

\* LoadConfigDir, given what was read: an empty document is the zero value, and
\* users in both files is an error.
Accepts(dlist, u) ==
    /\ ValidUsers(dlist)
    /\ u.st # "missing" => ValidUsers(u.list) /\ dlist = NoUsers
Chosen(dlist, u) == IF u.st = "missing" THEN dlist ELSE u.list

\* ParseSudoConfig, strict: a grant without the list its tool needs is an error.
StrictGrants(s) == s.loose = {}

Loadable == Accepts(dfile.list, ufile) /\ StrictGrants(sfile)

-----------------------------------------------------------------------------
\* A directory in use: with users.yaml, or from before it existed. A name that
\* is listed has generation 1; grants are for listed users.
Init ==
    \E list \in [Names -> {0, 1}], gr \in [Names -> {0, 1}] :
        /\ ValidUsers(list)
        /\ \A n \in Names : gr[n] <= list[n]
        /\ \/ dfile = File(list) /\ ufile = Missing
           \/ dfile = File(NoUsers) /\ ufile = File(list)
        /\ sfile = Grants(gr, {})
        /\ pc = [p \in Procs |-> "idle"]
        /\ job = [p \in Procs |-> NoJob]
        /\ up = TRUE
        /\ mUsers = list
        /\ mGrants = gr
        /\ mPath = IF ufile.st = "missing" THEN "daemon" ELSE "users"
        /\ rl = "idle" /\ rd = NoUsers /\ ru = NoUsers /\ rp = "users" /\ rs = NoGrants
        /\ cmds = 0
        /\ made = list
        /\ removed = {}
        /\ orphans = {}
        /\ overlap = FALSE
        /\ broken = FALSE
        /\ torn = FALSE

-----------------------------------------------------------------------------
(* linuxctl.                                                               *)

\* handleMcpdAdmin: every command that writes users goes through usersFileFor;
\* the other two edits go on to read their file.
StartCommand(p, v, n) ==
    /\ p # Mcpd
    /\ pc[p] = "idle"
    /\ cmds < MaxCmds
    /\ cmds' = cmds + 1
    /\ pc' = [pc EXCEPT ![p] = IF v \in {"edit sudo", "edit daemon"} THEN "edit" ELSE "stat"]
    /\ job' = [job EXCEPT ![p].verb = v, ![p].who = n]
    /\ overlap' = (overlap \/ \E q \in Procs : pc[q] # "idle")
    /\ UNCHANGED <<files, daemon, made, removed, orphans, broken, torn>>

\* os.Exit(1) before anything was written for this command, or its normal end.
Exit(p) == pc' = [pc EXCEPT ![p] = "idle"] /\ job' = [job EXCEPT ![p] = NoJob]

\* What follows usersFileFor.
AfterUsersFile(p) == IF job[p].verb = "edit users" THEN "edit" ELSE "load"

\* usersFileFor: users.yaml exists ...
UsersFileThere(p) ==
    /\ pc[p] = "stat"
    /\ ufile.st # "missing"
    /\ pc' = [pc EXCEPT ![p] = AfterUsersFile(p)]
    /\ UNCHANGED <<files, job, cmds, daemon, history>>

\* ... or does not: daemon.yaml is loaded (an empty one is an error) ...
MigrateLoad(p) ==
    /\ pc[p] = "stat"
    /\ ufile.st = "missing"
    /\ IF dfile.st = "empty"
         THEN Exit(p)
         ELSE /\ job' = [job EXCEPT ![p].leg = dfile.list]
              /\ pc' = [pc EXCEPT ![p] = "migrate"]
    /\ UNCHANGED <<files, cmds, daemon, history>>

\* ... users.yaml created empty, with mode 0600 ...
MigrateCreate(p) ==
    /\ pc[p] = "migrate"
    /\ ufile' = Empty
    /\ pc' = [pc EXCEPT ![p] = "fill"]
    /\ UNCHANGED <<dfile, sfile, job, cmds, daemon, history>>

\* Mutant: the legacy list is cleared before users.yaml holds it.
MigrateFillLate(p) ==
    /\ pc[p] = "fill"
    /\ dfile' = File(NoUsers)
    /\ UNCHANGED ufile
    /\ pc' = [pc EXCEPT ![p] = "load"]
    /\ UNCHANGED <<sfile, job, cmds, daemon, history>>

\* ... filled (SaveDoc on an empty file) ...
MigrateFill(p) ==
    /\ pc[p] = "fill"
    /\ ufile' = File(job[p].leg)
    /\ pc' = [pc EXCEPT ![p] = IF job[p].leg # NoUsers THEN "clear" ELSE AfterUsersFile(p)]
    /\ UNCHANGED <<dfile, sfile, job, cmds, daemon, history>>

\* ... and only then the list is taken out of daemon.yaml.
MigrateClear(p) ==
    /\ \/ /\ pc[p] = "clear"
          /\ dfile' = Empty
          /\ pc' = [pc EXCEPT ![p] = "cleared"]
       \/ /\ pc[p] = "cleared"
          /\ dfile' = File(NoUsers)
          /\ pc' = [pc EXCEPT ![p] = AfterUsersFile(p)]
    /\ UNCHANGED <<ufile, sfile, job, cmds, daemon, history>>

\* The command's own checks on the loaded list: create wants a new name that is
\* no root account, delete and update a listed one.
Refused(list, v, n) ==
    IF v \in {"create", "create --grant"} THEN n \in RootNames \/ list[n] # 0
                                          ELSE list[n] = 0

\* What the command makes of the list: mcpdCreateUser appends an entry,
\* mcpdDeleteUser removes it, mcpdUpdateUser changes its token only.
Edited(list, v, n) ==
    IF v \in {"create", "create --grant"} THEN [list EXCEPT ![n] = made[n] + 1]
    ELSE IF v = "delete" THEN [list EXCEPT ![n] = 0] ELSE list

\* loadYAMLDoc (an empty or missing file is an error) and the checks.
LoadUsersDoc(p) ==
    /\ pc[p] = "load"
    /\ IF ufile.st # "doc" \/ Refused(ufile.list, job[p].verb, job[p].who)
         THEN Exit(p)
         ELSE /\ job' = [job EXCEPT ![p].doc = Edited(ufile.list, job[p].verb, job[p].who)]
              /\ pc' = [pc EXCEPT ![p] = "trunc"]
    /\ UNCHANGED <<files, cmds, daemon, history>>

\* SaveDoc of users.yaml: truncated ...
TruncateUsers(p) ==
    /\ pc[p] = "trunc"
    /\ ufile' = Empty
    /\ removed' = IF job[p].verb = "delete" THEN removed \cup {job[p].who} ELSE removed
    /\ pc' = [pc EXCEPT ![p] = "save"]
    /\ UNCHANGED <<dfile, sfile, job, cmds, daemon, made, orphans, overlap, broken, torn>>

\* History: the entries ever made, once a list is written.
Listed(list) == [n \in Names |-> IF list[n] > made[n] THEN list[n] ELSE made[n]]

\* ... and written. update and a pin are done; create and delete go on to mcp-sudo.yaml.
SaveUsers(p) ==
    /\ pc[p] = "save"
    /\ ufile' = File(job[p].doc)
    /\ IF job[p].verb \in {"update", "pin"}
         THEN Exit(p)
         ELSE pc' = [pc EXCEPT ![p] = "sudo"] /\ UNCHANGED job
    /\ made' = Listed(job[p].doc)
    /\ removed' = removed \ Users(job[p].doc)
    /\ UNCHANGED <<dfile, sfile, cmds, daemon, orphans, overlap, broken, torn>>

\* The sudo part: a fresh block replaces a stale one, whose --grant holds only
\* `allowed: true`; delete drops the block. An unreadable file ends the command
\* with users.yaml already changed.
LoadSudoDoc(p) ==
    /\ pc[p] = "sudo"
    /\ IF sfile.st # "doc"
         THEN Exit(p) /\ broken' = TRUE
         ELSE LET n == job[p].who IN
              /\ job' = [job EXCEPT ![p].gdoc =
                    Grants([sfile.list EXCEPT ![n] = IF job[p].verb = "delete" THEN 0 ELSE job[p].doc[n]],
                           IF job[p].verb = "create --grant" THEN sfile.loose \cup {n}
                                                         ELSE sfile.loose \ {n})]
              /\ pc' = [pc EXCEPT ![p] = "strunc"]
              /\ UNCHANGED broken
    /\ UNCHANGED <<files, cmds, daemon, made, removed, orphans, overlap, torn>>

\* Mutant: create keeps a stale block, delete never looks at mcp-sudo.yaml.
SaveSudoKeeping(p) ==
    /\ pc[p] = "strunc"
    /\ Exit(p)
    /\ UNCHANGED <<files, cmds, daemon, history>>

\* SaveDoc of mcp-sudo.yaml.
SaveSudo(p) ==
    /\ \/ /\ pc[p] = "strunc"
          /\ sfile' = NoGrants
          /\ pc' = [pc EXCEPT ![p] = "ssave"]
          /\ UNCHANGED job
       \/ /\ pc[p] = "ssave"
          /\ sfile' = job[p].gdoc
          /\ Exit(p)
    /\ UNCHANGED <<dfile, ufile, cmds, daemon, history>>

\* A process dies, or a write fails, between two steps; of a pin only the
\* write fails, and the daemon goes on (checkAndPinUID logs it).
Die(p) ==
    /\ pc[p] # "idle"
    /\ Exit(p)
    /\ broken' = TRUE
    /\ torn' = (torn \/ pc[p] \in {"save", "psave"})
    /\ UNCHANGED <<files, cmds, daemon, made, removed, orphans, overlap>>

-----------------------------------------------------------------------------
(* linuxctl edit mcpd config: the editor works on a copy; a valid result   *)
(* replaces the file by a rename, an invalid one is edited again or given  *)
(* up (edit_config.go).                                                    *)

\* The entry a grant is written for: the one listed, or the next of that name.
GrantedEntry(n) ==
    LET now == Chosen(dfile.list, ufile)[n] IN IF now # 0 THEN now ELSE made[n] + 1

\* What the administrator makes of the users, the grants, the legacy list; also
\* a root account's entry, and a grant without its list.
UsersEdits(list) == {[list EXCEPT ![n] = 0] : n \in Names}
                      \cup {[list EXCEPT ![n] = 1] : n \in RootNames}
SudoEdits(s) == {Grants([s.list EXCEPT ![n] = g], l) :
                    n \in Names, g \in {0} \cup {GrantedEntry(m) : m \in Names},
                    l \in {s.loose, {}} \cup {{n} : n \in Names}}
DaemonEdits(list) == {[list EXCEPT ![n] = g] : n \in Names, g \in {0, 1}}

\* The file is read into the copy.
ReadForEdit(p) ==
    /\ pc[p] = "edit"
    /\ job' = [job EXCEPT ![p].doc = ufile.list, ![p].leg = dfile.list, ![p].gdoc = sfile]
    /\ pc' = [pc EXCEPT ![p] = "editor"]
    /\ UNCHANGED <<files, cmds, daemon, history>>

\* Some time later the edited copy is validated: users by its own rules,
\* daemon.yaml also against the existence of users.yaml.
EditUsers(p) ==
    /\ pc[p] = "editor" /\ job[p].verb = "edit users"
    /\ \/ \E list \in UsersEdits(job[p].doc) \ {job[p].doc} :
              /\ ValidUsers(list)
              /\ job' = [job EXCEPT ![p].doc = list]
              /\ pc' = [pc EXCEPT ![p] = "rename"]
       \/ Exit(p)
    /\ UNCHANGED <<files, cmds, daemon, history>>

\* Mutant: daemon.yaml is validated without looking at users.yaml.
EditDaemonAlone(p) ==
    /\ pc[p] = "editor" /\ job[p].verb = "edit daemon"
    /\ \/ \E list \in DaemonEdits(job[p].leg) \ {job[p].leg} :
              /\ ValidUsers(list)
              /\ job' = [job EXCEPT ![p].leg = list]
              /\ pc' = [pc EXCEPT ![p] = "rename"]
       \/ Exit(p)
    /\ UNCHANGED <<files, cmds, daemon, history>>

EditDaemon(p) ==
    /\ pc[p] = "editor" /\ job[p].verb = "edit daemon"
    /\ \/ \E list \in DaemonEdits(job[p].leg) \ {job[p].leg} :
              /\ ValidUsers(list)
              /\ list # NoUsers => ufile.st = "missing"
              /\ job' = [job EXCEPT ![p].leg = list]
              /\ pc' = [pc EXCEPT ![p] = "rename"]
       \/ Exit(p)
    /\ UNCHANGED <<files, cmds, daemon, history>>

\* Grants may be given to anyone: a name that is not listed only causes a
\* warning.
EditSudo(p) ==
    /\ pc[p] = "editor" /\ job[p].verb = "edit sudo"
    /\ \/ \E s \in SudoEdits(job[p].gdoc) \ {job[p].gdoc} :
              /\ StrictGrants(s)
              /\ \A n \in Names : s.list[n] # job[p].gdoc.list[n] =>
                                     s.list[n] \in {0, GrantedEntry(n)}
              /\ job' = [job EXCEPT ![p].gdoc = s]
              /\ pc' = [pc EXCEPT ![p] = "rename"]
       \/ Exit(p)
    /\ UNCHANGED <<files, cmds, daemon, history>>

\* History: whom an edit of a list removed, or listed.
EditedByHand(old, list) ==
    /\ made' = Listed(list)
    /\ removed' = (removed \ Users(list)) \cup (Users(old) \ Users(list))
    /\ orphans' = orphans \cup (Users(old) \ Users(list))

\* os.Rename: the copy replaces the file in one step.
Rename(p) ==
    /\ pc[p] = "rename"
    /\ \/ /\ job[p].verb = "edit users"
          /\ ufile' = File(job[p].doc)
          /\ EditedByHand(ufile.list, job[p].doc)
          /\ UNCHANGED <<dfile, sfile>>
       \/ /\ job[p].verb = "edit daemon"
          /\ dfile' = File(job[p].leg)
          /\ EditedByHand(dfile.list, job[p].leg)
          /\ UNCHANGED <<ufile, sfile>>
       \/ /\ job[p].verb = "edit sudo"
          /\ sfile' = job[p].gdoc
          /\ orphans' = orphans \cup {n \in Names : /\ Chosen(dfile.list, ufile)[n] = 0
                                                   /\ job[p].gdoc.list[n] \notin {0, sfile.list[n]}}
          /\ UNCHANGED <<dfile, ufile, made, removed>>
    /\ Exit(p)
    /\ UNCHANGED <<cmds, daemon, overlap, broken, torn>>

-----------------------------------------------------------------------------
(* mcpd: reloadConfig and main read the three files one after the other.   *)

mem == <<up, mUsers, mGrants, mPath>>

\* The load is over, and with it what it has read.
LoadEnds == rl' = "idle" /\ rd' = NoUsers /\ ru' = NoUsers /\ rp' = "users" /\ rs' = NoGrants

ReadDaemonYaml ==
    /\ rl = "idle"
    /\ rl' = "daemon"
    /\ rd' = dfile.list
    /\ UNCHANGED <<files, pc, job, cmds, mem, ru, rp, rs, history>>

\* An error keeps the running config; at startup mcpd exits and systemd tries
\* again.
ReadUsersYaml ==
    /\ rl = "daemon"
    /\ IF Accepts(rd, ufile)
         THEN /\ rl' = "users"
              /\ ru' = Chosen(rd, ufile)
              /\ rp' = IF ufile.st = "missing" THEN "daemon" ELSE "users"
              /\ UNCHANGED <<rd, rs>>
         ELSE LoadEnds
    /\ UNCHANGED <<files, pc, job, cmds, mem, history>>

\* A reload is strict; main falls back to a lenient parse.
ReadSudoYaml ==
    /\ rl = "users"
    /\ IF up => StrictGrants(sfile)
         THEN rl' = "sudo" /\ rs' = sfile /\ UNCHANGED <<rd, ru, rp>>
         ELSE LoadEnds
    /\ UNCHANGED <<files, pc, job, cmds, mem, history>>

\* Under cfgMu, which checkAndPinUID holds while it saves a pin, users, grants
\* and usersPath change together.
Swap ==
    /\ rl = "sudo"
    /\ pc[Mcpd] = "idle"
    /\ up' = TRUE /\ mUsers' = ru /\ mGrants' = rs.list /\ mPath' = rp
    /\ LoadEnds
    /\ UNCHANGED <<files, pc, job, cmds, history>>

\* mcpd stops; systemd will start it (ReadDaemonYaml with up = FALSE). If it
\* was saving a pin, that died first.
Stop ==
    /\ up
    /\ pc[Mcpd] = "idle"
    /\ up' = FALSE
    /\ LoadEnds
    /\ UNCHANGED <<files, pc, job, cmds, mUsers, mGrants, mPath, history>>

-----------------------------------------------------------------------------
(* mcpd: checkAndPinUID saves a pin, or the UID a refused user has now.    *)

\* persistUIDPin finds the user in the file, and gives up otherwise.
PinnedIn(f, n) == f.st = "doc" /\ f.list[n] # 0

\* LoadDoc(usersPath), for a user the running config has; the entries stay as
\* they were read but for the user's UIDs.
PinLoad(p, n) ==
    /\ p = Mcpd
    /\ up
    /\ pc[p] = "idle"
    /\ mUsers[n] # 0
    /\ \/ /\ mPath = "users"
          /\ PinnedIn(ufile, n)
          /\ job' = [job EXCEPT ![p].verb = "pin", ![p].who = n, ![p].doc = ufile.list]
          /\ pc' = [pc EXCEPT ![p] = "trunc"]
       \/ /\ mPath = "daemon"
          /\ PinnedIn(dfile, n)
          /\ job' = [job EXCEPT ![p].verb = "pin", ![p].who = n, ![p].leg = dfile.list]
          /\ pc' = [pc EXCEPT ![p] = "ptrunc"]
    /\ overlap' = (overlap \/ \E q \in Procs : pc[q] # "idle")
    /\ UNCHANGED <<files, daemon, cmds, made, removed, orphans, broken, torn>>

\* SaveDoc of users.yaml is TruncateUsers and SaveUsers; this is SaveDoc of a
\* legacy daemon.yaml.
PinLegacy(p) ==
    /\ \/ /\ pc[p] = "ptrunc"
          /\ dfile' = Empty
          /\ pc' = [pc EXCEPT ![p] = "psave"]
          /\ UNCHANGED <<job, made, removed>>
       \/ /\ pc[p] = "psave"
          /\ dfile' = File(job[p].leg)
          /\ made' = Listed(job[p].leg)
          /\ removed' = removed \ Users(job[p].leg)
          /\ Exit(p)
    /\ UNCHANGED <<ufile, sfile, cmds, daemon, orphans, overlap, broken, torn>>

-----------------------------------------------------------------------------
Command(p) ==
    \/ \E v \in Commands, n \in Names : StartCommand(p, v, n)
    \/ UsersFileThere(p) \/ MigrateLoad(p) \/ MigrateCreate(p) \/ MigrateFill(p)
    \/ MigrateClear(p)
    \/ LoadUsersDoc(p) \/ TruncateUsers(p) \/ SaveUsers(p) \/ LoadSudoDoc(p) \/ SaveSudo(p)
    \/ ReadForEdit(p) \/ EditUsers(p) \/ EditDaemon(p) \/ EditSudo(p) \/ Rename(p)
    \/ (\E n \in Names : PinLoad(p, n)) \/ PinLegacy(p) \/ Die(p)

Next ==
    \/ \E p \in Procs : Command(p)
    \/ ReadDaemonYaml \/ ReadUsersYaml \/ ReadSudoYaml \/ Swap \/ Stop

Spec == Init /\ [][Next]_vars

-----------------------------------------------------------------------------
\* The type of the state.
TypeOK ==
    /\ dfile \in [st : {"empty", "doc"}, list : Lists]
    /\ ufile \in [st : {"missing", "empty", "doc"}, list : Lists]
    /\ sfile \in [st : {"empty", "doc"}, list : Lists, loose : SUBSET Names]
    /\ pc \in [Procs -> Pcs]
    /\ job \in [Procs -> [verb : Verbs \cup {None}, who : Names \cup {None},
                         doc : Lists, leg : Lists,
                         gdoc : [st : {"empty", "doc"}, list : Lists, loose : SUBSET Names]]]
    /\ up \in BOOLEAN /\ mUsers \in Lists /\ mGrants \in Lists /\ mPath \in {"users", "daemon"}
    /\ rl \in {"idle", "daemon", "users", "sudo"} /\ rd \in Lists /\ ru \in Lists
    /\ rp \in {"users", "daemon"}
    /\ rs \in [st : {"empty", "doc"}, list : Lists, loose : SUBSET Names]
    /\ cmds \in Nat /\ made \in Lists /\ removed \subseteq Names /\ orphans \subseteq Names
    /\ overlap \in BOOLEAN /\ broken \in BOOLEAN /\ torn \in BOOLEAN

\* A user is never lost: whoever was ever listed and was not removed by an
\* administrator is in daemon.yaml or in users.yaml at every moment, also when
\* a command - the migration included - dies anywhere. The exceptions are the
\* truncated file of a running or dead SaveDoc (yamledit.go:90), and writers
\* that overlap: usersFileFor, SaveDoc and persistUIDPin share no lock, so a
\* pin saved during a command writes back what it read before it.
UsersAreKept ==
    \A n \in Names :
        \/ made[n] = 0 \/ n \in removed
        \/ dfile.list[n] # 0 \/ ufile.list[n] # 0
        \/ torn \/ overlap \/ \E p \in Procs : pc[p] \in {"save", "psave"}

\* When no writer is at work, none has died and none overlapped another, the
\* directory loads: whatever sequence of create, delete, update, migration,
\* edits and pins led there, a reload is not refused - except for a grant made
\* with `create --grant` alone, see GrantIsInert. A pin saved to a legacy
\* daemon.yaml during the migration puts the list back: users in both files.
QuietDirLoads ==
    \/ overlap \/ broken \/ \E p \in Procs : pc[p] # "idle"
    \/ Accepts(dfile.list, ufile)

\* A user entry never comes with the grants of an earlier entry of that name,
\* in the running daemon, as long as writers neither overlapped nor died and
\* entries and grants went by `delete` and `create` rather than by hand: a
\* reload may fall anywhere into a delete or a create, and reads users before
\* grants.
NoInheritedGrants ==
    \/ overlap \/ broken
    \/ \A n \in Names \ orphans :
            mUsers[n] # 0 /\ mGrants[n] # 0 => mGrants[n] >= mUsers[n]

\* What mcpdCreateUser tells the administrator (mcpd_admin.go:342): "a recreated
\* user never inherits old grants". A delete that died after users.yaml, and a
\* reload inside the create that follows, give the new entry the old grants.
RecreatedNeverInherits ==
    \A n \in Names : mUsers[n] # 0 /\ mGrants[n] # 0 => mGrants[n] >= mUsers[n]

\* One command at a time would be enough, if the daemon wrote nothing: no user
\* lost, no list in both files. The daemon's own save of a pin, overlapping a
\* create or the migration, does either (see UsersAreKept and QuietDirLoads).
OneCommandKeeps ==
    cmds <= 1 /\ ~broken /\ (\A p \in Procs : pc[p] = "idle") =>
        /\ Accepts(dfile.list, ufile)
        /\ \A n \in Names : made[n] # 0 /\ n \notin removed =>
                dfile.list[n] # 0 \/ ufile.list[n] # 0

\* What mcpdCreateUser says of --grant for a tool that needs a list
\* (mcpd_admin.go:374): the grant "is inert". The strict reload refuses the whole
\* file instead, so no later change - a deletion or a rotation - is applied.
GrantIsInert ==
    \/ overlap \/ broken \/ \E p \in Procs : pc[p] # "idle"
    \/ Loadable
=============================================================================
