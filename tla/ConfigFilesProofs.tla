-------------------------- MODULE ConfigFilesProofs --------------------------
(***************************************************************************)
(* ConfigFiles, for any names, root accounts, number of linuxctl processes *)
(* and of commands, and the daemon's own saves of pins: no user is lost, a *)
(* quiet directory loads, and no entry gets the grants of an earlier one.  *)
(*                                                                         *)
(* None of the three is inductive.  What a command will write depends on   *)
(* what it read before, so the invariant says, for every stage of a        *)
(* command, how the copy in its memory relates to the files - as long as   *)
(* no other command runs beside it - and, for a reload under way, how what *)
(* it has read relates to what may still be written.  DirInv holds the     *)
(* part about files and commands; Kept, Split and GrantsFit, the last two  *)
(* only while no command died, build on it.                                *)
(***************************************************************************)
EXTENDS ConfigFiles, TLAPS

Edits == {"edit users", "edit sudo", "edit daemon"}

\* Which commands come to which stage, and which need users.yaml.
Stage(p) ==
    /\ pc[p] # "idle" => job[p].verb \in Verbs /\ job[p].who \in Names
    /\ pc[p] \in {"stat", "migrate", "fill", "clear", "cleared"} =>
          job[p].verb \notin {"edit sudo", "edit daemon"}
    /\ pc[p] \in {"load", "trunc", "save", "sudo", "strunc", "ssave"} => job[p].verb \notin Edits
    /\ pc[p] \in {"sudo", "strunc", "ssave"} => job[p].verb \notin {"update", "pin"}
    /\ pc[p] \in {"edit", "editor", "rename"} => job[p].verb \in Edits
    /\ /\ pc[p] \notin {"idle", "stat", "migrate", "ptrunc", "psave"}
       /\ job[p].verb \notin {"edit sudo", "edit daemon"}
       => ufile.st # "missing"
Stages == \A p \in Procs : Stage(p)

\* A file without a document lists nobody, and one left truncated was by a
\* writer that died.
Shapes ==
    /\ torn => broken
    /\ ufile.st # "doc" => ufile.list = NoUsers
    /\ dfile.st # "doc" => dfile.list = NoUsers

\* No list, on disk or in a command's memory, has a root account.
Valid ==
    /\ ValidUsers(dfile.list) /\ ValidUsers(ufile.list)
    /\ \A p \in Procs : ValidUsers(job[p].doc) /\ ValidUsers(job[p].leg)

\* made is the latest generation of a name; before users.yaml exists there is
\* only one, and a name was removed only by hand.
Generation(n) ==
    /\ dfile.list[n] <= made[n] /\ ufile.list[n] <= made[n]
    /\ rd[n] <= made[n] /\ ru[n] <= made[n]
    /\ ufile.st = "missing" => /\ made[n] <= 1
                               /\ n \in removed => n \in orphans
LegacyGeneration(p, n) ==
    /\ pc[p] \in {"migrate", "fill", "ptrunc", "psave"} => job[p].leg[n] <= made[n]
    /\ ufile.st = "missing" /\ pc[p] \in {"editor", "rename"} => job[p].leg[n] <= 1
Generations == \A n \in Names : Generation(n) /\ \A p \in Procs : LegacyGeneration(p, n)

\* Writers that do not overlap run one at a time ...
Alone == ~overlap => \A p, q \in Procs : pc[p] # "idle" /\ pc[q] # "idle" => p = q

\* ... and what one has in memory fits the files.
Carries(p) ==
    LET doc == job[p].doc
        leg == job[p].leg
        who == job[p].who
        del == job[p].verb = "delete"
    IN
    /\ pc[p] = "migrate" => ufile.st = "missing" /\ dfile.list = leg
    /\ pc[p] = "fill"    => ufile.list = NoUsers /\ dfile.list = leg
    /\ pc[p] = "clear"   => ufile.list = leg /\ dfile.list = leg
    /\ pc[p] = "cleared" => dfile.list = NoUsers
    /\ pc[p] = "trunc"   => /\ doc = Edited(ufile.list, job[p].verb, who)
                            /\ ~Refused(ufile.list, job[p].verb, who)
    /\ pc[p] = "save"    => ufile.list = NoUsers /\ (del => doc[who] = 0)
    /\ pc[p] = "sudo"    => ufile.list = doc /\ (del => doc[who] = 0)
    /\ pc[p] = "strunc"  => (del => ufile.list[who] = 0)
    /\ pc[p] = "editor"  => doc = ufile.list /\ leg = dfile.list /\ job[p].gdoc = sfile
    /\ pc[p] = "rename"  =>
          /\ job[p].verb = "edit users" => \A n \in Names : doc[n] \in {0, ufile.list[n]}
          /\ job[p].verb = "edit daemon" => leg = NoUsers \/ ufile.st = "missing"
          /\ job[p].verb = "edit sudo" => \A n \in Names :
                \/ job[p].gdoc.list[n] \in {0, sfile.list[n], Chosen(dfile.list, ufile)[n]}
                \/ Chosen(dfile.list, ufile)[n] = 0
    /\ pc[p] = "ptrunc"  => dfile.list = leg
    /\ pc[p] = "psave"   => dfile.list = NoUsers
Carried == ~overlap => \A p \in Procs : Carries(p)

\* Who was listed and not removed is in a file or about to be written.
Kept ==
    ~overlap /\ ~torn => \A n \in Names : made[n] # 0 /\ n \notin removed =>
        \/ dfile.list[n] # 0 \/ ufile.list[n] # 0
        \/ \E p \in Procs : \/ pc[p] = "save" /\ job[p].doc[n] # 0
                            \/ pc[p] = "psave" /\ job[p].leg[n] # 0

\* Only the migration has users in both files, and a pin goes to daemon.yaml
\* only before users.yaml exists.
Split ==
    ~overlap /\ ~broken /\ ufile.st # "missing" =>
        /\ dfile.list = NoUsers \/ \E p \in Procs : pc[p] \in {"fill", "clear"}
        /\ \A p \in Procs : pc[p] \notin {"ptrunc", "psave"}

\* The users list in effect, or the one a command is about to write.
Writing(p) ==
    IF pc[p] = "save" THEN job[p].doc
    ELSE IF pc[p] = "psave" THEN job[p].leg
    ELSE IF pc[p] = "fill" THEN dfile.list ELSE Chosen(dfile.list, ufile)

\* Grants are for the entry of that list, but for a delete under way, and what a
\* reload has read of the users is not newer than either.
Drops(p, n) ==
    job[p].verb = "delete" /\ job[p].who = n /\ pc[p] \in {"save", "sudo", "strunc"}
NotNewer(n, g) == g # 0 => (rl # "idle" => rd[n] <= g) /\ (rl = "users" => ru[n] <= g)
Fit(n, g) == sfile.list[n] \in {0, g} /\ NotNewer(n, g)
Fits(p, n) ==
    /\ sfile.list[n] \in {0, Writing(p)[n]} \/ Drops(p, n)
    /\ NotNewer(n, Writing(p)[n]) /\ NotNewer(n, sfile.list[n])
    /\ pc[p] \in {"strunc", "ssave"} => job[p].gdoc.list[n] \in {0, ufile.list[n]}

GrantsFit ==
    ~overlap /\ ~broken => \A n \in Names \ orphans :
        /\ \A p \in Procs : pc[p] # "idle" => Fits(p, n)
        /\ (\A p \in Procs : pc[p] = "idle") => Fit(n, Chosen(dfile.list, ufile)[n])

\* What a reload has read of both is a list and grants no older than it.
ReadFits ==
    ~overlap /\ ~broken => \A n \in Names \ orphans :
        rl = "sudo" /\ rs.list[n] # 0 => rs.list[n] >= ru[n]

DirInv == TypeOK /\ Stages /\ Shapes /\ Valid /\ Generations /\ Alone /\ Carried

-----------------------------------------------------------------------------
(* Types, with the sets of files and of jobs as wholes.                    *)

USE NamesAssumption
USE DEF files, daemon, history, mem

Copies == [st : {"empty", "doc"}, list : Lists, loose : SUBSET Names]
Jobs == [verb : Verbs \cup {None}, who : Names \cup {None}, doc : Lists, leg : Lists, gdoc : Copies]
UFiles == [st : {"missing", "empty", "doc"}, list : Lists]
DFiles == [st : {"empty", "doc"}, list : Lists]

\* The documents SaveDoc, MigrateLoad's create and os.Rename leave are files.
LEMMA FileTypes ==
    /\ \A l \in Lists : File(l) \in UFiles /\ File(l) \in DFiles
    /\ NoUsers \in Lists
    /\ Empty \in UFiles /\ Empty \in DFiles /\ Missing \in UFiles
    /\ \A l \in Lists, s \in SUBSET Names : Grants(l, s) \in Copies
    /\ NoGrants \in Copies
    /\ NoJob \in Jobs
<1>1. NoUsers \in Lists
  BY DEF NoUsers, Lists
<1> QED
  BY <1>1 DEF File, UFiles, DFiles, Empty, Missing, Grants, Copies, NoGrants, NoJob, Jobs

\* The fields of what a file or a job is.
LEMMA FieldTypes ==
    /\ \A f \in UFiles : f.st \in {"missing", "empty", "doc"} /\ f.list \in Lists
    /\ \A f \in DFiles : f.st \in {"empty", "doc"} /\ f.list \in Lists
    /\ \A f \in Copies : f.st \in {"empty", "doc"} /\ f.list \in Lists /\ f.loose \in SUBSET Names
    /\ \A j \in Jobs : /\ j.verb \in Verbs \cup {None} /\ j.who \in Names \cup {None}
                       /\ j.doc \in Lists /\ j.leg \in Lists /\ j.gdoc \in Copies
BY DEF UFiles, DFiles, Copies, Jobs

\* One entry of a list changed.
LEMMA ListTypes ==
    ASSUME NEW l \in Lists, NEW n \in Names, NEW g \in Nat
    PROVE  /\ [l EXCEPT ![n] = g] \in Lists
           /\ [l EXCEPT ![n] = g][n] = g
           /\ \A m \in Names : m # n => [l EXCEPT ![n] = g][m] = l[m]
           /\ l[n] \in Nat
BY DEF Lists

\* A process takes a step: the others keep their place and their job.
Others(p) == \A q \in Procs : q # p => pc'[q] = pc[q] /\ job'[q] = job[q]

\* A process goes on to stage s.
LEMMA StageStep ==
    ASSUME pc \in [Procs -> Pcs], NEW p \in Procs, NEW s \in Pcs, pc' = [pc EXCEPT ![p] = s]
    PROVE  /\ pc' \in [Procs -> Pcs] /\ pc'[p] = s
           /\ \A q \in Procs : q # p => pc'[q] = pc[q]
OBVIOUS

\* A process ends.
LEMMA ExitStep ==
    ASSUME pc \in [Procs -> Pcs], job \in [Procs -> Jobs], NEW p \in Procs, Exit(p)
    PROVE  /\ pc' \in [Procs -> Pcs] /\ job' \in [Procs -> Jobs]
           /\ pc'[p] = "idle" /\ job'[p] = NoJob /\ Others(p)
BY FileTypes DEF Exit, Pcs, Others

\* A process changes what it has in memory.
LEMMA VerbStep ==
    ASSUME job \in [Procs -> Jobs], NEW p \in Procs, NEW v \in Verbs, NEW n \in Names,
           job' = [job EXCEPT ![p].verb = v, ![p].who = n]
    PROVE  /\ job' \in [Procs -> Jobs]
           /\ job'[p].verb = v /\ job'[p].who = n
           /\ job'[p].doc = job[p].doc /\ job'[p].leg = job[p].leg /\ job'[p].gdoc = job[p].gdoc
           /\ \A q \in Procs : q # p => job'[q] = job[q]
BY DEF Jobs

\* It has the legacy list ...
LEMMA LegStep ==
    ASSUME job \in [Procs -> Jobs], NEW p \in Procs, NEW l \in Lists,
           job' = [job EXCEPT ![p].leg = l]
    PROVE  /\ job' \in [Procs -> Jobs]
           /\ job'[p].leg = l
           /\ job'[p].verb = job[p].verb /\ job'[p].who = job[p].who
           /\ job'[p].doc = job[p].doc /\ job'[p].gdoc = job[p].gdoc
           /\ \A q \in Procs : q # p => job'[q] = job[q]
BY DEF Jobs

\* ... an edited users list ...
LEMMA DocStep ==
    ASSUME job \in [Procs -> Jobs], NEW p \in Procs, NEW l \in Lists,
           job' = [job EXCEPT ![p].doc = l]
    PROVE  /\ job' \in [Procs -> Jobs]
           /\ job'[p].doc = l
           /\ job'[p].verb = job[p].verb /\ job'[p].who = job[p].who
           /\ job'[p].leg = job[p].leg /\ job'[p].gdoc = job[p].gdoc
           /\ \A q \in Procs : q # p => job'[q] = job[q]
BY DEF Jobs

\* ... edited grants ...
LEMMA GrantsStep ==
    ASSUME job \in [Procs -> Jobs], NEW p \in Procs, NEW s \in Copies,
           job' = [job EXCEPT ![p].gdoc = s]
    PROVE  /\ job' \in [Procs -> Jobs]
           /\ job'[p].gdoc = s
           /\ job'[p].verb = job[p].verb /\ job'[p].who = job[p].who
           /\ job'[p].doc = job[p].doc /\ job'[p].leg = job[p].leg
           /\ \A q \in Procs : q # p => job'[q] = job[q]
BY DEF Jobs

\* ... or copies of all three files.
LEMMA CopyStep ==
    ASSUME job \in [Procs -> Jobs], NEW p \in Procs, NEW d \in Lists, NEW l \in Lists, NEW s \in Copies,
           job' = [job EXCEPT ![p].doc = d, ![p].leg = l, ![p].gdoc = s]
    PROVE  /\ job' \in [Procs -> Jobs]
           /\ job'[p].doc = d /\ job'[p].leg = l /\ job'[p].gdoc = s
           /\ job'[p].verb = job[p].verb /\ job'[p].who = job[p].who
           /\ \A q \in Procs : q # p => job'[q] = job[q]
BY DEF Jobs

\* TypeOK in these terms ...
Typed ==
    /\ dfile \in DFiles /\ ufile \in UFiles /\ sfile \in Copies
    /\ pc \in [Procs -> Pcs] /\ job \in [Procs -> Jobs]
    /\ up \in BOOLEAN /\ mUsers \in Lists /\ mGrants \in Lists /\ mPath \in {"users", "daemon"}
    /\ rl \in {"idle", "daemon", "users", "sudo"} /\ rd \in Lists /\ ru \in Lists
    /\ rp \in {"users", "daemon"} /\ rs \in Copies
    /\ cmds \in Nat /\ made \in Lists /\ removed \subseteq Names /\ orphans \subseteq Names
    /\ overlap \in BOOLEAN /\ broken \in BOOLEAN /\ torn \in BOOLEAN

\* ... is TypeOK.
LEMMA TypedIsTypeOK == TypeOK <=> Typed
BY Zenon DEF TypeOK, Typed, DFiles, UFiles, Copies, Jobs

-----------------------------------------------------------------------------
(* Every step keeps the types.                                             *)

\* What a command makes of a users list is one, and so is the history of it.
LEMMA EditedTypes ==
    ASSUME made \in Lists, NEW l \in Lists
    PROVE  /\ \A v \in Verbs, n \in Names : Edited(l, v, n) \in Lists
           /\ Listed(l) \in Lists
           /\ UsersEdits(l) \subseteq Lists /\ DaemonEdits(l) \subseteq Lists
<1>1. \A v \in Verbs, n \in Names : Edited(l, v, n) \in Lists
  BY ListTypes, \A n \in Names : made[n] + 1 \in Nat DEF Edited, Lists
<1>2. Listed(l) \in Lists
  BY DEF Listed, Lists
<1>3. UsersEdits(l) \subseteq Lists /\ DaemonEdits(l) \subseteq Lists
  BY DEF UsersEdits, DaemonEdits, Lists
<1> QED
  BY <1>1, <1>2, <1>3

\* What the editor makes of the grants: one user's changed, any left loose.
LEMMA SudoEdit ==
    ASSUME NEW f, NEW s \in SudoEdits(f)
    PROVE  \E n \in Names, g \in {0} \cup {GrantedEntry(m) : m \in Names},
              l \in {f.loose, {}} \cup {{m} : m \in Names} :
                  s = Grants([f.list EXCEPT ![n] = g], l)
BY SMT DEF SudoEdits, Grants

\* The result is a grants document.
LEMMA SudoEditType ==
    ASSUME ufile \in UFiles, dfile \in DFiles, made \in Lists,
           NEW f \in Copies, NEW s \in SudoEdits(f)
    PROVE  s \in Copies
<1>1. PICK n \in Names, g \in {0} \cup {GrantedEntry(m) : m \in Names},
           l \in {f.loose, {}} \cup {{m} : m \in Names} :
               s = Grants([f.list EXCEPT ![n] = g], l)
  BY SudoEdit
<1>2. f.list \in Lists /\ f.loose \in SUBSET Names
  BY FieldTypes
<1>3. g \in Nat
  <2>1. \A m \in Names : ufile.list[m] \in Nat /\ dfile.list[m] \in Nat /\ made[m] \in Nat
    BY FieldTypes DEF Lists
  <2>2. \A m \in Names : Chosen(dfile.list, ufile)[m] \in Nat
    BY <2>1 DEF Chosen
  <2>3. \A m \in Names : GrantedEntry(m) \in Nat
    BY <2>1, <2>2 DEF GrantedEntry
  <2> QED
    BY <2>3
<1>4. l \in SUBSET Names
  BY <1>2
<1>5. [f.list EXCEPT ![n] = g] \in Lists
  BY <1>2, <1>3, ListTypes
<1> QED
  BY <1>1, <1>4, <1>5, FileTypes

\* Every step of a command keeps the types, and moves that command alone.
LEMMA CommandTypes ==
    ASSUME Typed, Stages, NEW p \in Procs, Command(p)
    PROVE  Typed' /\ Others(p)
<1> USE DEF Typed, Others
<1> DEFINE J == job[p]
<1>a. /\ J \in Jobs /\ J.doc \in Lists /\ J.leg \in Lists /\ J.gdoc \in Copies
      /\ J.gdoc.list \in Lists /\ J.gdoc.loose \in SUBSET Names
      /\ ufile.list \in Lists /\ dfile.list \in Lists /\ sfile.list \in Lists
      /\ sfile.loose \in SUBSET Names
  BY FieldTypes
<1>b. /\ Pcs = Pcs \cup {"idle", "stat", "migrate", "fill", "clear", "cleared", "load", "trunc", "save",
                        "sudo", "strunc", "ssave", "edit", "editor", "rename", "ptrunc", "psave"}
      /\ AfterUsersFile(p) \in Pcs
  BY DEF Pcs, AfterUsersFile
<1>c. pc[p] # "idle" => J.verb \in Verbs /\ J.who \in Names
  BY DEF Stages, Stage
<1> HIDE DEF J
<1>1. ASSUME NEW v \in Commands, NEW n \in Names, StartCommand(p, v, n)
      PROVE  Typed' /\ Others(p)
  <2>1. job' = [job EXCEPT ![p].verb = v, ![p].who = n] /\ v \in Verbs
    BY <1>1 DEF StartCommand, Verbs
  <2>2. PICK s \in Pcs : pc' = [pc EXCEPT ![p] = s]
    BY <1>1, <1>b DEF StartCommand
  <2>3. /\ pc' \in [Procs -> Pcs] /\ job' \in [Procs -> Jobs]
        /\ \A q \in Procs : q # p => pc'[q] = pc[q] /\ job'[q] = job[q]
    BY <2>1, <2>2, VerbStep, StageStep
  <2>4a. cmds' = cmds + 1
    BY <1>1, Zenon DEF StartCommand
  <2>4. cmds' \in Nat
    BY <2>4a
  <2>5. overlap' \in BOOLEAN
    BY <1>1, Zenon DEF StartCommand
  <2> QED
    BY <1>1, <2>3, <2>4, <2>5, Zenon DEF StartCommand
<1>2. CASE UsersFileThere(p)
  BY <1>2, <1>b, StageStep DEF UsersFileThere
<1>3. CASE MigrateLoad(p)
  <2>1. CASE Exit(p)
    BY <1>3, <2>1, ExitStep DEF MigrateLoad
  <2>2. CASE job' = [job EXCEPT ![p].leg = dfile.list] /\ pc' = [pc EXCEPT ![p] = "migrate"]
    BY <1>3, <1>a, <1>b, <2>2, LegStep, StageStep DEF MigrateLoad
  <2> QED
    BY <1>3, <2>1, <2>2 DEF MigrateLoad
<1>4. CASE MigrateCreate(p)
  BY <1>4, <1>b, StageStep, FileTypes DEF MigrateCreate
<1>5. CASE MigrateFill(p)
  <2>1. PICK s \in Pcs : pc' = [pc EXCEPT ![p] = s]
    BY <1>5, <1>b DEF MigrateFill
  <2> QED
    BY <1>5, <1>a, <2>1, StageStep, FileTypes DEF MigrateFill, J
<1>6. CASE MigrateClear(p)
  <2>1. PICK s \in Pcs : pc' = [pc EXCEPT ![p] = s]
    BY <1>6, <1>b DEF MigrateClear
  <2>2. dfile' \in DFiles
    BY <1>6, FileTypes DEF MigrateClear
  <2> QED
    BY <1>6, <2>1, <2>2, StageStep DEF MigrateClear
<1>7. CASE LoadUsersDoc(p)
  <2>1. CASE Exit(p)
    BY <1>7, <2>1, ExitStep DEF LoadUsersDoc
  <2>2. CASE /\ job' = [job EXCEPT ![p].doc = Edited(ufile.list, job[p].verb, job[p].who)]
             /\ pc' = [pc EXCEPT ![p] = "trunc"]
    <3>1. Edited(ufile.list, job[p].verb, job[p].who) \in Lists
      BY <1>7, <1>a, <1>c, EditedTypes DEF LoadUsersDoc, J
    <3> QED
      BY <1>7, <1>b, <2>2, <3>1, DocStep, StageStep DEF LoadUsersDoc
  <2> QED
    BY <1>7, <2>1, <2>2 DEF LoadUsersDoc
<1>8. CASE TruncateUsers(p)
  BY <1>8, <1>b, <1>c, StageStep, FileTypes DEF TruncateUsers, J
<1>9. CASE SaveUsers(p)
  <2>1. ufile' \in UFiles /\ made' \in Lists /\ removed' \subseteq Names
    BY <1>9, <1>a, FileTypes, EditedTypes DEF SaveUsers, J
  <2>2. CASE Exit(p)
    BY <1>9, <2>1, <2>2, ExitStep DEF SaveUsers
  <2>3. CASE pc' = [pc EXCEPT ![p] = "sudo"] /\ UNCHANGED job
    BY <1>9, <1>b, <2>1, <2>3, StageStep DEF SaveUsers
  <2> QED
    BY <1>9, <2>2, <2>3 DEF SaveUsers
<1>10. CASE LoadSudoDoc(p)
  <2>1. CASE Exit(p) /\ broken' = TRUE
    BY <1>10, <2>1, ExitStep DEF LoadSudoDoc
  <2>2. CASE sfile.st = "doc"
    <3> DEFINE g == IF job[p].verb = "delete" THEN 0 ELSE job[p].doc[job[p].who]
               l == IF job[p].verb = "create --grant" THEN sfile.loose \cup {job[p].who}
                                                      ELSE sfile.loose \ {job[p].who}
               s == Grants([sfile.list EXCEPT ![job[p].who] = g], l)
    <3>1. job[p].who \in Names /\ g \in Nat
      BY <1>10, <1>a, <1>c DEF LoadSudoDoc, J, Lists
    <3>2. l \in SUBSET Names
      BY <3>1, <1>a
    <3>3. [sfile.list EXCEPT ![job[p].who] = g] \in Lists
      BY <3>1, <1>a, ListTypes
    <3>4. s \in Copies
      BY <3>2, <3>3, FileTypes
    <3>5. job' = [job EXCEPT ![p].gdoc = s] /\ pc' = [pc EXCEPT ![p] = "strunc"] /\ UNCHANGED broken
      BY <1>10, <2>2 DEF LoadSudoDoc
    <3> HIDE DEF s
    <3> QED
      BY <1>10, <1>b, <3>4, <3>5, GrantsStep, StageStep DEF LoadSudoDoc
  <2> QED
    BY <1>10, <2>1, <2>2 DEF LoadSudoDoc
<1>11. CASE SaveSudo(p)
  <2>1. CASE sfile' = NoGrants /\ pc' = [pc EXCEPT ![p] = "ssave"] /\ UNCHANGED job
    BY <1>11, <1>b, <2>1, StageStep, FileTypes DEF SaveSudo
  <2>2. CASE sfile' = job[p].gdoc /\ Exit(p)
    BY <1>11, <1>a, <2>2, ExitStep DEF SaveSudo, J
  <2> QED
    BY <1>11, <2>1, <2>2 DEF SaveSudo
<1>12. CASE ReadForEdit(p)
  <2>1. pc' = [pc EXCEPT ![p] = "editor"] /\ "editor" \in Pcs
    BY <1>12, <1>b DEF ReadForEdit
  <2>2. job' = [job EXCEPT ![p].doc = ufile.list, ![p].leg = dfile.list, ![p].gdoc = sfile]
    BY <1>12 DEF ReadForEdit
  <2>3. job' \in [Procs -> Jobs] /\ \A q \in Procs : q # p => job'[q] = job[q]
    BY <1>a, <2>2, CopyStep
  <2>4. pc' \in [Procs -> Pcs] /\ \A q \in Procs : q # p => pc'[q] = pc[q]
    BY <2>1, StageStep
  <2> QED
    BY <1>12, <2>3, <2>4, Zenon DEF ReadForEdit
<1>13. CASE EditUsers(p)
  <2>1. CASE Exit(p)
    BY <1>13, <2>1, ExitStep DEF EditUsers
  <2>2. ASSUME NEW list \in UsersEdits(job[p].doc), job' = [job EXCEPT ![p].doc = list],
               pc' = [pc EXCEPT ![p] = "rename"]
        PROVE  Typed' /\ Others(p)
    <3>1. list \in Lists
      BY <1>a, EditedTypes DEF J
    <3> QED
      BY <1>13, <1>b, <2>2, <3>1, DocStep, StageStep DEF EditUsers
  <2> QED
    BY <1>13, <2>1, <2>2 DEF EditUsers
<1>14. CASE EditDaemon(p)
  <2>1. CASE Exit(p)
    BY <1>14, <2>1, ExitStep DEF EditDaemon
  <2>2. ASSUME NEW list \in DaemonEdits(job[p].leg), job' = [job EXCEPT ![p].leg = list],
               pc' = [pc EXCEPT ![p] = "rename"]
        PROVE  Typed' /\ Others(p)
    <3>1. list \in Lists
      BY <1>a, EditedTypes DEF J
    <3> QED
      BY <1>14, <1>b, <2>2, <3>1, LegStep, StageStep DEF EditDaemon
  <2> QED
    BY <1>14, <2>1, <2>2 DEF EditDaemon
<1>15. CASE EditSudo(p)
  <2>1. CASE Exit(p)
    BY <1>15, <2>1, ExitStep DEF EditSudo
  <2>2. ASSUME NEW s \in SudoEdits(job[p].gdoc), job' = [job EXCEPT ![p].gdoc = s],
               pc' = [pc EXCEPT ![p] = "rename"]
        PROVE  Typed' /\ Others(p)
    <3>5. s \in Copies
      BY <1>a, SudoEditType DEF J
    <3> QED
      BY <1>15, <1>b, <2>2, <3>5, GrantsStep, StageStep DEF EditSudo
  <2> QED
    BY <1>15, <2>1, <2>2 DEF EditSudo
<1>16. CASE Rename(p)
  <2>1. Exit(p)
    BY <1>16 DEF Rename
  <2>2. Listed(job[p].doc) \in Lists /\ Listed(job[p].leg) \in Lists
    BY <1>a, EditedTypes DEF J
  <2>3. /\ dfile' \in DFiles /\ ufile' \in UFiles /\ sfile' \in Copies
        /\ made' \in Lists /\ removed' \subseteq Names /\ orphans' \subseteq Names
    BY <1>16, <1>a, <2>2, FileTypes DEF Rename, EditedByHand, J, Users
  <2> QED
    BY <1>16, <2>1, <2>3, ExitStep DEF Rename
<1>17. CASE Die(p)
  <2>1. torn' \in BOOLEAN /\ broken' \in BOOLEAN
    BY <1>17 DEF Die
  <2> QED
    BY <1>17, <2>1, ExitStep DEF Die
<1>18. ASSUME NEW n \in Names, PinLoad(p, n)
       PROVE  Typed' /\ Others(p)
  <2>1. PICK s \in Pcs : pc' = [pc EXCEPT ![p] = s]
    BY <1>18, <1>b DEF PinLoad
  <2>2. "pin" \in Verbs /\ job \in [Procs -> Jobs]
    BY DEF Verbs
  <2>3. job' \in [Procs -> Jobs] /\ \A q \in Procs : q # p => job'[q] = job[q]
    <3>1. CASE job' = [job EXCEPT ![p].verb = "pin", ![p].who = n, ![p].doc = ufile.list]
      BY <1>a, <2>2, <3>1 DEF Jobs
    <3>2. CASE job' = [job EXCEPT ![p].verb = "pin", ![p].who = n, ![p].leg = dfile.list]
      BY <1>a, <2>2, <3>2 DEF Jobs
    <3> QED
      BY <1>18, <3>1, <3>2 DEF PinLoad
  <2>4. pc' \in [Procs -> Pcs] /\ \A q \in Procs : q # p => pc'[q] = pc[q]
    BY <2>1, StageStep
  <2>5. overlap' \in BOOLEAN
    BY <1>18, Zenon DEF PinLoad
  <2> QED
    BY <1>18, <2>3, <2>4, <2>5, Zenon DEF PinLoad
<1>19. CASE PinLegacy(p)
  <2>1. CASE dfile' = Empty /\ pc' = [pc EXCEPT ![p] = "psave"] /\ UNCHANGED <<job, made, removed>>
    BY <1>19, <1>b, <2>1, StageStep, FileTypes DEF PinLegacy
  <2>2. CASE /\ dfile' = File(job[p].leg) /\ made' = Listed(job[p].leg)
             /\ removed' = removed \ Users(job[p].leg) /\ Exit(p)
    <3>1. dfile' \in DFiles /\ made' \in Lists /\ removed' \subseteq Names
      BY <1>a, <2>2, FileTypes, EditedTypes DEF J
    <3> QED
      BY <1>19, <2>2, <3>1, ExitStep DEF PinLegacy
  <2> QED
    BY <1>19, <2>1, <2>2 DEF PinLegacy
<1> QED
  BY <1>1, <1>2, <1>3, <1>4, <1>5, <1>6, <1>7, <1>8, <1>9, <1>10, <1>11, <1>12, <1>13, <1>14,
     <1>15, <1>16, <1>17, <1>18, <1>19 DEF Command

\* The reads of the daemon keep the types.
LEMMA DaemonTypes ==
    ASSUME Typed, ReadDaemonYaml \/ ReadUsersYaml \/ ReadSudoYaml \/ Swap \/ Stop
    PROVE  Typed' /\ UNCHANGED <<files, pc, job, history>>
<1>1. ufile.list \in Lists /\ dfile.list \in Lists /\ sfile.list \in Lists
  BY FieldTypes DEF Typed
<1>2. CASE ReadDaemonYaml
  BY <1>1, <1>2 DEF ReadDaemonYaml, Typed
<1>3. CASE ReadUsersYaml
  BY <1>1, <1>3, FileTypes DEF ReadUsersYaml, LoadEnds, Typed, Chosen
<1>4. CASE ReadSudoYaml
  BY <1>4, FileTypes DEF ReadSudoYaml, LoadEnds, Typed
<1>5. CASE Swap
  <2>1. rs.list \in Lists
    BY FieldTypes DEF Typed
  <2> QED
    BY <1>5, <2>1, FileTypes DEF Swap, LoadEnds, Typed
<1>6. CASE Stop
  BY <1>6, FileTypes DEF Stop, LoadEnds, Typed
<1> QED
  BY <1>2, <1>3, <1>4, <1>5, <1>6

-----------------------------------------------------------------------------
(* What the steps do to the place and the memory of the process that takes *)
(* them, field by field.                                                   *)

Quiet(p) == pc'[p] = "idle" /\ job'[p] = NoJob
Same(p) == job'[p] = job[p]

\* handleMcpdAdmin: the command and its first stage.
LEMMA StartEffect ==
    ASSUME Typed, NEW p \in Procs, NEW v \in Commands, NEW n \in Names, StartCommand(p, v, n)
    PROVE  /\ pc[p] = "idle"
           /\ pc'[p] = IF v \in {"edit sudo", "edit daemon"} THEN "edit" ELSE "stat"
           /\ job'[p].verb = v /\ job'[p].who = n
           /\ job'[p].doc = job[p].doc /\ job'[p].leg = job[p].leg /\ job'[p].gdoc = job[p].gdoc
           /\ overlap' = (overlap \/ \E q \in Procs : pc[q] # "idle")
           /\ UNCHANGED <<dfile, ufile, sfile, daemon, made, removed, orphans, broken, torn>>
<1> USE DEF Typed
<1>1. job' = [job EXCEPT ![p].verb = v, ![p].who = n] /\ v \in Verbs
  BY DEF StartCommand, Verbs
<1>2. pc[p] = "idle" /\ pc'[p] = IF v \in {"edit sudo", "edit daemon"} THEN "edit" ELSE "stat"
  BY DEF StartCommand
<1>3. /\ job'[p].verb = v /\ job'[p].who = n
      /\ job'[p].doc = job[p].doc /\ job'[p].leg = job[p].leg /\ job'[p].gdoc = job[p].gdoc
  BY <1>1, job \in [Procs -> Jobs] DEF Jobs
<1> QED
  BY <1>2, <1>3, Zenon DEF StartCommand

\* persistUIDPin: the file that lists the user, in memory.
LEMMA PinLoadEffect ==
    ASSUME Typed, NEW p \in Procs, NEW n \in Names, PinLoad(p, n)
    PROVE  /\ pc[p] = "idle" /\ job'[p].verb = "pin" /\ job'[p].who = n
           /\ \/ /\ pc'[p] = "trunc" /\ ufile.st = "doc" /\ ufile.list[n] # 0
                 /\ job'[p].doc = ufile.list /\ job'[p].leg = job[p].leg
              \/ /\ pc'[p] = "ptrunc" /\ dfile.list[n] # 0
                 /\ job'[p].leg = dfile.list /\ job'[p].doc = job[p].doc
           /\ overlap' = (overlap \/ \E q \in Procs : pc[q] # "idle")
           /\ UNCHANGED <<dfile, ufile, sfile, daemon, made, removed, orphans, broken, torn>>
<1> USE DEF Typed
<1>1. ufile.list \in Lists /\ dfile.list \in Lists
  BY FieldTypes
<1>2. CASE /\ PinnedIn(ufile, n) /\ pc' = [pc EXCEPT ![p] = "trunc"]
           /\ job' = [job EXCEPT ![p].verb = "pin", ![p].who = n, ![p].doc = ufile.list]
  <2>1. /\ job'[p].verb = "pin" /\ job'[p].who = n
        /\ job'[p].doc = ufile.list /\ job'[p].leg = job[p].leg
    BY <1>1, <1>2, job \in [Procs -> Jobs] DEF Jobs
  <2>2. pc'[p] = "trunc" /\ ufile.st = "doc" /\ ufile.list[n] # 0
    BY <1>2 DEF PinnedIn
  <2> QED
    BY <2>1, <2>2, Zenon DEF PinLoad
<1>3. CASE /\ PinnedIn(dfile, n) /\ pc' = [pc EXCEPT ![p] = "ptrunc"]
           /\ job' = [job EXCEPT ![p].verb = "pin", ![p].who = n, ![p].leg = dfile.list]
  <2>1. /\ job'[p].verb = "pin" /\ job'[p].who = n
        /\ job'[p].leg = dfile.list /\ job'[p].doc = job[p].doc
    BY <1>1, <1>3, job \in [Procs -> Jobs] DEF Jobs
  <2>2. pc'[p] = "ptrunc" /\ dfile.list[n] # 0
    BY <1>3 DEF PinnedIn
  <2> QED
    BY <2>1, <2>2, Zenon DEF PinLoad
<1> QED
  BY <1>2, <1>3 DEF PinLoad

\* SaveDoc of a legacy daemon.yaml.
LEMMA PinLegacyEffect ==
    ASSUME Typed, NEW p \in Procs, PinLegacy(p)
    PROVE  /\ \/ /\ pc[p] = "ptrunc" /\ pc'[p] = "psave" /\ Same(p) /\ dfile' = Empty
                 /\ UNCHANGED <<made, removed>>
              \/ /\ pc[p] = "psave" /\ Quiet(p) /\ dfile' = File(job[p].leg)
                 /\ made' = Listed(job[p].leg) /\ removed' = removed \ Users(job[p].leg)
           /\ UNCHANGED <<ufile, sfile, daemon, orphans, overlap, broken, torn>>
<1>1. Exit(p) => Quiet(p)
  BY ExitStep DEF Quiet, Typed
<1> QED
  BY <1>1 DEF PinLegacy, Typed, Same

\* usersFileFor without users.yaml: the legacy list is in memory.
LEMMA MigrateLoadEffect ==
    ASSUME Typed, NEW p \in Procs, MigrateLoad(p)
    PROVE  /\ pc[p] = "stat" /\ ufile.st = "missing"
           /\ \/ Quiet(p)
              \/ /\ pc'[p] = "migrate" /\ job'[p].leg = dfile.list
                 /\ job'[p].verb = job[p].verb /\ job'[p].who = job[p].who /\ job'[p].doc = job[p].doc
           /\ UNCHANGED <<dfile, ufile, sfile, daemon, history>>
<1> USE DEF Typed
<1>1. CASE Exit(p)
  BY <1>1, ExitStep DEF MigrateLoad, Quiet
<1>2. CASE job' = [job EXCEPT ![p].leg = dfile.list] /\ pc' = [pc EXCEPT ![p] = "migrate"]
  <2>1. /\ job'[p].leg = dfile.list
        /\ job'[p].verb = job[p].verb /\ job'[p].who = job[p].who /\ job'[p].doc = job[p].doc
    BY <1>2, FieldTypes, LegStep
  <2>2. pc'[p] = "migrate"
    BY <1>2
  <2> QED
    BY <2>1, <2>2, Zenon DEF MigrateLoad
<1> QED
  BY <1>1, <1>2 DEF MigrateLoad

\* loadYAMLDoc of users.yaml, and what the command makes of it.
LEMMA LoadUsersEffect ==
    ASSUME Typed, Stages, NEW p \in Procs, LoadUsersDoc(p)
    PROVE  /\ pc[p] = "load"
           /\ \/ Quiet(p)
              \/ /\ ~Refused(ufile.list, job[p].verb, job[p].who)
                 /\ pc'[p] = "trunc"
                 /\ job'[p].doc = Edited(ufile.list, job[p].verb, job[p].who)
                 /\ job'[p].verb = job[p].verb /\ job'[p].who = job[p].who /\ job'[p].leg = job[p].leg
           /\ UNCHANGED <<dfile, ufile, sfile, daemon, history>>
<1> USE DEF Typed
<1>0. pc[p] = "load"
  BY DEF LoadUsersDoc
<1>1. CASE Exit(p)
  BY <1>1, ExitStep DEF LoadUsersDoc, Quiet
<1>2. CASE /\ ~(ufile.st # "doc" \/ Refused(ufile.list, job[p].verb, job[p].who))
           /\ job' = [job EXCEPT ![p].doc = Edited(ufile.list, job[p].verb, job[p].who)]
           /\ pc' = [pc EXCEPT ![p] = "trunc"]
  <2>1. Edited(ufile.list, job[p].verb, job[p].who) \in Lists
    BY <1>0, FieldTypes, EditedTypes DEF Stages, Stage
  <2>2. /\ job'[p].doc = Edited(ufile.list, job[p].verb, job[p].who)
        /\ job'[p].verb = job[p].verb /\ job'[p].who = job[p].who /\ job'[p].leg = job[p].leg
    BY <1>2, <2>1, DocStep
  <2>3. pc'[p] = "trunc"
    BY <1>2
  <2> QED
    BY <1>0, <1>2, <2>2, <2>3, Zenon DEF LoadUsersDoc
<1> QED
  BY <1>1, <1>2 DEF LoadUsersDoc

\* The sudo part: one block replaced or dropped.
LEMMA LoadSudoEffect ==
    ASSUME Typed, Stages, NEW p \in Procs, LoadSudoDoc(p)
    PROVE  /\ pc[p] = "sudo"
           /\ \/ Quiet(p) /\ broken'
              \/ /\ pc'[p] = "strunc" /\ broken' = broken
                 /\ \A n \in Names : job'[p].gdoc.list[n] =
                        IF n # job[p].who THEN sfile.list[n]
                        ELSE IF job[p].verb = "delete" THEN 0 ELSE job[p].doc[n]
                 /\ job'[p].verb = job[p].verb /\ job'[p].who = job[p].who
                 /\ job'[p].doc = job[p].doc /\ job'[p].leg = job[p].leg
           /\ UNCHANGED <<dfile, ufile, sfile, daemon, made, removed, orphans, overlap, torn>>
<1> USE DEF Typed
<1>0. pc[p] = "sudo" /\ UNCHANGED <<dfile, ufile, sfile, daemon, made, removed, orphans, overlap, torn>>
  BY DEF LoadSudoDoc
<1>1. CASE Exit(p) /\ broken' = TRUE
  BY <1>0, <1>1, ExitStep DEF Quiet
<1>2. CASE sfile.st = "doc"
  <2> DEFINE n == job[p].who
             g == IF job[p].verb = "delete" THEN 0 ELSE job[p].doc[n]
             l == IF job[p].verb = "create --grant" THEN sfile.loose \cup {n} ELSE sfile.loose \ {n}
             s == Grants([sfile.list EXCEPT ![n] = g], l)
  <2>1. /\ n \in Names /\ job[p].doc \in Lists /\ sfile.list \in Lists
        /\ sfile.loose \in SUBSET Names
    BY <1>0, FieldTypes DEF Stages, Stage
  <2>2. g \in Nat
    BY <2>1 DEF Lists
  <2>3. l \in SUBSET Names
    BY <2>1
  <2>4. s \in Copies /\ s.list = [sfile.list EXCEPT ![n] = g]
    BY <2>1, <2>2, <2>3, ListTypes, FileTypes DEF Grants
  <2>5. job' = [job EXCEPT ![p].gdoc = s] /\ pc' = [pc EXCEPT ![p] = "strunc"] /\ UNCHANGED broken
    BY <1>2 DEF LoadSudoDoc
  <2>6. \A m \in Names : s.list[m] = IF m # n THEN sfile.list[m] ELSE g
    <3> HIDE DEF s, g, n
    <3>1. /\ [sfile.list EXCEPT ![n] = g][n] = g
          /\ \A m \in Names : m # n => [sfile.list EXCEPT ![n] = g][m] = sfile.list[m]
      BY <2>1, <2>2 DEF Lists
    <3> QED
      BY <2>4, <3>1
  <2> HIDE DEF s, l, g
  <2>7. /\ job'[p].gdoc = s
        /\ job'[p].verb = job[p].verb /\ job'[p].who = job[p].who
        /\ job'[p].doc = job[p].doc /\ job'[p].leg = job[p].leg
    BY <2>4, <2>5, GrantsStep
  <2>8. pc'[p] = "strunc"
    BY <2>5
  <2> QED
    BY <1>0, <2>5, <2>6, <2>7, <2>8, Zenon DEF g, n
<1> QED
  BY <1>1, <1>2 DEF LoadSudoDoc

\* The copies the editor starts from.
LEMMA ReadForEditEffect ==
    ASSUME Typed, NEW p \in Procs, ReadForEdit(p)
    PROVE  /\ pc[p] = "edit" /\ pc'[p] = "editor"
           /\ job'[p].doc = ufile.list /\ job'[p].leg = dfile.list /\ job'[p].gdoc = sfile
           /\ job'[p].verb = job[p].verb /\ job'[p].who = job[p].who
           /\ UNCHANGED <<dfile, ufile, sfile, daemon, history>>
<1> USE DEF Typed
<1>1. pc[p] = "edit" /\ pc'[p] = "editor" /\ UNCHANGED <<dfile, ufile, sfile, daemon, history>>
  BY DEF ReadForEdit
<1>2. job' = [job EXCEPT ![p].doc = ufile.list, ![p].leg = dfile.list, ![p].gdoc = sfile]
  BY DEF ReadForEdit
<1>3. /\ job'[p].doc = ufile.list /\ job'[p].leg = dfile.list /\ job'[p].gdoc = sfile
      /\ job'[p].verb = job[p].verb /\ job'[p].who = job[p].who
  <2>1. ufile.list \in Lists /\ dfile.list \in Lists /\ sfile \in Copies
    BY FieldTypes
  <2> QED
    BY <1>2, <2>1, job \in [Procs -> Jobs] DEF Jobs
<1> QED
  BY <1>1, <1>3

\* The editor has left a valid users list, or the edit ended.
LEMMA EditUsersEffect ==
    ASSUME Typed, NEW p \in Procs, EditUsers(p)
    PROVE  /\ pc[p] = "editor" /\ job[p].verb = "edit users"
           /\ \/ Quiet(p)
              \/ /\ pc'[p] = "rename" /\ ValidUsers(job'[p].doc)
                 /\ job'[p].doc \in UsersEdits(job[p].doc)
                 /\ job'[p].verb = job[p].verb /\ job'[p].who = job[p].who /\ job'[p].leg = job[p].leg
           /\ UNCHANGED <<dfile, ufile, sfile, daemon, history>>
<1> USE DEF Typed
<1>1. /\ pc[p] = "editor" /\ job[p].verb = "edit users"
      /\ UNCHANGED <<dfile, ufile, sfile, daemon, history>>
  BY DEF EditUsers
<1>2. CASE Exit(p)
  BY <1>1, <1>2, ExitStep DEF Quiet
<1>3. ASSUME NEW list \in UsersEdits(job[p].doc), ValidUsers(list),
             job' = [job EXCEPT ![p].doc = list], pc' = [pc EXCEPT ![p] = "rename"]
      PROVE  /\ pc'[p] = "rename" /\ job'[p].doc = list
             /\ job'[p].verb = job[p].verb /\ job'[p].who = job[p].who /\ job'[p].leg = job[p].leg
  <2>1. list \in Lists
    BY FieldTypes, EditedTypes
  <2> QED
    BY <1>3, <2>1, DocStep
<1> QED
  BY <1>1, <1>2, <1>3 DEF EditUsers

\* The same for daemon.yaml, against users.yaml as it is now.
LEMMA EditDaemonEffect ==
    ASSUME Typed, NEW p \in Procs, EditDaemon(p)
    PROVE  /\ pc[p] = "editor" /\ job[p].verb = "edit daemon"
           /\ \/ Quiet(p)
              \/ /\ pc'[p] = "rename" /\ ValidUsers(job'[p].leg)
                 /\ job'[p].leg \in DaemonEdits(job[p].leg)
                 /\ job'[p].leg # NoUsers => ufile.st = "missing"
                 /\ job'[p].verb = job[p].verb /\ job'[p].who = job[p].who /\ job'[p].doc = job[p].doc
           /\ UNCHANGED <<dfile, ufile, sfile, daemon, history>>
<1> USE DEF Typed
<1>1. /\ pc[p] = "editor" /\ job[p].verb = "edit daemon"
      /\ UNCHANGED <<dfile, ufile, sfile, daemon, history>>
  BY DEF EditDaemon
<1>2. CASE Exit(p)
  BY <1>1, <1>2, ExitStep DEF Quiet
<1>3. ASSUME NEW list \in DaemonEdits(job[p].leg), ValidUsers(list),
             job' = [job EXCEPT ![p].leg = list], pc' = [pc EXCEPT ![p] = "rename"]
      PROVE  /\ pc'[p] = "rename" /\ job'[p].leg = list
             /\ job'[p].verb = job[p].verb /\ job'[p].who = job[p].who /\ job'[p].doc = job[p].doc
  <2>1. list \in Lists
    BY FieldTypes, EditedTypes
  <2> QED
    BY <1>3, <2>1, LegStep
<1> QED
  BY <1>1, <1>2, <1>3 DEF EditDaemon

\* The same for mcp-sudo.yaml: grants for an entry that is or may be listed.
LEMMA EditSudoEffect ==
    ASSUME Typed, NEW p \in Procs, EditSudo(p)
    PROVE  /\ pc[p] = "editor" /\ job[p].verb = "edit sudo"
           /\ \/ Quiet(p)
              \/ /\ pc'[p] = "rename"
                 /\ \A n \in Names : job'[p].gdoc.list[n] \in
                        {0, job[p].gdoc.list[n], GrantedEntry(n)}
                 /\ job'[p].verb = job[p].verb /\ job'[p].who = job[p].who
                 /\ job'[p].doc = job[p].doc /\ job'[p].leg = job[p].leg
           /\ UNCHANGED <<dfile, ufile, sfile, daemon, history>>
<1> USE DEF Typed
<1>1. /\ pc[p] = "editor" /\ job[p].verb = "edit sudo"
      /\ UNCHANGED <<dfile, ufile, sfile, daemon, history>>
  BY DEF EditSudo
<1>2. CASE Exit(p)
  BY <1>1, <1>2, ExitStep DEF Quiet
<1>3. ASSUME NEW s \in SudoEdits(job[p].gdoc),
             \A n \in Names : s.list[n] # job[p].gdoc.list[n] =>
                                 s.list[n] \in {0, GrantedEntry(n)},
             job' = [job EXCEPT ![p].gdoc = s], pc' = [pc EXCEPT ![p] = "rename"]
      PROVE  /\ pc'[p] = "rename"
             /\ \A n \in Names : job'[p].gdoc.list[n] \in
                    {0, job[p].gdoc.list[n], GrantedEntry(n)}
             /\ job'[p].verb = job[p].verb /\ job'[p].who = job[p].who
             /\ job'[p].doc = job[p].doc /\ job'[p].leg = job[p].leg
  <2>1. s \in Copies
    BY SudoEditType, FieldTypes
  <2>2. /\ job'[p].gdoc = s
        /\ job'[p].verb = job[p].verb /\ job'[p].who = job[p].who
        /\ job'[p].doc = job[p].doc /\ job'[p].leg = job[p].leg
    BY <1>3, <2>1, GrantsStep
  <2>3. pc'[p] = "rename"
    BY <1>3
  <2> QED
    BY <1>3, <2>2, <2>3, Zenon
<1> QED
  BY <1>1, <1>2, <1>3 DEF EditSudo

\* usersFileFor with users.yaml there.
LEMMA UsersFileThereEffect ==
    ASSUME Typed, NEW p \in Procs, UsersFileThere(p)
    PROVE  /\ pc[p] = "stat" /\ ufile.st # "missing" /\ pc'[p] = AfterUsersFile(p) /\ Same(p)
           /\ UNCHANGED <<dfile, ufile, sfile, daemon, history>>
BY DEF UsersFileThere, Typed, Same

\* The empty users.yaml of the migration.
LEMMA MigrateCreateEffect ==
    ASSUME Typed, NEW p \in Procs, MigrateCreate(p)
    PROVE  /\ pc[p] = "migrate" /\ pc'[p] = "fill" /\ Same(p)
           /\ ufile' = Empty
           /\ UNCHANGED <<dfile, sfile, daemon, history>>
BY DEF MigrateCreate, Typed, Same

\* Filled with the legacy list.
LEMMA MigrateFillEffect ==
    ASSUME Typed, NEW p \in Procs, MigrateFill(p)
    PROVE  /\ pc[p] = "fill" /\ Same(p)
           /\ pc'[p] = IF job[p].leg # NoUsers THEN "clear" ELSE AfterUsersFile(p)
           /\ ufile' = File(job[p].leg)
           /\ UNCHANGED <<dfile, sfile, daemon, history>>
BY DEF MigrateFill, Typed, Same

\* The legacy list is taken out of daemon.yaml.
LEMMA MigrateClearEffect ==
    ASSUME Typed, NEW p \in Procs, MigrateClear(p)
    PROVE  /\ \/ pc[p] = "clear" /\ pc'[p] = "cleared" /\ dfile' = Empty
              \/ pc[p] = "cleared" /\ pc'[p] = AfterUsersFile(p) /\ dfile' = File(NoUsers)
           /\ Same(p)
           /\ UNCHANGED <<ufile, sfile, daemon, history>>
BY DEF MigrateClear, Typed, Same

\* SaveDoc of users.yaml, truncated ...
LEMMA TruncateEffect ==
    ASSUME Typed, NEW p \in Procs, TruncateUsers(p)
    PROVE  /\ pc[p] = "trunc" /\ pc'[p] = "save" /\ Same(p)
           /\ ufile' = Empty
           /\ removed' = IF job[p].verb = "delete" THEN removed \cup {job[p].who} ELSE removed
           /\ UNCHANGED <<dfile, sfile, daemon, made, orphans, overlap, broken, torn>>
BY DEF TruncateUsers, Typed, Same

\* ... and written.
LEMMA SaveUsersEffect ==
    ASSUME Typed, NEW p \in Procs, SaveUsers(p)
    PROVE  /\ pc[p] = "save"
           /\ \/ Quiet(p) /\ job[p].verb \in {"update", "pin"}
              \/ pc'[p] = "sudo" /\ Same(p) /\ job[p].verb \notin {"update", "pin"}
           /\ ufile' = File(job[p].doc)
           /\ made' = Listed(job[p].doc) /\ removed' = removed \ Users(job[p].doc)
           /\ UNCHANGED <<dfile, sfile, daemon, orphans, overlap, broken, torn>>
<1>1. Exit(p) => Quiet(p)
  BY ExitStep DEF Quiet, Typed
<1> QED
  BY <1>1 DEF SaveUsers, Typed, Same

\* SaveDoc of mcp-sudo.yaml.
LEMMA SaveSudoEffect ==
    ASSUME Typed, NEW p \in Procs, SaveSudo(p)
    PROVE  /\ \/ pc[p] = "strunc" /\ pc'[p] = "ssave" /\ Same(p) /\ sfile' = NoGrants
              \/ pc[p] = "ssave" /\ Quiet(p) /\ sfile' = job[p].gdoc
           /\ UNCHANGED <<dfile, ufile, daemon, history>>
<1>1. Exit(p) => Quiet(p)
  BY ExitStep DEF Quiet, Typed
<1> QED
  BY <1>1 DEF SaveSudo, Typed, Same

\* os.Rename: one file replaced in one step.
LEMMA RenameEffect ==
    ASSUME Typed, NEW p \in Procs, Rename(p)
    PROVE  /\ pc[p] = "rename" /\ Quiet(p)
           /\ \/ /\ job[p].verb = "edit users" /\ ufile' = File(job[p].doc)
                 /\ EditedByHand(ufile.list, job[p].doc)
                 /\ UNCHANGED <<dfile, sfile>>
              \/ /\ job[p].verb = "edit daemon" /\ dfile' = File(job[p].leg)
                 /\ EditedByHand(dfile.list, job[p].leg)
                 /\ UNCHANGED <<ufile, sfile>>
              \/ /\ job[p].verb = "edit sudo" /\ sfile' = job[p].gdoc
                 /\ orphans' = orphans \cup
                        {n \in Names : /\ Chosen(dfile.list, ufile)[n] = 0
                                       /\ job[p].gdoc.list[n] \notin {0, sfile.list[n]}}
                 /\ UNCHANGED <<dfile, ufile, made, removed>>
           /\ UNCHANGED <<daemon, overlap, broken, torn>>
<1>1. Exit(p) => Quiet(p)
  BY ExitStep DEF Quiet, Typed
<1> QED
  BY <1>1, Zenon DEF Rename

\* A process dies.
LEMMA DieEffect ==
    ASSUME Typed, NEW p \in Procs, Die(p)
    PROVE  /\ pc[p] # "idle" /\ Quiet(p)
           /\ broken' /\ torn' = (torn \/ pc[p] \in {"save", "psave"})
           /\ UNCHANGED <<dfile, ufile, sfile, daemon, made, removed, orphans, overlap>>
<1>1. Exit(p) => Quiet(p)
  BY ExitStep DEF Quiet, Typed
<1> QED
  BY <1>1, Zenon DEF Die

-----------------------------------------------------------------------------
(* The stages of a command.                                                *)

\* A command comes to a stage only on the way the code takes, and users.yaml,
\* once there, stays.
LEMMA StagesStep ==
    ASSUME Typed, Stages, NEW p \in Procs, Command(p)
    PROVE  Stages' /\ (ufile'.st = "missing" => ufile.st = "missing")
<1> DEFINE Goal == Stage(p)' /\ (ufile'.st = "missing" => ufile.st = "missing")
<1>0. SUFFICES Goal
  <2>1. \A q \in Procs : q # p => pc'[q] = pc[q] /\ job'[q] = job[q]
    BY CommandTypes DEF Others
  <2> QED
    BY <2>1 DEF Stages, Stage
<1>a. Stage(p)
  BY DEF Stages
<1>b. /\ Empty.st = "empty" /\ \A l : File(l).st = "doc"
  BY DEF Empty, File
<1> USE DEF Stage, Same, Quiet, AfterUsersFile, Edits, Verbs, Commands
<1>1. ASSUME NEW v \in Commands, NEW n \in Names, StartCommand(p, v, n)
      PROVE  Goal
  <2>1. /\ pc'[p] = IF v \in {"edit sudo", "edit daemon"} THEN "edit" ELSE "stat"
        /\ job'[p].verb = v /\ job'[p].who = n /\ ufile' = ufile
    BY <1>1, StartEffect
  <2> QED
    BY <2>1
<1>2. CASE UsersFileThere(p)
  BY <1>2, UsersFileThereEffect, <1>a, <1>b
<1>3. CASE MigrateLoad(p)
  BY <1>3, MigrateLoadEffect, <1>a, <1>b
<1>4. CASE MigrateCreate(p)
  BY <1>4, MigrateCreateEffect, <1>a, <1>b
<1>5. CASE MigrateFill(p)
  <2>1. /\ pc[p] = "fill" /\ job'[p] = job[p] /\ ufile'.st # "missing"
        /\ pc'[p] \in {"clear", "edit", "load"}
        /\ pc'[p] # "clear" => pc'[p] = AfterUsersFile(p)
    BY <1>5, <1>b, MigrateFillEffect
  <2> QED
    BY <1>a, <2>1
<1>6. CASE MigrateClear(p)
  BY <1>6, MigrateClearEffect, <1>a, <1>b
<1>7. CASE LoadUsersDoc(p)
  BY <1>7, LoadUsersEffect, <1>a, <1>b
<1>8. CASE TruncateUsers(p)
  BY <1>8, TruncateEffect, <1>a, <1>b
<1>9. CASE SaveUsers(p)
  BY <1>9, SaveUsersEffect, <1>a, <1>b
<1>10. CASE LoadSudoDoc(p)
  BY <1>10, LoadSudoEffect, <1>a, <1>b
<1>11. CASE SaveSudo(p)
  BY <1>11, SaveSudoEffect, <1>a, <1>b
<1>12. CASE ReadForEdit(p)
  BY <1>12, ReadForEditEffect, <1>a, <1>b
<1>13. CASE EditUsers(p)
  BY <1>13, EditUsersEffect, <1>a, <1>b
<1>14. CASE EditDaemon(p)
  BY <1>14, EditDaemonEffect, <1>a, <1>b
<1>15. CASE EditSudo(p)
  BY <1>15, EditSudoEffect, <1>a, <1>b
<1>16. CASE Rename(p)
  BY <1>16, RenameEffect, <1>a, <1>b
<1>17. CASE Die(p)
  BY <1>17, DieEffect, <1>a, <1>b
<1>18. ASSUME NEW n \in Names, PinLoad(p, n)
       PROVE  Goal
  <2>1. /\ pc'[p] \in {"trunc", "ptrunc"} /\ job'[p].verb = "pin" /\ job'[p].who = n /\ ufile' = ufile
        /\ pc'[p] = "trunc" => ufile.st = "doc"
    BY <1>18, PinLoadEffect
  <2> QED
    BY <2>1
<1>19. CASE PinLegacy(p)
  BY <1>19, PinLegacyEffect, <1>a, <1>b
<1> QED
  BY <1>1, <1>2, <1>3, <1>4, <1>5, <1>6, <1>7, <1>8, <1>9, <1>10, <1>11, <1>12, <1>13,
     <1>14, <1>15, <1>16, <1>17, <1>18, <1>19 DEF Command

-----------------------------------------------------------------------------
(* What the files hold, whoever runs beside whom.                          *)

\* The lists in the documents.
LEMMA Contents ==
    /\ Empty.list = NoUsers /\ Empty.st = "empty"
    /\ \A l : File(l).list = l /\ File(l).st = "doc"
    /\ NoGrants.list = NoUsers
    /\ NoJob.doc = NoUsers /\ NoJob.leg = NoUsers /\ NoJob.gdoc = NoGrants
    /\ NoJob.verb = None /\ NoJob.who = None
    /\ \A n \in Names : NoUsers[n] = 0
BY DEF Empty, File, NoGrants, NoJob, NoUsers

\* A document is written whole: a truncated or missing file lists nobody.
LEMMA ShapesStep ==
    ASSUME Typed, Stages, Shapes, NEW p \in Procs, Command(p)
    PROVE  Shapes'
<1> USE DEF Shapes
<1>1. ASSUME NEW v \in Commands, NEW n \in Names, StartCommand(p, v, n)
      PROVE  Shapes'
  BY <1>1, StartEffect, Contents
<1>2. CASE UsersFileThere(p)
  BY <1>2, UsersFileThereEffect, Contents
<1>3. CASE MigrateLoad(p)
  BY <1>3, MigrateLoadEffect, Contents
<1>4. CASE MigrateCreate(p)
  BY <1>4, MigrateCreateEffect, Contents
<1>5. CASE MigrateFill(p)
  BY <1>5, MigrateFillEffect, Contents
<1>6. CASE MigrateClear(p)
  BY <1>6, MigrateClearEffect, Contents
<1>7. CASE LoadUsersDoc(p)
  BY <1>7, LoadUsersEffect, Contents
<1>8. CASE TruncateUsers(p)
  BY <1>8, TruncateEffect, Contents
<1>9. CASE SaveUsers(p)
  BY <1>9, SaveUsersEffect, Contents
<1>10. CASE LoadSudoDoc(p)
  BY <1>10, LoadSudoEffect, Contents
<1>11. CASE SaveSudo(p)
  BY <1>11, SaveSudoEffect, Contents
<1>12. CASE ReadForEdit(p)
  BY <1>12, ReadForEditEffect, Contents
<1>13. CASE EditUsers(p)
  BY <1>13, EditUsersEffect, Contents
<1>14. CASE EditDaemon(p)
  BY <1>14, EditDaemonEffect, Contents
<1>15. CASE EditSudo(p)
  BY <1>15, EditSudoEffect, Contents
<1>16. CASE Rename(p)
  <2>1. /\ ufile' = ufile \/ ufile' = File(job[p].doc)
        /\ dfile' = dfile \/ dfile' = File(job[p].leg)
        /\ UNCHANGED <<broken, torn>>
    BY <1>16, RenameEffect
  <2> QED
    BY <2>1, Contents
<1>17. CASE Die(p)
  BY <1>17, DieEffect, Contents
<1>18. ASSUME NEW n \in Names, PinLoad(p, n)
       PROVE  Shapes'
  BY <1>18, PinLoadEffect, Contents
<1>19. CASE PinLegacy(p)
  BY <1>19, PinLegacyEffect, Contents
<1> QED
  BY <1>1, <1>2, <1>3, <1>4, <1>5, <1>6, <1>7, <1>8, <1>9, <1>10, <1>11, <1>12, <1>13,
     <1>14, <1>15, <1>16, <1>17, <1>18, <1>19 DEF Command

\* Nobody is not a root account, and the commands' checks keep one out.
LEMMA ValidEdits ==
    ASSUME made \in Lists
    PROVE  /\ ValidUsers(NoUsers)
           /\ \A l \in Lists, v \in Verbs, n \in Names :
                  ValidUsers(l) /\ ~Refused(l, v, n) => ValidUsers(Edited(l, v, n))
<1>1. ValidUsers(NoUsers)
  BY DEF ValidUsers, Users, NoUsers
<1>2. ASSUME NEW l \in Lists, NEW v \in Verbs, NEW n \in Names, ValidUsers(l), ~Refused(l, v, n)
      PROVE  ValidUsers(Edited(l, v, n))
  <2>1. \A m \in RootNames : l[m] = 0
    BY <1>2 DEF ValidUsers, Users
  <2>2. \A m \in RootNames : Edited(l, v, n)[m] = 0
    BY <1>2, <2>1 DEF Edited, Refused, Lists
  <2> QED
    BY <2>2 DEF ValidUsers, Users
<1> QED
  BY <1>1, <1>2

\* No command puts a root account into a list, in memory or on disk.
LEMMA ValidStep ==
    ASSUME Typed, Stages, Valid, NEW p \in Procs, Command(p)
    PROVE  Valid'
<1> DEFINE Goal == /\ ValidUsers(dfile'.list) /\ ValidUsers(ufile'.list)
                   /\ ValidUsers(job'[p].doc) /\ ValidUsers(job'[p].leg)
<1>0. SUFFICES Goal
  <2>1. \A q \in Procs : q # p => job'[q] = job[q]
    BY CommandTypes DEF Others
  <2> QED
    BY <2>1 DEF Valid, ValidUsers, Users
<1>a. /\ ValidUsers(dfile.list) /\ ValidUsers(ufile.list)
      /\ ValidUsers(job[p].doc) /\ ValidUsers(job[p].leg)
  BY DEF Valid
<1>b. ValidUsers(NoUsers)
  BY ValidEdits DEF Typed
<1> USE DEF Quiet, Same
<1>1. ASSUME NEW v \in Commands, NEW n \in Names, StartCommand(p, v, n)
      PROVE  Goal
  BY <1>1, StartEffect, <1>a, <1>b, Contents
<1>2. CASE UsersFileThere(p)
  BY <1>2, UsersFileThereEffect, <1>a, <1>b, Contents
<1>3. CASE MigrateLoad(p)
  BY <1>3, MigrateLoadEffect, <1>a, <1>b, Contents
<1>4. CASE MigrateCreate(p)
  BY <1>4, MigrateCreateEffect, <1>a, <1>b, Contents
<1>5. CASE MigrateFill(p)
  BY <1>5, MigrateFillEffect, <1>a, <1>b, Contents
<1>6. CASE MigrateClear(p)
  BY <1>6, MigrateClearEffect, <1>a, <1>b, Contents
<1>7. CASE LoadUsersDoc(p)
  <2>1. job[p].verb \in Verbs /\ job[p].who \in Names /\ ufile.list \in Lists /\ made \in Lists
    BY <1>7, LoadUsersEffect, FieldTypes DEF Stages, Stage, Typed
  <2>2. ~Refused(ufile.list, job[p].verb, job[p].who) =>
            ValidUsers(Edited(ufile.list, job[p].verb, job[p].who))
    BY <1>a, <2>1, ValidEdits
  <2> QED
    BY <1>7, LoadUsersEffect, <1>a, <1>b, <2>2, Contents
<1>8. CASE TruncateUsers(p)
  BY <1>8, TruncateEffect, <1>a, <1>b, Contents
<1>9. CASE SaveUsers(p)
  BY <1>9, SaveUsersEffect, <1>a, <1>b, Contents
<1>10. CASE LoadSudoDoc(p)
  BY <1>10, LoadSudoEffect, <1>a, <1>b, Contents
<1>11. CASE SaveSudo(p)
  BY <1>11, SaveSudoEffect, <1>a, <1>b, Contents
<1>12. CASE ReadForEdit(p)
  BY <1>12, ReadForEditEffect, <1>a, <1>b, Contents
<1>13. CASE EditUsers(p)
  BY <1>13, EditUsersEffect, <1>a, <1>b, Contents
<1>14. CASE EditDaemon(p)
  BY <1>14, EditDaemonEffect, <1>a, <1>b, Contents
<1>15. CASE EditSudo(p)
  BY <1>15, EditSudoEffect, <1>a, <1>b, Contents
<1>16. CASE Rename(p)
  BY <1>16, RenameEffect, <1>a, <1>b, Contents
<1>17. CASE Die(p)
  BY <1>17, DieEffect, <1>a, <1>b, Contents
<1>18. ASSUME NEW n \in Names, PinLoad(p, n)
       PROVE  Goal
  BY <1>18, PinLoadEffect, <1>a, <1>b, Contents
<1>19. CASE PinLegacy(p)
  BY <1>19, PinLegacyEffect, <1>a, <1>b, Contents
<1> QED
  BY <1>1, <1>2, <1>3, <1>4, <1>5, <1>6, <1>7, <1>8, <1>9, <1>10, <1>11, <1>12, <1>13,
     <1>14, <1>15, <1>16, <1>17, <1>18, <1>19 DEF Command

\* The history of entries made only grows, up to what a list says.
LEMMA ListedBounds ==
    ASSUME made \in Lists, NEW l \in Lists, NEW m \in Names
    PROVE  /\ Listed(l)[m] >= made[m] /\ Listed(l)[m] >= l[m]
           /\ Listed(l)[m] \in {made[m], l[m]}
           /\ Listed(l)[m] \in Nat /\ made[m] \in Nat /\ l[m] \in Nat
BY DEF Listed, Lists

\* Generations stay behind made; the legacy list knows one only.
LEMMA GenerationsStep ==
    ASSUME Typed, Stages, Generations, NEW p \in Procs, Command(p)
    PROVE  Generations' /\ \A m \in Names : made'[m] >= made[m]
<1> SUFFICES ASSUME NEW m \in Names
             PROVE  /\ Generation(m)' /\ made'[m] >= made[m]
                    /\ \A q \in Procs : LegacyGeneration(q, m)'
  BY DEF Generations
<1> DEFINE Goal == Generation(m)' /\ LegacyGeneration(p, m)' /\ made'[m] >= made[m]
<1>a. /\ Generation(m) /\ LegacyGeneration(p, m) /\ Stage(p)
      /\ ufile'.st = "missing" => ufile.st = "missing"
  BY StagesStep DEF Generations, Stages
<1>b. /\ Typed' /\ made[m] \in Nat /\ made'[m] \in Nat /\ rd[m] \in Nat /\ ru[m] \in Nat
      /\ dfile.list[m] \in Nat /\ ufile.list[m] \in Nat
      /\ job[p].doc[m] \in Nat /\ job[p].leg[m] \in Nat /\ job'[p].leg[m] \in Nat
  <2>1. /\ dfile.list \in Lists /\ ufile.list \in Lists /\ job[p].doc \in Lists /\ job[p].leg \in Lists
        /\ rd \in Lists /\ ru \in Lists /\ made \in Lists
    BY FieldTypes DEF Typed
  <2>2. Typed' /\ job'[p].leg \in Lists /\ made' \in Lists
    BY FieldTypes, CommandTypes DEF Typed
  <2> QED
    BY <2>1, <2>2 DEF Lists
<1>0. SUFFICES Goal
  <2>1. \A q \in Procs : q # p => pc'[q] = pc[q] /\ job'[q] = job[q]
    BY CommandTypes DEF Others
  <2>2. ASSUME Goal, NEW q \in Procs, q # p
        PROVE  LegacyGeneration(q, m)'
    <3>1. LegacyGeneration(q, m) /\ job[q].leg \in Lists
      BY FieldTypes DEF Generations, Typed
    <3>2. job[q].leg[m] \in Nat
      BY <3>1 DEF Lists
    <3> QED
      BY <1>a, <1>b, <2>1, <2>2, <3>1, <3>2 DEF LegacyGeneration
  <2> QED
    BY <2>2
<1> USE DEF Generation, LegacyGeneration, Quiet, Same
<1>1. ASSUME NEW v \in Commands, NEW n \in Names, StartCommand(p, v, n)
      PROVE  Goal
  <2>1. /\ pc'[p] \in {"edit", "stat"}
        /\ UNCHANGED <<dfile, ufile, rd, ru, made, removed, orphans>>
    BY <1>1, StartEffect
  <2> QED
    BY <1>a, <1>b, <2>1
<1>2. CASE UsersFileThere(p)
  <2>1. pc'[p] \in {"edit", "load"} /\ UNCHANGED <<dfile, ufile, rd, ru, made, removed, orphans>>
    BY <1>2, UsersFileThereEffect DEF AfterUsersFile
  <2> QED
    BY <1>a, <1>b, <2>1
<1>3. CASE MigrateLoad(p)
  BY <1>3, MigrateLoadEffect, <1>a, <1>b, Contents
<1>4. CASE MigrateCreate(p)
  BY <1>4, MigrateCreateEffect, <1>a, <1>b, Contents
<1>5. CASE MigrateFill(p)
  <2>1. /\ pc[p] = "fill" /\ pc'[p] \in {"clear", "edit", "load"} /\ ufile' = File(job[p].leg)
        /\ UNCHANGED <<dfile, rd, ru, made, removed, orphans>>
    BY <1>5, MigrateFillEffect DEF AfterUsersFile
  <2> QED
    BY <1>a, <1>b, <2>1, Contents
<1>6. CASE MigrateClear(p)
  <2>1. /\ pc[p] \in {"clear", "cleared"} /\ pc'[p] \in {"cleared", "edit", "load"}
        /\ dfile' = Empty \/ dfile' = File(NoUsers)
        /\ UNCHANGED <<ufile, rd, ru, made, removed, orphans>>
    BY <1>6, MigrateClearEffect DEF AfterUsersFile
  <2>2. dfile'.list[m] = 0
    BY <2>1, Contents
  <2>3. ufile.st # "missing"
    BY <1>a, <2>1 DEF Stage
  <2> QED
    BY <1>a, <1>b, <2>1, <2>2, <2>3
<1>7. CASE LoadUsersDoc(p)
  BY <1>7, LoadUsersEffect, <1>a, <1>b, Contents
<1>8. CASE TruncateUsers(p)
  BY <1>8, TruncateEffect, <1>a, <1>b, Contents
<1>9. CASE SaveUsers(p)
  <2>1. /\ pc[p] = "save" /\ pc'[p] \in {"idle", "sudo"} /\ ufile' = File(job[p].doc)
        /\ made' = Listed(job[p].doc)
        /\ UNCHANGED <<dfile, rd, ru, orphans>>
    BY <1>9, SaveUsersEffect
  <2>2. made'[m] >= made[m] /\ made'[m] >= job[p].doc[m]
    BY <2>1, ListedBounds, FieldTypes DEF Typed
  <2> QED
    BY <1>a, <1>b, <2>1, <2>2, Contents
<1>10. CASE LoadSudoDoc(p)
  BY <1>10, LoadSudoEffect, <1>a, <1>b, Contents
<1>11. CASE SaveSudo(p)
  BY <1>11, SaveSudoEffect, <1>a, <1>b, Contents
<1>12. CASE ReadForEdit(p)
  BY <1>12, ReadForEditEffect, <1>a, <1>b, Contents
<1>13. CASE EditUsers(p)
  <2>1. /\ pc[p] = "editor" /\ UNCHANGED <<dfile, ufile, rd, ru, made, removed, orphans>>
        /\ pc'[p] = "idle" \/ (pc'[p] = "rename" /\ job'[p].leg = job[p].leg)
    BY <1>13, EditUsersEffect
  <2> QED
    BY <1>a, <1>b, <2>1
<1>14. CASE EditDaemon(p)
  <2>1. /\ pc[p] = "editor"
        /\ UNCHANGED <<dfile, ufile, rd, ru, made, removed, orphans>>
        /\ pc'[p] = "idle" \/ (pc'[p] = "rename" /\ job'[p].leg \in DaemonEdits(job[p].leg))
    BY <1>14, EditDaemonEffect
  <2>2. \A l \in DaemonEdits(job[p].leg) : l[m] \in {0, 1, job[p].leg[m]}
    <3>1. job[p].leg \in Lists
      BY FieldTypes DEF Typed
    <3> QED
      BY <3>1 DEF DaemonEdits, Lists
  <2> QED
    BY <1>a, <1>b, <2>1, <2>2
<1>15. CASE EditSudo(p)
  <2>1. /\ pc[p] = "editor" /\ UNCHANGED <<dfile, ufile, rd, ru, made, removed, orphans>>
        /\ pc'[p] = "idle" \/ (pc'[p] = "rename" /\ job'[p].leg = job[p].leg)
    BY <1>15, EditSudoEffect
  <2> QED
    BY <1>a, <1>b, <2>1
<1>16. CASE Rename(p)
  <2>1. pc[p] = "rename" /\ pc'[p] = "idle" /\ UNCHANGED <<rd, ru>>
    BY <1>16, RenameEffect
  <2>2. CASE ufile' = File(job[p].doc) /\ EditedByHand(ufile.list, job[p].doc) /\ dfile' = dfile
    <3>1. made'[m] >= made[m] /\ made'[m] >= job[p].doc[m]
      BY <2>2, ListedBounds, FieldTypes DEF Typed, EditedByHand
    <3> QED
      BY <1>a, <1>b, <2>1, <2>2, <3>1, Contents
  <2>3. CASE dfile' = File(job[p].leg) /\ EditedByHand(dfile.list, job[p].leg) /\ ufile' = ufile
    <3>1. /\ made'[m] >= made[m] /\ made'[m] >= job[p].leg[m]
          /\ made'[m] \in {made[m], job[p].leg[m]}
      BY <2>3, ListedBounds, FieldTypes DEF Typed, EditedByHand
    <3>2. (m \in removed => m \in orphans) => (m \in removed' => m \in orphans')
      BY <2>3 DEF EditedByHand
    <3> QED
      BY <1>a, <1>b, <2>1, <2>3, <3>1, <3>2, Contents
  <2>4. CASE UNCHANGED <<dfile, ufile, made, removed>> /\ orphans \subseteq orphans'
    BY <1>a, <1>b, <2>1, <2>4
  <2> QED
    BY <1>16, <2>2, <2>3, <2>4, RenameEffect
<1>17. CASE Die(p)
  BY <1>17, DieEffect, <1>a, <1>b, Contents
<1>18. ASSUME NEW n \in Names, PinLoad(p, n)
       PROVE  Goal
  <2>1. /\ UNCHANGED <<dfile, ufile, rd, ru, made, removed, orphans>>
        /\ pc'[p] = "trunc" \/ (pc'[p] = "ptrunc" /\ job'[p].leg = dfile.list)
    BY <1>18, PinLoadEffect
  <2> QED
    BY <1>a, <1>b, <2>1
<1>19. CASE PinLegacy(p)
  <2>1. UNCHANGED <<ufile, rd, ru, orphans>>
    BY <1>19, PinLegacyEffect
  <2>2. CASE /\ pc[p] = "ptrunc" /\ pc'[p] = "psave" /\ job'[p] = job[p] /\ dfile' = Empty
             /\ UNCHANGED <<made, removed>>
    <3>1. dfile'.list[m] = 0
      BY <2>2, Contents
    <3> QED
      BY <1>a, <1>b, <2>1, <2>2, <3>1
  <2>3. CASE /\ pc[p] = "psave" /\ pc'[p] = "idle" /\ dfile' = File(job[p].leg)
             /\ made' = Listed(job[p].leg) /\ removed' = removed \ Users(job[p].leg)
    <3>1. /\ made'[m] >= made[m] /\ made'[m] >= job[p].leg[m]
          /\ made'[m] \in {made[m], job[p].leg[m]}
      BY <2>3, ListedBounds, FieldTypes DEF Typed
    <3>2. m \in removed' => m \in removed
      BY <2>3
    <3> QED
      BY <1>a, <1>b, <2>1, <2>3, <3>1, <3>2, Contents
  <2> QED
    BY <1>19, <2>2, <2>3, PinLegacyEffect
<1> QED
  BY <1>1, <1>2, <1>3, <1>4, <1>5, <1>6, <1>7, <1>8, <1>9, <1>10, <1>11, <1>12, <1>13,
     <1>14, <1>15, <1>16, <1>17, <1>18, <1>19 DEF Command

-----------------------------------------------------------------------------
(* One command at a time.                                                  *)

\* Every step of a command but its first is of one that was running.
LEMMA RunningStep ==
    ASSUME Typed, Stages, NEW p \in Procs, Command(p)
    PROVE  \/ overlap' = (overlap \/ \E q \in Procs : pc[q] # "idle")
           \/ pc[p] # "idle" /\ overlap' = overlap
<1>1. ASSUME NEW v \in Commands, NEW n \in Names, StartCommand(p, v, n)
      PROVE  \/ overlap' = (overlap \/ \E q \in Procs : pc[q] # "idle")
             \/ pc[p] # "idle" /\ overlap' = overlap
  BY <1>1, StartEffect
<1>2. CASE UsersFileThere(p)
  BY <1>2, UsersFileThereEffect
<1>3. CASE MigrateLoad(p)
  BY <1>3, MigrateLoadEffect
<1>4. CASE MigrateCreate(p)
  BY <1>4, MigrateCreateEffect
<1>5. CASE MigrateFill(p)
  BY <1>5, MigrateFillEffect
<1>6. CASE MigrateClear(p)
  BY <1>6, MigrateClearEffect
<1>7. CASE LoadUsersDoc(p)
  BY <1>7, LoadUsersEffect
<1>8. CASE TruncateUsers(p)
  BY <1>8, TruncateEffect
<1>9. CASE SaveUsers(p)
  BY <1>9, SaveUsersEffect
<1>10. CASE LoadSudoDoc(p)
  BY <1>10, LoadSudoEffect
<1>11. CASE SaveSudo(p)
  BY <1>11, SaveSudoEffect
<1>12. CASE ReadForEdit(p)
  BY <1>12, ReadForEditEffect
<1>13. CASE EditUsers(p)
  BY <1>13, EditUsersEffect
<1>14. CASE EditDaemon(p)
  BY <1>14, EditDaemonEffect
<1>15. CASE EditSudo(p)
  BY <1>15, EditSudoEffect
<1>16. CASE Rename(p)
  BY <1>16, RenameEffect
<1>17. CASE Die(p)
  BY <1>17, DieEffect
<1>18. ASSUME NEW n \in Names, PinLoad(p, n)
       PROVE  \/ overlap' = (overlap \/ \E q \in Procs : pc[q] # "idle")
              \/ pc[p] # "idle" /\ overlap' = overlap
  BY <1>18, PinLoadEffect
<1>19. CASE PinLegacy(p)
  BY <1>19, PinLegacyEffect
<1> QED
  BY <1>1, <1>2, <1>3, <1>4, <1>5, <1>6, <1>7, <1>8, <1>9, <1>10, <1>11, <1>12, <1>13,
     <1>14, <1>15, <1>16, <1>17, <1>18, <1>19 DEF Command

\* While commands do not overlap, a step of one finds the others idle.
Solo(p) == ~overlap /\ \A q \in Procs : q # p => pc[q] = "idle" /\ pc'[q] = "idle"

\* A step keeps commands that do not overlap one at a time.
LEMMA AloneStep ==
    ASSUME Typed, Stages, Alone, NEW p \in Procs, Command(p)
    PROVE  Alone' /\ (~overlap' => Solo(p))
<1>1. \A q \in Procs : q # p => pc'[q] = pc[q]
  BY CommandTypes DEF Others
<1>2. ~overlap' => ~overlap /\ \A q \in Procs : q # p => pc[q] = "idle"
  <2>1. CASE overlap' = (overlap \/ \E q \in Procs : pc[q] # "idle")
    BY <2>1, Zenon
  <2>2. CASE pc[p] # "idle" /\ overlap' = overlap
    BY <2>2, Zenon DEF Alone
  <2> QED
    BY <2>1, <2>2, RunningStep
<1> QED
  BY <1>1, <1>2, Zenon DEF Alone, Solo

\* What an edit that was found valid does to a name.
LEMMA UsersEditKeeps ==
    ASSUME NEW l \in Lists, NEW e \in UsersEdits(l), ValidUsers(e), NEW m \in Names
    PROVE  e[m] \in {0, l[m]}
<1>1. CASE \E k \in Names : e = [l EXCEPT ![k] = 0]
  BY <1>1 DEF Lists
<1>2. CASE \E k \in RootNames : e = [l EXCEPT ![k] = 1]
  BY <1>2 DEF Lists, ValidUsers, Users
<1> QED
  BY <1>1, <1>2 DEF UsersEdits

\* What a command has in memory fits the files at its next stage too.
LEMMA CarriedStep ==
    ASSUME Typed, Stages, Alone, Carried, NEW p \in Procs, Command(p)
    PROVE  Carried'
<1> SUFFICES ASSUME ~overlap'
             PROVE  \A q \in Procs : Carries(q)'
  BY DEF Carried
<1>0. SUFFICES Carries(p)'
  <2>1. Solo(p)
    BY AloneStep
  <2> QED
    BY <2>1 DEF Solo, Carries
<1>a. Carries(p) /\ Stage(p)
  BY AloneStep DEF Solo, Carried, Stages
<1>b. /\ dfile.list \in Lists /\ ufile.list \in Lists /\ job[p].doc \in Lists
      /\ job[p].leg \in Lists /\ made \in Lists
  BY FieldTypes DEF Typed
<1> USE DEF Carries, Quiet, Same
<1>1. ASSUME NEW v \in Commands, NEW n \in Names, StartCommand(p, v, n)
      PROVE  Carries(p)'
  <2>1. pc'[p] \in {"edit", "stat"}
    BY <1>1, StartEffect
  <2> QED
    BY <2>1
<1>2. CASE UsersFileThere(p)
  <2>1. pc'[p] \in {"edit", "load"}
    BY <1>2, UsersFileThereEffect DEF AfterUsersFile
  <2> QED
    BY <2>1
<1>3. CASE MigrateLoad(p)
  <2>1. /\ UNCHANGED <<dfile, ufile>> /\ ufile.st = "missing"
        /\ pc'[p] = "idle" \/ (pc'[p] = "migrate" /\ job'[p].leg = dfile.list)
    BY <1>3, MigrateLoadEffect
  <2> QED
    BY <2>1
<1>4. CASE MigrateCreate(p)
  <2>1. /\ pc[p] = "migrate" /\ pc'[p] = "fill" /\ job'[p] = job[p]
        /\ ufile' = Empty /\ dfile' = dfile
    BY <1>4, MigrateCreateEffect
  <2> QED
    BY <1>a, <2>1, Contents
<1>5. CASE MigrateFill(p)
  <2>1. /\ pc[p] = "fill" /\ pc'[p] \in {"clear", "edit", "load"} /\ job'[p] = job[p]
        /\ ufile' = File(job[p].leg) /\ dfile' = dfile
    BY <1>5, MigrateFillEffect DEF AfterUsersFile
  <2> QED
    BY <1>a, <2>1, Contents
<1>6. CASE MigrateClear(p)
  <2>1. pc'[p] \in {"cleared", "edit", "load"} /\ (dfile' = Empty \/ dfile' = File(NoUsers))
    BY <1>6, MigrateClearEffect DEF AfterUsersFile
  <2> QED
    BY <2>1, Contents
<1>7. CASE LoadUsersDoc(p)
  <2>1. /\ UNCHANGED <<ufile, made>>
        /\ \/ pc'[p] = "idle"
           \/ /\ pc'[p] = "trunc" /\ ~Refused(ufile.list, job[p].verb, job[p].who)
              /\ job'[p].doc = Edited(ufile.list, job[p].verb, job[p].who)
              /\ job'[p].verb = job[p].verb /\ job'[p].who = job[p].who
    BY <1>7, LoadUsersEffect
  <2> QED
    BY <2>1 DEF Edited, Refused
<1>8. CASE TruncateUsers(p)
  <2>1. pc[p] = "trunc" /\ pc'[p] = "save" /\ job'[p] = job[p] /\ ufile' = Empty
    BY <1>8, TruncateEffect
  <2>2. job[p].doc = Edited(ufile.list, job[p].verb, job[p].who) /\ job[p].who \in Names
    BY <1>a, <2>1 DEF Stage
  <2>3. job[p].verb = "delete" => job[p].doc[job[p].who] = 0
    BY <1>b, <2>2 DEF Edited, Lists
  <2> QED
    BY <2>1, <2>3, Contents
<1>9. CASE SaveUsers(p)
  <2>1. /\ pc[p] = "save" /\ ufile' = File(job[p].doc)
        /\ pc'[p] = "idle" \/ (pc'[p] = "sudo" /\ job'[p] = job[p])
    BY <1>9, SaveUsersEffect
  <2> QED
    BY <1>a, <2>1, Contents
<1>10. CASE LoadSudoDoc(p)
  <2>1. /\ pc[p] = "sudo" /\ ufile' = ufile
        /\ \/ pc'[p] = "idle"
           \/ pc'[p] = "strunc" /\ job'[p].verb = job[p].verb /\ job'[p].who = job[p].who
    BY <1>10, LoadSudoEffect
  <2> QED
    BY <1>a, <2>1
<1>11. CASE SaveSudo(p)
  <2>1. pc'[p] \in {"ssave", "idle"}
    BY <1>11, SaveSudoEffect
  <2> QED
    BY <2>1
<1>12. CASE ReadForEdit(p)
  <2>1. /\ pc'[p] = "editor" /\ UNCHANGED <<dfile, ufile, sfile>>
        /\ job'[p].doc = ufile.list /\ job'[p].leg = dfile.list /\ job'[p].gdoc = sfile
    BY <1>12, ReadForEditEffect
  <2> QED
    BY <2>1
<1>13. CASE EditUsers(p)
  <2>1. /\ pc[p] = "editor" /\ ufile' = ufile
        /\ \/ pc'[p] = "idle"
           \/ /\ pc'[p] = "rename" /\ job'[p].verb = "edit users"
              /\ job'[p].doc \in UsersEdits(job[p].doc) /\ ValidUsers(job'[p].doc)
    BY <1>13, EditUsersEffect
  <2>2. pc'[p] = "rename" => \A m \in Names : job'[p].doc[m] \in {0, ufile.list[m]}
    BY <1>a, <1>b, <2>1, UsersEditKeeps
  <2> QED
    BY <2>1, <2>2
<1>14. CASE EditDaemon(p)
  <2>1. /\ pc[p] = "editor" /\ ufile' = ufile
        /\ \/ pc'[p] = "idle"
           \/ /\ pc'[p] = "rename" /\ job'[p].verb = "edit daemon"
              /\ job'[p].leg # NoUsers => ufile.st = "missing"
    BY <1>14, EditDaemonEffect
  <2> QED
    BY <2>1
<1>15. CASE EditSudo(p)
  <2>1. /\ pc[p] = "editor" /\ UNCHANGED <<dfile, ufile, sfile>>
        /\ \/ pc'[p] = "idle"
           \/ /\ pc'[p] = "rename" /\ job'[p].verb = "edit sudo"
              /\ \A m \in Names : job'[p].gdoc.list[m] \in
                    {0, job[p].gdoc.list[m], GrantedEntry(m)}
    BY <1>15, EditSudoEffect
  <2>2. job[p].gdoc = sfile
    BY <1>a, <2>1
  <2>3. UNCHANGED Chosen(dfile.list, ufile)
    BY <2>1 DEF Chosen
  <2>4. \A m \in Names : Chosen(dfile.list, ufile)[m] # 0 =>
            GrantedEntry(m) = Chosen(dfile.list, ufile)[m]
    BY DEF GrantedEntry
  <2> QED
    BY <2>1, <2>2, <2>3, <2>4
<1>16. CASE Rename(p)
  <2>1. pc'[p] = "idle"
    BY <1>16, RenameEffect
  <2> QED
    BY <2>1
<1>17. CASE Die(p)
  <2>1. pc'[p] = "idle"
    BY <1>17, DieEffect
  <2> QED
    BY <2>1
<1>18. ASSUME NEW n \in Names, PinLoad(p, n)
       PROVE  Carries(p)'
  <2>1. /\ job'[p].verb = "pin" /\ job'[p].who = n /\ UNCHANGED <<dfile, ufile>>
        /\ \/ pc'[p] = "trunc" /\ job'[p].doc = ufile.list /\ ufile.list[n] # 0
           \/ pc'[p] = "ptrunc" /\ job'[p].leg = dfile.list
    BY <1>18, PinLoadEffect
  <2> QED
    BY <2>1 DEF Edited, Refused
<1>19. CASE PinLegacy(p)
  <2>1. pc'[p] = "idle" \/ (pc'[p] = "psave" /\ dfile' = Empty)
    BY <1>19, PinLegacyEffect
  <2> QED
    BY <2>1, Contents
<1> QED
  BY <1>1, <1>2, <1>3, <1>4, <1>5, <1>6, <1>7, <1>8, <1>9, <1>10, <1>11, <1>12, <1>13,
     <1>14, <1>15, <1>16, <1>17, <1>18, <1>19 DEF Command

-----------------------------------------------------------------------------
(* The directory and the commands.                                         *)

\* The initial directory.
LEMMA InitDir == Init => DirInv
<1> SUFFICES ASSUME Init
             PROVE  DirInv
  OBVIOUS
<1> PICK list \in [Names -> {0, 1}], gr \in [Names -> {0, 1}] :
            /\ ValidUsers(list)
            /\ \/ dfile = File(list) /\ ufile = Missing
               \/ dfile = File(NoUsers) /\ ufile = File(list)
            /\ sfile = Grants(gr, {})
            /\ pc = [q \in Procs |-> "idle"] /\ job = [q \in Procs |-> NoJob]
            /\ up = TRUE /\ mUsers = list /\ mGrants = gr /\ mPath \in {"users", "daemon"}
            /\ rl = "idle" /\ rd = NoUsers /\ ru = NoUsers /\ rp = "users" /\ rs = NoGrants
            /\ cmds = 0 /\ made = list /\ removed = {} /\ orphans = {}
            /\ overlap = FALSE /\ broken = FALSE /\ torn = FALSE
  BY DEF Init
<1>1. list \in Lists /\ gr \in Lists
  BY DEF Lists
<1>2. TypeOK
  <2>1. dfile \in DFiles /\ ufile \in UFiles /\ sfile \in Copies
    BY <1>1, FileTypes
  <2>2. pc \in [Procs -> Pcs] /\ job \in [Procs -> Jobs]
    BY FileTypes DEF Pcs
  <2> QED
    BY <1>1, <2>1, <2>2, FileTypes, TypedIsTypeOK DEF Typed
<1>3. \A q \in Procs : pc[q] = "idle" /\ job[q] = NoJob
  OBVIOUS
<1>4. Missing.list = NoUsers /\ Missing.st = "missing"
  BY DEF Missing
<1>5. Stages /\ Alone /\ Carried
  BY <1>3 DEF Stages, Stage, Alone, Carried, Carries
<1>6. Shapes
  BY <1>4, Contents DEF Shapes
<1>7. ValidUsers(NoUsers)
  BY <1>1, ValidEdits
<1>8. Valid
  BY <1>3, <1>4, <1>7, Contents DEF Valid
<1>9. ASSUME NEW m \in Names
      PROVE  Generation(m)
  <2>1. list[m] \in {0, 1} /\ made[m] = list[m] /\ rd[m] = 0 /\ ru[m] = 0
    BY Contents
  <2>2. CASE dfile = File(list) /\ ufile = Missing
    BY <1>4, <2>1, <2>2, Contents DEF Generation
  <2>3. CASE dfile = File(NoUsers) /\ ufile = File(list)
    BY <2>1, <2>3, Contents DEF Generation
  <2> QED
    BY <2>2, <2>3
<1>10. Generations
  BY <1>3, <1>9 DEF Generations, LegacyGeneration
<1> QED
  BY <1>2, <1>5, <1>6, <1>8, <1>10 DEF DirInv

\* Nothing a command's memory is compared with has changed.
LEMMA CarriesStays ==
    ASSUME NEW p \in Procs, Carries(p), UNCHANGED <<dfile, ufile, sfile, pc, job, made>>
    PROVE  Carries(p)'
<1>1. /\ UNCHANGED Chosen(dfile.list, ufile)
      /\ UNCHANGED Edited(ufile.list, job[p].verb, job[p].who)
      /\ Refused(ufile.list, job[p].verb, job[p].who)' = Refused(ufile.list, job[p].verb, job[p].who)
  BY DEF Chosen, Edited, Refused
<1>2. UNCHANGED <<dfile, ufile, sfile, pc, job>> /\ UNCHANGED <<pc[p], job[p]>>
  OBVIOUS
<1> QED
  BY <1>1, <1>2, ZenonT(60) DEF Carries

\* A step of the daemon leaves files and commands alone; what it reads is no
\* newer than what was made.
LEMMA DaemonDir ==
    ASSUME DirInv, ReadDaemonYaml \/ ReadUsersYaml \/ ReadSudoYaml \/ Swap \/ Stop
    PROVE  DirInv'
<1>1. Typed
  BY TypedIsTypeOK DEF DirInv
<1>2. Typed' /\ UNCHANGED <<files, pc, job, history>>
  BY <1>1, DaemonTypes
<1>3. TypeOK'
  BY <1>2, TypedIsTypeOK, PTL
<1>4. UNCHANGED <<dfile, ufile, sfile, pc, job, made, removed, orphans, overlap, broken, torn>>
  BY <1>2
<1>5. Stages' /\ Shapes' /\ Alone'
  BY <1>4 DEF DirInv, Stages, Stage, Shapes, Alone
<1>6. Valid'
  BY <1>4 DEF DirInv, Valid, ValidUsers, Users
<1>7. Carried'
  BY <1>4, CarriesStays DEF DirInv, Carried
<1>8. ASSUME NEW m \in Names
      PROVE  rd'[m] <= made[m] /\ ru'[m] <= made[m]
  <2>1. Generation(m)
    BY DEF DirInv, Generations
  <2>2. rd' \in {rd, dfile.list, NoUsers} /\ ru' \in {ru, rd, ufile.list, NoUsers}
    BY DEF ReadDaemonYaml, ReadUsersYaml, ReadSudoYaml, Swap, Stop, LoadEnds, Chosen
  <2>3. NoUsers[m] <= made[m]
    BY <1>1, Contents DEF Typed, Lists
  <2> QED
    BY <2>1, <2>2, <2>3 DEF Generation
<1>9. Generations'
  BY <1>4, <1>8 DEF DirInv, Generations, Generation, LegacyGeneration
<1> QED
  BY <1>3, <1>5, <1>6, <1>7, <1>9 DEF DirInv

\* Every step keeps the directory and the commands in order.
LEMMA StepDir == DirInv /\ [Next]_vars => DirInv'
<1> SUFFICES ASSUME DirInv, [Next]_vars
             PROVE  DirInv'
  OBVIOUS
<1>0. Typed
  BY TypedIsTypeOK DEF DirInv
<1>1. ASSUME NEW p \in Procs, Command(p)
      PROVE  DirInv'
  <2>1. Typed' /\ Stages'
    BY <1>0, <1>1, CommandTypes, StagesStep DEF DirInv
  <2>2. TypeOK'
    BY <2>1, TypedIsTypeOK, PTL
  <2>3. Shapes' /\ Valid' /\ Generations'
    BY <1>0, <1>1, ShapesStep, ValidStep, GenerationsStep DEF DirInv
  <2>4. Alone' /\ Carried'
    BY <1>0, <1>1, AloneStep, CarriedStep DEF DirInv
  <2> QED
    BY <2>1, <2>2, <2>3, <2>4 DEF DirInv
<1>2. CASE UNCHANGED vars
  <2>1. Stages' /\ Shapes' /\ Alone'
    BY <1>2 DEF vars, DirInv, Stages, Stage, Shapes, Alone
  <2>2. Valid' /\ Generations'
    BY <1>2 DEF vars, DirInv, Valid, ValidUsers, Users, Generations, Generation, LegacyGeneration
  <2>3. Carried'
    BY <1>2, CarriesStays DEF vars, DirInv, Carried
  <2>4. TypeOK'
    BY <1>2 DEF vars, DirInv, TypeOK
  <2> QED
    BY <2>1, <2>2, <2>3, <2>4 DEF DirInv
<1> QED
  BY <1>1, <1>2, DaemonDir DEF Next

\* The files and the commands of ConfigFiles: what the stages of a command need
\* and carry, the shape and generations of the lists, one command at a time.
THEOREM DirectoryInvariant == Spec => []DirInv
BY InitDir, StepDir, PTL DEF Spec

\* Every variable of ConfigFiles keeps its type.
THEOREM TypeCorrect == Spec => []TypeOK
<1>1. DirInv => TypeOK
  BY DEF DirInv
<1> QED
  BY <1>1, DirectoryInvariant, PTL

-----------------------------------------------------------------------------
(* No user is lost.                                                        *)

\* What the files say of a name, and the save that p is about to make.
KeptBy(p, m) ==
    made[m] # 0 /\ m \notin removed =>
        \/ dfile.list[m] # 0 \/ ufile.list[m] # 0
        \/ pc[p] = "save" /\ job[p].doc[m] # 0
        \/ pc[p] = "psave" /\ job[p].leg[m] # 0

\* A step that leaves files and history alone, outside the save.
LEMMA KeptQuiet ==
    ASSUME NEW p \in Procs, NEW m \in Names, KeptBy(p, m), pc[p] \notin {"save", "psave"},
           UNCHANGED <<dfile, ufile, made, removed>>
    PROVE  KeptBy(p, m)'
BY DEF KeptBy

\* A step of a command loses nobody.
LEMMA KeptStep ==
    ASSUME DirInv, Kept, NEW p \in Procs, Command(p)
    PROVE  Kept'
<1> SUFFICES ASSUME ~overlap', ~torn', NEW m \in Names
             PROVE  KeptBy(p, m)'
  BY DEF Kept, KeptBy
<1>0. Typed /\ Stages /\ Solo(p) /\ Stage(p) /\ Carries(p)
  BY TypedIsTypeOK, AloneStep DEF DirInv, Solo, Carried, Stages
<1>a. ~torn => KeptBy(p, m)
  BY <1>0 DEF Kept, KeptBy, Solo
<1>b. /\ dfile.list \in Lists /\ ufile.list \in Lists /\ job[p].doc \in Lists
      /\ job[p].leg \in Lists /\ made \in Lists
  BY <1>0, FieldTypes DEF Typed
<1> USE DEF Quiet, Same
<1>1. ASSUME NEW v \in Commands, NEW n \in Names, StartCommand(p, v, n)
      PROVE  KeptBy(p, m)'
  <2>1. pc[p] \notin {"save", "psave"} /\ UNCHANGED <<dfile, ufile, made, removed, torn>>
    BY <1>0, <1>1, StartEffect
  <2> QED
    BY <1>a, <2>1, KeptQuiet
<1>2. CASE UsersFileThere(p)
  <2>1. pc[p] \notin {"save", "psave"} /\ UNCHANGED <<dfile, ufile, made, removed, torn>>
    BY <1>0, <1>2, UsersFileThereEffect
  <2> QED
    BY <1>a, <2>1, KeptQuiet
<1>3. CASE MigrateLoad(p)
  <2>1. pc[p] \notin {"save", "psave"} /\ UNCHANGED <<dfile, ufile, made, removed, torn>>
    BY <1>0, <1>3, MigrateLoadEffect
  <2> QED
    BY <1>a, <2>1, KeptQuiet
<1>4. CASE MigrateCreate(p)
  <2>1. /\ pc[p] = "migrate" /\ ufile' = Empty
        /\ UNCHANGED <<dfile, made, removed, torn>>
    BY <1>0, <1>4, MigrateCreateEffect
  <2>2. ufile.list = NoUsers
    BY <1>0, <2>1 DEF Carries, DirInv, Shapes
  <2> QED
    BY <1>a, <2>1, <2>2, Contents DEF KeptBy
<1>5. CASE MigrateFill(p)
  <2>1. /\ pc[p] = "fill" /\ ufile' = File(job[p].leg)
        /\ UNCHANGED <<dfile, made, removed, torn>>
    BY <1>0, <1>5, MigrateFillEffect
  <2>2. ufile.list = NoUsers
    BY <1>0, <2>1 DEF Carries
  <2> QED
    BY <1>a, <2>1, <2>2, Contents DEF KeptBy
<1>6. CASE MigrateClear(p)
  <2>1. /\ pc[p] \in {"clear", "cleared"} /\ UNCHANGED <<ufile, made, removed, torn>>
    BY <1>0, <1>6, MigrateClearEffect
  <2>2. dfile.list[m] # 0 => ufile.list[m] # 0
    BY <1>0, <2>1, Contents DEF Carries
  <2> QED
    BY <1>a, <2>1, <2>2 DEF KeptBy
<1>7. CASE LoadUsersDoc(p)
  <2>1. pc[p] \notin {"save", "psave"} /\ UNCHANGED <<dfile, ufile, made, removed, torn>>
    BY <1>0, <1>7, LoadUsersEffect
  <2> QED
    BY <1>a, <2>1, KeptQuiet
<1>8. CASE TruncateUsers(p)
  <2>1. /\ pc[p] = "trunc" /\ pc'[p] = "save" /\ job'[p] = job[p]
        /\ removed' = IF job[p].verb = "delete" THEN removed \cup {job[p].who} ELSE removed
        /\ UNCHANGED <<dfile, made, torn>>
    BY <1>0, <1>8, TruncateEffect
  <2>2. /\ job[p].doc = Edited(ufile.list, job[p].verb, job[p].who)
        /\ job[p].verb \in Verbs /\ job[p].who \in Names
    BY <1>0, <2>1 DEF Carries, Stage
  <2>3. made[m] \in Nat /\ ufile.list[m] \in Nat /\ job[p].doc[m] \in Nat
    BY <1>b DEF Lists
  <2>4. ufile.list[m] # 0 => job[p].doc[m] # 0 \/ (job[p].verb = "delete" /\ m = job[p].who)
    <3>1. CASE m = job[p].who /\ job[p].verb \in {"create", "create --grant"}
      <4>1. job[p].doc[m] = made[m] + 1
        BY <1>b, <2>2, <3>1 DEF Edited, Lists
      <4> QED
        BY <2>3, <4>1
    <3>2. CASE ~(m = job[p].who /\ job[p].verb \in {"create", "create --grant", "delete"})
      BY <1>b, <2>2, <3>2 DEF Edited, Lists
    <3> QED
      BY <3>1, <3>2
  <2> QED
    BY <1>a, <2>1, <2>4 DEF KeptBy
<1>9. CASE SaveUsers(p)
  <2>1. /\ pc[p] = "save" /\ ufile' = File(job[p].doc)
        /\ made' = Listed(job[p].doc) /\ removed' = removed \ Users(job[p].doc)
        /\ UNCHANGED <<dfile, torn>>
    BY <1>0, <1>9, SaveUsersEffect
  <2>2. ufile.list[m] = 0 /\ ufile'.list[m] = job[p].doc[m]
    BY <1>0, <2>1, Contents DEF Carries
  <2>3. made'[m] \in {made[m], job[p].doc[m]}
    BY <1>b, <2>1, ListedBounds
  <2>4. job[p].doc[m] = 0 /\ m \notin removed' => m \notin removed
    BY <2>1 DEF Users
  <2> QED
    BY <1>a, <2>1, <2>2, <2>3, <2>4 DEF KeptBy
<1>10. CASE LoadSudoDoc(p)
  <2>1. pc[p] \notin {"save", "psave"} /\ UNCHANGED <<dfile, ufile, made, removed, torn>>
    BY <1>0, <1>10, LoadSudoEffect
  <2> QED
    BY <1>a, <2>1, KeptQuiet
<1>11. CASE SaveSudo(p)
  <2>1. pc[p] \notin {"save", "psave"} /\ UNCHANGED <<dfile, ufile, made, removed, torn>>
    BY <1>0, <1>11, SaveSudoEffect
  <2> QED
    BY <1>a, <2>1, KeptQuiet
<1>12. CASE ReadForEdit(p)
  <2>1. pc[p] \notin {"save", "psave"} /\ UNCHANGED <<dfile, ufile, made, removed, torn>>
    BY <1>0, <1>12, ReadForEditEffect
  <2> QED
    BY <1>a, <2>1, KeptQuiet
<1>13. CASE EditUsers(p)
  <2>1. pc[p] \notin {"save", "psave"} /\ UNCHANGED <<dfile, ufile, made, removed, torn>>
    BY <1>0, <1>13, EditUsersEffect
  <2> QED
    BY <1>a, <2>1, KeptQuiet
<1>14. CASE EditDaemon(p)
  <2>1. pc[p] \notin {"save", "psave"} /\ UNCHANGED <<dfile, ufile, made, removed, torn>>
    BY <1>0, <1>14, EditDaemonEffect
  <2> QED
    BY <1>a, <2>1, KeptQuiet
<1>15. CASE EditSudo(p)
  <2>1. pc[p] \notin {"save", "psave"} /\ UNCHANGED <<dfile, ufile, made, removed, torn>>
    BY <1>0, <1>15, EditSudoEffect
  <2> QED
    BY <1>a, <2>1, KeptQuiet
<1>16. CASE Rename(p)
  <2>1. pc[p] = "rename" /\ torn' = torn
    BY <1>0, <1>16, RenameEffect
  <2>2. CASE ufile' = File(job[p].doc) /\ EditedByHand(ufile.list, job[p].doc) /\ dfile' = dfile
    <3>1. made'[m] \in {made[m], job[p].doc[m]} /\ ufile'.list[m] = job[p].doc[m]
      BY <1>b, <2>2, ListedBounds, Contents DEF EditedByHand
    <3>2. job[p].doc[m] = 0 /\ m \notin removed' => m \notin removed /\ ufile.list[m] = 0
      BY <2>2 DEF EditedByHand, Users
    <3> QED
      BY <1>a, <2>1, <2>2, <3>1, <3>2 DEF KeptBy
  <2>3. CASE dfile' = File(job[p].leg) /\ EditedByHand(dfile.list, job[p].leg) /\ ufile' = ufile
    <3>1. made'[m] \in {made[m], job[p].leg[m]} /\ dfile'.list[m] = job[p].leg[m]
      BY <1>b, <2>3, ListedBounds, Contents DEF EditedByHand
    <3>2. job[p].leg[m] = 0 /\ m \notin removed' => m \notin removed /\ dfile.list[m] = 0
      BY <2>3 DEF EditedByHand, Users
    <3> QED
      BY <1>a, <2>1, <2>3, <3>1, <3>2 DEF KeptBy
  <2>4. CASE UNCHANGED <<dfile, ufile, made, removed>>
    BY <1>a, <2>1, <2>4, KeptQuiet
  <2> QED
    BY <1>0, <1>16, <2>2, <2>3, <2>4, RenameEffect
<1>17. CASE Die(p)
  <2>1. /\ torn' = (torn \/ pc[p] \in {"save", "psave"})
        /\ UNCHANGED <<dfile, ufile, made, removed>>
    BY <1>0, <1>17, DieEffect
  <2>2. ~torn /\ pc[p] \notin {"save", "psave"}
    BY <2>1, Zenon
  <2> QED
    BY <1>a, <2>1, <2>2, KeptQuiet
<1>18. ASSUME NEW n \in Names, PinLoad(p, n)
       PROVE  KeptBy(p, m)'
  <2>1. pc[p] \notin {"save", "psave"} /\ UNCHANGED <<dfile, ufile, made, removed, torn>>
    BY <1>0, <1>18, PinLoadEffect
  <2> QED
    BY <1>a, <2>1, KeptQuiet
<1>19. CASE PinLegacy(p)
  <2>1. UNCHANGED <<ufile, torn>>
    BY <1>0, <1>19, PinLegacyEffect
  <2>2. CASE /\ pc[p] = "ptrunc" /\ pc'[p] = "psave" /\ job'[p] = job[p]
             /\ UNCHANGED <<made, removed>>
    <3>1. dfile.list = job[p].leg
      BY <1>0, <2>2 DEF Carries
    <3> QED
      BY <1>a, <2>1, <2>2, <3>1 DEF KeptBy
  <2>3. CASE /\ pc[p] = "psave" /\ dfile' = File(job[p].leg)
             /\ made' = Listed(job[p].leg) /\ removed' = removed \ Users(job[p].leg)
    <3>1. dfile.list[m] = 0 /\ dfile'.list[m] = job[p].leg[m]
      BY <1>0, <2>3, Contents DEF Carries
    <3>2. made'[m] \in {made[m], job[p].leg[m]}
      BY <1>b, <2>3, ListedBounds
    <3>3. job[p].leg[m] = 0 /\ m \notin removed' => m \notin removed
      BY <2>3 DEF Users
    <3> QED
      BY <1>a, <2>1, <2>3, <3>1, <3>2, <3>3 DEF KeptBy
  <2> QED
    BY <1>0, <1>19, <2>2, <2>3, PinLegacyEffect
<1> QED
  BY <1>1, <1>2, <1>3, <1>4, <1>5, <1>6, <1>7, <1>8, <1>9, <1>10, <1>11, <1>12, <1>13,
     <1>14, <1>15, <1>16, <1>17, <1>18, <1>19 DEF Command

-----------------------------------------------------------------------------
(* The two lists are never both in use.                                    *)

SplitBy(p) ==
    ufile.st # "missing" => /\ dfile.list = NoUsers \/ pc[p] \in {"fill", "clear"}
                            /\ pc[p] \notin {"ptrunc", "psave"}

\* Users are in one of the two files, but for the migration.
LEMMA SplitStep ==
    ASSUME DirInv, Split, NEW p \in Procs, Command(p)
    PROVE  Split'
<1> SUFFICES ASSUME ~overlap', ~broken', Solo(p)
             PROVE  SplitBy(p)'
  BY AloneStep, TypedIsTypeOK DEF Split, SplitBy, DirInv, Solo
<1>0. Typed /\ Stages /\ Solo(p) /\ Stage(p) /\ Carries(p)
  BY TypedIsTypeOK, AloneStep DEF DirInv, Solo, Carried, Stages
<1>a. ~broken => SplitBy(p)
  BY <1>0 DEF Split, SplitBy, Solo
<1>b. ufile'.st = "missing" => ufile.st = "missing"
  BY <1>0, StagesStep
<1> USE DEF Quiet, Same
<1>1. ASSUME NEW v \in Commands, NEW n \in Names, StartCommand(p, v, n)
      PROVE  SplitBy(p)'
  <2>1. /\ pc[p] \notin {"fill", "clear"} /\ pc'[p] \notin {"ptrunc", "psave"}
        /\ UNCHANGED <<dfile, ufile, broken>>
    BY <1>0, <1>1, StartEffect
  <2> QED
    BY <1>a, <2>1 DEF SplitBy
<1>2. CASE UsersFileThere(p)
  <2>1. /\ pc[p] \notin {"fill", "clear"} /\ pc'[p] \notin {"ptrunc", "psave"}
        /\ UNCHANGED <<dfile, ufile, broken>>
    BY <1>0, <1>2, UsersFileThereEffect DEF AfterUsersFile
  <2> QED
    BY <1>a, <2>1 DEF SplitBy
<1>3. CASE MigrateLoad(p)
  <2>1. /\ pc[p] \notin {"fill", "clear"} /\ pc'[p] \notin {"ptrunc", "psave"}
        /\ UNCHANGED <<dfile, ufile, broken>>
    BY <1>0, <1>3, MigrateLoadEffect
  <2> QED
    BY <1>a, <2>1 DEF SplitBy
<1>4. CASE MigrateCreate(p)
  BY <1>0, <1>4, MigrateCreateEffect DEF SplitBy
<1>5. CASE MigrateFill(p)
  <2>1. /\ pc[p] = "fill" /\ dfile' = dfile
        /\ job[p].leg # NoUsers => pc'[p] = "clear"
        /\ pc'[p] \in {"clear", "edit", "load"}
    BY <1>0, <1>5, MigrateFillEffect DEF AfterUsersFile
  <2>2. dfile.list = job[p].leg
    BY <1>0, <2>1 DEF Carries
  <2> QED
    BY <2>1, <2>2 DEF SplitBy
<1>6. CASE MigrateClear(p)
  <2>1. dfile' = Empty \/ dfile' = File(NoUsers)
    BY <1>0, <1>6, MigrateClearEffect
  <2>2. pc'[p] \in {"cleared", "edit", "load"}
    BY <1>0, <1>6, MigrateClearEffect DEF AfterUsersFile
  <2> QED
    BY <2>1, <2>2, Contents DEF SplitBy
<1>7. CASE LoadUsersDoc(p)
  <2>1. /\ pc[p] \notin {"fill", "clear"} /\ pc'[p] \notin {"ptrunc", "psave"}
        /\ UNCHANGED <<dfile, ufile, broken>>
    BY <1>0, <1>7, LoadUsersEffect
  <2> QED
    BY <1>a, <2>1 DEF SplitBy
<1>8. CASE TruncateUsers(p)
  <2>1. pc[p] = "trunc" /\ pc'[p] = "save" /\ UNCHANGED <<dfile, broken>>
    BY <1>0, <1>8, TruncateEffect
  <2>2. ufile.st # "missing"
    BY <1>0, <2>1 DEF Stage, Edits
  <2> QED
    BY <1>a, <2>1, <2>2 DEF SplitBy
<1>9. CASE SaveUsers(p)
  <2>1. pc[p] = "save" /\ pc'[p] \in {"idle", "sudo"} /\ UNCHANGED <<dfile, broken>>
    BY <1>0, <1>9, SaveUsersEffect
  <2>2. ufile.st # "missing"
    BY <1>0, <2>1 DEF Stage, Edits
  <2> QED
    BY <1>a, <2>1, <2>2 DEF SplitBy
<1>10. CASE LoadSudoDoc(p)
  <2>1. /\ pc[p] = "sudo" /\ pc'[p] \in {"idle", "strunc"}
        /\ UNCHANGED <<dfile, ufile>> /\ (broken' \/ broken' = broken)
    BY <1>0, <1>10, LoadSudoEffect
  <2>2. ~broken
    BY <2>1
  <2> QED
    BY <1>a, <2>1, <2>2 DEF SplitBy
<1>11. CASE SaveSudo(p)
  <2>1. /\ pc[p] \notin {"fill", "clear"} /\ pc'[p] \notin {"ptrunc", "psave"}
        /\ UNCHANGED <<dfile, ufile, broken>>
    BY <1>0, <1>11, SaveSudoEffect
  <2> QED
    BY <1>a, <2>1 DEF SplitBy
<1>12. CASE ReadForEdit(p)
  <2>1. /\ pc[p] \notin {"fill", "clear"} /\ pc'[p] \notin {"ptrunc", "psave"}
        /\ UNCHANGED <<dfile, ufile, broken>>
    BY <1>0, <1>12, ReadForEditEffect
  <2> QED
    BY <1>a, <2>1 DEF SplitBy
<1>13. CASE EditUsers(p)
  <2>1. /\ pc[p] \notin {"fill", "clear"} /\ pc'[p] \notin {"ptrunc", "psave"}
        /\ UNCHANGED <<dfile, ufile, broken>>
    BY <1>0, <1>13, EditUsersEffect
  <2> QED
    BY <1>a, <2>1 DEF SplitBy
<1>14. CASE EditDaemon(p)
  <2>1. /\ pc[p] \notin {"fill", "clear"} /\ pc'[p] \notin {"ptrunc", "psave"}
        /\ UNCHANGED <<dfile, ufile, broken>>
    BY <1>0, <1>14, EditDaemonEffect
  <2> QED
    BY <1>a, <2>1 DEF SplitBy
<1>15. CASE EditSudo(p)
  <2>1. /\ pc[p] \notin {"fill", "clear"} /\ pc'[p] \notin {"ptrunc", "psave"}
        /\ UNCHANGED <<dfile, ufile, broken>>
    BY <1>0, <1>15, EditSudoEffect
  <2> QED
    BY <1>a, <2>1 DEF SplitBy
<1>16. CASE Rename(p)
  <2>1. pc[p] = "rename" /\ pc'[p] = "idle" /\ broken' = broken
    BY <1>0, <1>16, RenameEffect
  <2>2. CASE job[p].verb = "edit users" /\ dfile' = dfile
    <3>1. ufile.st # "missing"
      BY <1>0, <2>1, <2>2 DEF Stage
    <3> QED
      BY <1>a, <2>1, <2>2, <3>1 DEF SplitBy
  <2>3. CASE job[p].verb = "edit daemon" /\ dfile' = File(job[p].leg) /\ ufile' = ufile
    <3>1. job[p].leg = NoUsers \/ ufile.st = "missing"
      BY <1>0, <2>1, <2>3 DEF Carries
    <3> QED
      BY <2>1, <2>3, <3>1, Contents DEF SplitBy
  <2>4. CASE UNCHANGED <<dfile, ufile>>
    BY <1>a, <2>1, <2>4 DEF SplitBy
  <2> QED
    BY <1>0, <1>16, <2>2, <2>3, <2>4, RenameEffect
<1>17. CASE Die(p)
  BY <1>0, <1>17, DieEffect
<1>18. ASSUME NEW n \in Names, PinLoad(p, n)
       PROVE  SplitBy(p)'
  <2>1. /\ pc[p] = "idle" /\ UNCHANGED <<dfile, ufile, broken>>
        /\ pc'[p] = "trunc" \/ (pc'[p] = "ptrunc" /\ dfile.list[n] # 0)
    BY <1>0, <1>18, PinLoadEffect
  <2> QED
    BY <1>a, <2>1, Contents DEF SplitBy
<1>19. CASE PinLegacy(p)
  <2>1. pc[p] \in {"ptrunc", "psave"} /\ UNCHANGED <<ufile, broken>>
    BY <1>0, <1>19, PinLegacyEffect
  <2> QED
    BY <1>a, <2>1 DEF SplitBy
<1> QED
  BY <1>1, <1>2, <1>3, <1>4, <1>5, <1>6, <1>7, <1>8, <1>9, <1>10, <1>11, <1>12, <1>13,
     <1>14, <1>15, <1>16, <1>17, <1>18, <1>19 DEF Command

\* At first everybody made is listed, in one file.
LEMMA InitKept == Init => Kept /\ Split
<1> SUFFICES ASSUME Init
             PROVE  Kept /\ Split
  OBVIOUS
<1>1. Missing.st = "missing"
  BY DEF Missing
<1>2. /\ dfile.list = made \/ ufile.list = made
      /\ ufile.st = "missing" \/ dfile.list = NoUsers
  BY <1>1, Contents DEF Init
<1> QED
  BY <1>2 DEF Kept, Split, Init

\* Every step keeps everybody, and the lists apart.
LEMMA StepKept == DirInv /\ Kept /\ Split /\ [Next]_vars => Kept' /\ Split'
<1> SUFFICES ASSUME DirInv, Kept, Split, [Next]_vars
             PROVE  Kept' /\ Split'
  OBVIOUS
<1>1. ASSUME NEW p \in Procs, Command(p)
      PROVE  Kept' /\ Split'
  BY <1>1, KeptStep, SplitStep
<1>2. CASE UNCHANGED <<dfile, ufile, pc, job, made, removed, overlap, broken, torn>>
  BY <1>2 DEF Kept, Split
<1>3. CASE ReadDaemonYaml \/ ReadUsersYaml \/ ReadSudoYaml \/ Swap \/ Stop
  <2>1. Typed
    BY TypedIsTypeOK DEF DirInv
  <2>2. UNCHANGED <<files, pc, job, history>>
    BY <1>3, <2>1, DaemonTypes
  <2> QED
    BY <1>2, <2>2
<1>4. CASE UNCHANGED vars
  BY <1>2, <1>4 DEF vars
<1> QED
  BY <1>1, <1>3, <1>4 DEF Next

-----------------------------------------------------------------------------
(* Grants are for the entries they were given to.                          *)

\* The list in effect stays, and so do the grants and what was read.
LEMMA FitsQuiet ==
    ASSUME NEW p \in Procs, NEW m \in Names, Fits(p, m),
           Writing(p)'[m] = Writing(p)[m],
           Drops(p, m) => Drops(p, m)',
           pc'[p] \notin {"strunc", "ssave"},
           UNCHANGED <<sfile, rl, rd, ru>>
    PROVE  Fits(p, m)'
BY DEF Fits, NotNewer

\* Outside the two stages in which users.yaml is being written.
LEMMA FitsOutside ==
    ASSUME NEW p \in Procs, NEW m \in Names, Fits(p, m),
           pc[p] \notin {"save", "psave", "fill", "sudo", "strunc"},
           pc'[p] \notin {"save", "psave", "fill", "strunc", "ssave"},
           UNCHANGED <<dfile, ufile, sfile, rl, rd, ru>>
    PROVE  Fits(p, m)'
<1>1. Writing(p)' = Writing(p)
  BY DEF Writing, Chosen
<1>2. ~Drops(p, m)
  BY DEF Drops
<1> QED
  BY <1>1, <1>2, FitsQuiet

\* A step of a command leaves the grants fitting the list in effect.
LEMMA FitsStep ==
    ASSUME DirInv, Kept, Split, GrantsFit, NEW p \in Procs, Command(p)
    PROVE  GrantsFit'
<1> SUFFICES ASSUME ~overlap', ~broken', NEW m \in Names, m \notin orphans'
             PROVE  /\ \A q \in Procs : pc'[q] # "idle" => Fits(q, m)'
                    /\ (\A q \in Procs : pc'[q] = "idle") => Fit(m, Chosen(dfile.list, ufile)[m])'
  BY DEF GrantsFit
<1>0. Typed /\ Stages /\ Solo(p) /\ Stage(p) /\ Carries(p) /\ Typed'
  BY TypedIsTypeOK, AloneStep, CommandTypes DEF DirInv, Solo, Carried, Stages
<1>1. SUFFICES Fits(p, m)'
  <2>1. ASSUME Fits(p, m)', pc'[p] = "idle"
        PROVE  Fit(m, Chosen(dfile.list, ufile)[m])'
    BY <2>1 DEF Fits, Fit, Writing, Drops
  <2> QED
    BY <1>0, <2>1 DEF Solo
<1>a. ~broken /\ m \notin orphans => Fits(p, m)
  <2>1. CASE pc[p] = "idle"
    <3>1. ~broken /\ m \notin orphans => Fit(m, Chosen(dfile.list, ufile)[m])
      BY <1>0, <2>1 DEF GrantsFit, Solo
    <3> QED
      BY <2>1, <3>1 DEF Fits, Fit, Writing, NotNewer
  <2>2. CASE pc[p] # "idle"
    BY <1>0, <2>2 DEF GrantsFit, Solo
  <2> QED
    BY <2>1, <2>2
<1>b. /\ dfile.list \in Lists /\ ufile.list \in Lists /\ job[p].doc \in Lists
      /\ job[p].leg \in Lists /\ made \in Lists
  BY <1>0, FieldTypes DEF Typed
<1>c. /\ sfile.list[m] \in Nat /\ made[m] \in Nat /\ rd[m] \in Nat /\ ru[m] \in Nat
      /\ dfile.list[m] \in Nat /\ ufile.list[m] \in Nat
      /\ job[p].doc[m] \in Nat /\ job[p].leg[m] \in Nat
  <2>1. rd \in Lists /\ ru \in Lists /\ sfile.list \in Lists
    BY <1>0, FieldTypes DEF Typed
  <2> QED
    BY <1>b, <2>1 DEF Lists
<1>d. Generation(m) /\ LegacyGeneration(p, m)
  BY DEF DirInv, Generations
<1> USE DEF Quiet, Same
<1>2. ASSUME NEW v \in Commands, NEW n \in Names, StartCommand(p, v, n)
      PROVE  Fits(p, m)'
  <2>1. /\ pc[p] \notin {"save", "psave", "fill", "sudo", "strunc"}
        /\ pc'[p] \notin {"save", "psave", "fill", "strunc", "ssave"}
        /\ UNCHANGED <<dfile, ufile, sfile, rl, rd, ru, broken, orphans>>
    BY <1>0, <1>2, StartEffect
  <2> QED
    BY <1>a, <2>1, FitsOutside
<1>3. CASE UsersFileThere(p)
  <2>1. /\ pc[p] \notin {"save", "psave", "fill", "sudo", "strunc"}
        /\ pc'[p] \notin {"save", "psave", "fill", "strunc", "ssave"}
        /\ UNCHANGED <<dfile, ufile, sfile, rl, rd, ru, broken, orphans>>
    BY <1>0, <1>3, UsersFileThereEffect DEF AfterUsersFile
  <2> QED
    BY <1>a, <2>1, FitsOutside
<1>4. CASE MigrateLoad(p)
  <2>1. /\ pc[p] \notin {"save", "psave", "fill", "sudo", "strunc"}
        /\ pc'[p] \notin {"save", "psave", "fill", "strunc", "ssave"}
        /\ UNCHANGED <<dfile, ufile, sfile, rl, rd, ru, broken, orphans>>
    BY <1>0, <1>4, MigrateLoadEffect
  <2> QED
    BY <1>a, <2>1, FitsOutside
<1>5. CASE MigrateCreate(p)
  <2>1. /\ pc[p] = "migrate" /\ pc'[p] = "fill"
        /\ UNCHANGED <<dfile, sfile, rl, rd, ru, broken, orphans>>
    BY <1>0, <1>5, MigrateCreateEffect
  <2>2. Writing(p) = dfile.list /\ Writing(p)' = dfile.list /\ ~Drops(p, m)
    BY <1>0, <2>1 DEF Writing, Chosen, Carries, Drops
  <2> QED
    BY <1>a, <2>1, <2>2, FitsQuiet
<1>6. CASE MigrateFill(p)
  <2>1. /\ pc[p] = "fill" /\ pc'[p] \in {"clear", "edit", "load"} /\ ufile' = File(job[p].leg)
        /\ UNCHANGED <<dfile, sfile, rl, rd, ru, broken, orphans>>
    BY <1>0, <1>6, MigrateFillEffect DEF AfterUsersFile
  <2>2. ufile'.list = job[p].leg /\ ufile'.st = "doc"
    BY <2>1, Contents
  <2>3. Writing(p) = dfile.list /\ Writing(p)' = dfile.list /\ ~Drops(p, m)
    BY <1>0, <2>1, <2>2 DEF Writing, Chosen, Carries, Drops
  <2> QED
    BY <1>a, <2>1, <2>3, FitsQuiet
<1>7. CASE MigrateClear(p)
  <2>1. /\ pc[p] \in {"clear", "cleared"} /\ pc'[p] \in {"cleared", "edit", "load"}
        /\ UNCHANGED <<ufile, sfile, rl, rd, ru, broken, orphans>>
    BY <1>0, <1>7, MigrateClearEffect DEF AfterUsersFile
  <2>2. ufile.st # "missing"
    BY <1>0, <2>1 DEF Stage
  <2>3. Writing(p) = ufile.list /\ Writing(p)' = ufile.list /\ ~Drops(p, m)
    BY <2>1, <2>2 DEF Writing, Chosen, Drops
  <2> QED
    BY <1>a, <2>1, <2>3, FitsQuiet
<1>8. CASE LoadUsersDoc(p)
  <2>1. /\ pc[p] \notin {"save", "psave", "fill", "sudo", "strunc"}
        /\ pc'[p] \notin {"save", "psave", "fill", "strunc", "ssave"}
        /\ UNCHANGED <<dfile, ufile, sfile, rl, rd, ru, broken, orphans>>
    BY <1>0, <1>8, LoadUsersEffect
  <2> QED
    BY <1>a, <2>1, FitsOutside
<1>9. CASE TruncateUsers(p)
  <2> DEFINE who == job[p].who
             verb == job[p].verb
  <2>1. /\ pc[p] = "trunc" /\ pc'[p] = "save" /\ job'[p] = job[p]
        /\ UNCHANGED <<sfile, rl, rd, ru, broken, orphans>>
    BY <1>0, <1>9, TruncateEffect
  <2>2. /\ ufile.st # "missing" /\ verb \in Verbs /\ who \in Names
        /\ job[p].doc = Edited(ufile.list, verb, who) /\ ~Refused(ufile.list, verb, who)
    BY <1>0, <2>1 DEF Stage, Edits, Carries
  <2>3. /\ Writing(p) = ufile.list /\ Writing(p)' = job[p].doc
        /\ ~Drops(p, m) /\ (Drops(p, m)' <=> verb = "delete" /\ who = m)
    BY <2>1, <2>2 DEF Writing, Chosen, Drops
  <2>4. CASE m = who /\ verb \in {"create", "create --grant"}
    <3>1. ufile.list[m] = 0 /\ job[p].doc[m] = made[m] + 1
      BY <1>b, <2>2, <2>4 DEF Edited, Refused, Lists
    <3>2. sfile.list[m] = 0
      BY <1>a, <2>1, <2>3, <3>1 DEF Fits
    <3>3. NotNewer(m, job[p].doc[m])
      BY <1>c, <1>d, <3>1 DEF NotNewer, Generation
    <3> QED
      BY <2>1, <2>3, <3>2, <3>3 DEF Fits, NotNewer
  <2>5. CASE m = who /\ verb = "delete"
    <3>1. job[p].doc[m] = 0
      BY <1>b, <2>2, <2>5 DEF Edited, Lists
    <3> QED
      BY <1>a, <2>1, <2>3, <2>5, <3>1 DEF Fits, NotNewer
  <2>6. CASE m # who \/ verb \notin {"create", "create --grant", "delete"}
    <3>1. job[p].doc[m] = ufile.list[m]
      BY <1>b, <2>2, <2>6 DEF Edited, Lists
    <3> QED
      BY <1>a, <2>1, <2>3, <3>1, FitsQuiet
  <2> QED
    BY <2>4, <2>5, <2>6
<1>10. CASE SaveUsers(p)
  <2>1. /\ pc[p] = "save" /\ ufile' = File(job[p].doc)
        /\ \/ pc'[p] = "idle" /\ job[p].verb \in {"update", "pin"}
           \/ pc'[p] = "sudo" /\ job'[p] = job[p]
        /\ UNCHANGED <<sfile, rl, rd, ru, broken, orphans>>
    BY <1>0, <1>10, SaveUsersEffect
  <2>2. ufile'.list = job[p].doc /\ ufile'.st = "doc"
    BY <2>1, Contents
  <2>3. Writing(p) = job[p].doc /\ Writing(p)' = job[p].doc /\ (Drops(p, m) => Drops(p, m)')
    BY <2>1, <2>2 DEF Writing, Chosen, Drops
  <2> QED
    BY <1>a, <2>1, <2>3, FitsQuiet
<1>11. CASE LoadSudoDoc(p)
  <2>1. /\ pc[p] = "sudo" /\ pc'[p] = "strunc" /\ broken' = broken
        /\ job'[p].verb = job[p].verb /\ job'[p].who = job[p].who
        /\ UNCHANGED <<dfile, ufile, sfile, rl, rd, ru, orphans>>
    BY <1>0, <1>11, LoadSudoEffect
  <2>2. job'[p].gdoc.list[m] = IF m # job[p].who THEN sfile.list[m]
                               ELSE IF job[p].verb = "delete" THEN 0 ELSE job[p].doc[m]
    BY <1>0, <1>11, LoadSudoEffect
  <2>3. ufile.st # "missing" /\ ufile.list = job[p].doc
    BY <1>0, <2>1 DEF Stage, Edits, Carries
  <2>4. /\ Writing(p) = ufile.list /\ Writing(p)' = ufile.list
        /\ Drops(p, m) <=> job[p].verb = "delete" /\ job[p].who = m
        /\ Drops(p, m) => Drops(p, m)'
    BY <2>1, <2>3 DEF Writing, Chosen, Drops
  <2>5. Fits(p, m)
    BY <1>a, <2>1
  <2>6. job'[p].gdoc.list[m] \in {0, ufile.list[m]}
    BY <2>2, <2>3, <2>4, <2>5 DEF Fits
  <2> QED
    BY <2>1, <2>4, <2>5, <2>6 DEF Fits, NotNewer
<1>12. CASE SaveSudo(p)
  <2>1. UNCHANGED <<dfile, ufile, rl, rd, ru, broken, orphans>> /\ pc[p] \in {"strunc", "ssave"}
    BY <1>0, <1>12, SaveSudoEffect
  <2>2. Fits(p, m) /\ ufile.st # "missing"
    BY <1>0, <1>a, <2>1 DEF Stage, Edits
  <2>3. pc'[p] \in {"ssave", "idle"}
    BY <1>0, <1>12, SaveSudoEffect
  <2>4. Writing(p) = ufile.list /\ Writing(p)' = ufile.list
    BY <2>1, <2>2, <2>3 DEF Writing, Chosen
  <2>5. CASE pc'[p] = "ssave" /\ job'[p] = job[p] /\ sfile' = NoGrants
    <3>1. sfile'.list[m] = 0
      BY <2>5, Contents
    <3> QED
      BY <2>1, <2>2, <2>4, <2>5, <3>1 DEF Fits, NotNewer
  <2>6. CASE pc'[p] = "idle" /\ sfile' = job[p].gdoc
    <3>1. sfile'.list[m] \in {0, ufile.list[m]}
      BY <2>1, <2>2, <2>6 DEF Fits
    <3> QED
      BY <2>1, <2>2, <2>4, <2>6, <3>1 DEF Fits, NotNewer
  <2> QED
    BY <1>0, <1>12, <2>5, <2>6, SaveSudoEffect
<1>13. CASE ReadForEdit(p)
  <2>1. /\ pc[p] \notin {"save", "psave", "fill", "sudo", "strunc"}
        /\ pc'[p] \notin {"save", "psave", "fill", "strunc", "ssave"}
        /\ UNCHANGED <<dfile, ufile, sfile, rl, rd, ru, broken, orphans>>
    BY <1>0, <1>13, ReadForEditEffect
  <2> QED
    BY <1>a, <2>1, FitsOutside
<1>14. CASE EditUsers(p)
  <2>1. /\ pc[p] \notin {"save", "psave", "fill", "sudo", "strunc"}
        /\ pc'[p] \notin {"save", "psave", "fill", "strunc", "ssave"}
        /\ UNCHANGED <<dfile, ufile, sfile, rl, rd, ru, broken, orphans>>
    BY <1>0, <1>14, EditUsersEffect
  <2> QED
    BY <1>a, <2>1, FitsOutside
<1>15. CASE EditDaemon(p)
  <2>1. /\ pc[p] \notin {"save", "psave", "fill", "sudo", "strunc"}
        /\ pc'[p] \notin {"save", "psave", "fill", "strunc", "ssave"}
        /\ UNCHANGED <<dfile, ufile, sfile, rl, rd, ru, broken, orphans>>
    BY <1>0, <1>15, EditDaemonEffect
  <2> QED
    BY <1>a, <2>1, FitsOutside
<1>16. CASE EditSudo(p)
  <2>1. /\ pc[p] \notin {"save", "psave", "fill", "sudo", "strunc"}
        /\ pc'[p] \notin {"save", "psave", "fill", "strunc", "ssave"}
        /\ UNCHANGED <<dfile, ufile, sfile, rl, rd, ru, broken, orphans>>
    BY <1>0, <1>16, EditSudoEffect
  <2> QED
    BY <1>a, <2>1, FitsOutside
<1>17. CASE Rename(p)
  <2>1. pc[p] = "rename" /\ pc'[p] = "idle" /\ UNCHANGED <<rl, rd, ru, broken>>
    BY <1>0, <1>17, RenameEffect
  <2>2. m \notin orphans
    BY <1>0, <1>17, RenameEffect DEF EditedByHand
  <2>3. Fits(p, m) /\ ~Drops(p, m) /\ Writing(p) = Chosen(dfile.list, ufile)
    BY <1>a, <2>1, <2>2 DEF Drops, Writing
  <2>5. CASE /\ job[p].verb = "edit users" /\ ufile' = File(job[p].doc) /\ sfile' = sfile
             /\ EditedByHand(ufile.list, job[p].doc)
    <3>1. ufile.st # "missing" /\ job[p].doc[m] \in {0, ufile.list[m]}
      BY <1>0, <2>1, <2>5 DEF Stage, Carries
    <3>2. ufile'.list = job[p].doc /\ ufile'.st = "doc"
      BY <2>5, Contents
    <3>3. ufile.list[m] # 0 => job[p].doc[m] # 0
      BY <2>5 DEF EditedByHand, Users
    <3>4. Writing(p)[m] = ufile.list[m] /\ Writing(p)'[m] = ufile.list[m]
      BY <2>3, <2>1, <3>1, <3>2, <3>3 DEF Writing, Chosen
    <3> QED
      BY <2>1, <2>3, <2>5, <3>4, FitsQuiet
  <2>6. CASE /\ job[p].verb = "edit daemon" /\ dfile' = File(job[p].leg) /\ UNCHANGED <<ufile, sfile>>
             /\ EditedByHand(dfile.list, job[p].leg)
    <3>1. CASE ufile.st # "missing"
      <4>1. Writing(p)'[m] = Writing(p)[m]
        BY <2>1, <2>6, <3>1 DEF Writing, Chosen
      <4> QED
        BY <2>1, <2>3, <2>6, <4>1, FitsQuiet
    <3>2. CASE ufile.st = "missing"
      <4>1. Writing(p)[m] = dfile.list[m] /\ Writing(p)'[m] = job[p].leg[m]
        BY <2>1, <2>6, <3>2, Contents DEF Writing, Chosen
      <4>2. dfile.list[m] # 0 => job[p].leg[m] # 0
        BY <2>6 DEF EditedByHand, Users
      <4>3. /\ job[p].leg[m] <= 1 /\ made[m] <= 1 /\ dfile.list[m] <= made[m]
            /\ dfile.list[m] # 0 \/ made[m] = 0
            /\ rd[m] <= made[m] /\ ru[m] <= made[m]
        <5>1. /\ job[p].leg[m] <= 1 /\ made[m] <= 1 /\ dfile.list[m] <= made[m]
              /\ rd[m] <= made[m] /\ ru[m] <= made[m] /\ m \notin removed
          BY <1>d, <2>1, <2>2, <3>2 DEF Generation, LegacyGeneration
        <5>2. ~torn /\ ~overlap /\ ufile.list[m] = 0
          BY <1>0, <2>1, <3>2, Contents DEF DirInv, Shapes, Solo
        <5>3. \A q \in Procs : pc[q] \notin {"save", "psave"}
          BY <1>0, <2>1 DEF Solo
        <5> QED
          BY <5>1, <5>2, <5>3 DEF Kept
      <4>4. CASE dfile.list[m] # 0
        <5>1. job[p].leg[m] = dfile.list[m]
          BY <1>c, <4>2, <4>3, <4>4
        <5> QED
          BY <2>1, <2>3, <2>6, <4>1, <5>1, FitsQuiet
      <4>5. CASE dfile.list[m] = 0
        <5>1. sfile.list[m] = 0
          BY <2>3, <4>1, <4>5 DEF Fits
        <5>2. NotNewer(m, job[p].leg[m])
          BY <1>c, <4>3, <4>5 DEF NotNewer
        <5> QED
          BY <2>1, <2>6, <4>1, <5>1, <5>2 DEF Fits, NotNewer
      <4> QED
        BY <4>4, <4>5
    <3> QED
      BY <3>1, <3>2
  <2>7. CASE /\ job[p].verb = "edit sudo" /\ sfile' = job[p].gdoc /\ UNCHANGED <<dfile, ufile>>
             /\ orphans' = orphans \cup {n \in Names : /\ Chosen(dfile.list, ufile)[n] = 0
                                                      /\ job[p].gdoc.list[n] \notin {0, sfile.list[n]}}
    <3>0. Chosen(dfile.list, ufile)[m] # 0 \/ job[p].gdoc.list[m] \in {0, sfile.list[m]}
      BY <2>7
    <3>1. sfile'.list[m] \in {0, sfile.list[m], Chosen(dfile.list, ufile)[m]}
      BY <1>0, <2>1, <2>7, <3>0 DEF Carries
    <3>2. Writing(p)' = Writing(p)
      BY <2>1, <2>7 DEF Writing, Chosen
    <3> QED
      BY <2>1, <2>3, <3>1, <3>2 DEF Fits, NotNewer
  <2> QED
    BY <1>0, <1>17, <2>5, <2>6, <2>7, RenameEffect
<1>18. CASE Die(p)
  BY <1>0, <1>18, DieEffect
<1>19. ASSUME NEW n \in Names, PinLoad(p, n)
       PROVE  Fits(p, m)'
  <2>1. /\ pc[p] \notin {"save", "psave", "fill", "sudo", "strunc"}
        /\ pc'[p] \notin {"save", "psave", "fill", "strunc", "ssave"}
        /\ UNCHANGED <<dfile, ufile, sfile, rl, rd, ru, broken, orphans>>
    BY <1>0, <1>19, PinLoadEffect
  <2> QED
    BY <1>a, <2>1, FitsOutside
<1>20. CASE PinLegacy(p)
  <2>1. /\ pc[p] \in {"ptrunc", "psave"} /\ pc'[p] \in {"psave", "idle"}
        /\ UNCHANGED <<ufile, sfile, rl, rd, ru, broken, orphans>>
    BY <1>0, <1>20, PinLegacyEffect
  <2>2. ufile.st = "missing" /\ ~Drops(p, m)
    BY <1>0, <2>1 DEF Split, Solo, Drops
  <2>3. Writing(p) = job[p].leg
    BY <1>0, <2>1, <2>2 DEF Writing, Chosen, Carries
  <2>4. Writing(p)' = job[p].leg
    BY <1>0, <1>20, <2>1, <2>2, PinLegacyEffect, Contents DEF Writing, Chosen
  <2> QED
    BY <1>a, <2>1, <2>2, <2>3, <2>4, FitsQuiet
<1> QED
  BY <1>2, <1>3, <1>4, <1>5, <1>6, <1>7, <1>8, <1>9, <1>10, <1>11, <1>12, <1>13, <1>14,
     <1>15, <1>16, <1>17, <1>18, <1>19, <1>20 DEF Command

\* A reload reads users before grants: what it read is not newer than the list
\* in effect, whatever a command is doing, nor than the grants.
LEMMA ReloadFits ==
    ASSUME DirInv, Split, GrantsFit, ReadDaemonYaml \/ ReadUsersYaml \/ ReadSudoYaml \/ Swap \/ Stop
    PROVE  GrantsFit'
<1>0. Typed /\ Stages /\ Shapes
  BY TypedIsTypeOK DEF DirInv
<1>1. /\ UNCHANGED <<files, pc, job, history>>
      /\ UNCHANGED <<dfile, ufile, sfile, pc, job, orphans, overlap, broken>>
  BY <1>0, DaemonTypes
<1> SUFFICES ASSUME ~overlap, ~broken, NEW m \in Names, m \notin orphans
             PROVE  /\ \A q \in Procs : pc[q] # "idle" => Fits(q, m)'
                    /\ (\A q \in Procs : pc[q] = "idle") => Fit(m, Chosen(dfile.list, ufile)[m])'
  BY <1>1 DEF GrantsFit
<1>2. /\ sfile.list[m] \in Nat /\ rd[m] \in Nat /\ ru[m] \in Nat
      /\ dfile.list[m] \in Nat /\ ufile.list[m] \in Nat
  <2>1. /\ dfile.list \in Lists /\ ufile.list \in Lists /\ sfile.list \in Lists
        /\ rd \in Lists /\ ru \in Lists
    BY <1>0, FieldTypes DEF Typed
  <2> QED
    BY <2>1 DEF Lists
<1>3. ASSUME NEW g \in Nat, NotNewer(m, g),
             g # 0 => dfile.list[m] <= g /\ (ufile.st # "missing" => ufile.list[m] <= g)
      PROVE  NotNewer(m, g)'
  <2>1. CASE ReadDaemonYaml
    BY <1>3, <2>1 DEF ReadDaemonYaml, NotNewer
  <2>2. CASE ReadUsersYaml
    <3>1. CASE rl' = "idle"
      BY <3>1 DEF NotNewer
    <3>2. CASE ru' = Chosen(rd, ufile) /\ rl = "daemon" /\ rd' = rd
      BY <1>3, <3>2 DEF NotNewer, Chosen
    <3> QED
      BY <2>2, <3>1, <3>2 DEF ReadUsersYaml, LoadEnds
  <2>3. CASE ReadSudoYaml
    <3>1. rl' = "idle" \/ (rl' = "sudo" /\ rl = "users" /\ rd' = rd)
      BY <2>3 DEF ReadSudoYaml, LoadEnds
    <3> QED
      BY <1>3, <3>1 DEF NotNewer
  <2>4. CASE Swap \/ Stop
    BY <2>4 DEF Swap, Stop, LoadEnds, NotNewer
  <2> QED
    BY <2>1, <2>2, <2>3, <2>4
<1>4. ASSUME NEW q \in Procs, pc[q] # "idle"
      PROVE  Fits(q, m)'
  <2>1. Fits(q, m) /\ Stage(q) /\ Carries(q) /\ \A r \in Procs : r # q => pc[r] = "idle"
    BY <1>0, <1>4 DEF GrantsFit, Stages, DirInv, Carried, Alone
  <2>2. ufile.st # "missing" => /\ dfile.list = NoUsers \/ pc[q] \in {"fill", "clear"}
                                /\ pc[q] # "psave"
    BY <2>1 DEF Split
  <2>3. Writing(q)[m] \in Nat
    <3>1. job[q].doc \in Lists /\ job[q].leg \in Lists
      BY <1>0, FieldTypes DEF Typed
    <3> QED
      BY <1>2, <3>1 DEF Writing, Chosen, Lists
  <2>4. dfile.list[m] \in {0, Writing(q)[m]}
    <3>1. CASE ufile.st = "missing"
      <4>1. pc[q] # "save"
        BY <2>1, <3>1 DEF Stage, Edits
      <4>2. pc[q] = "psave" => dfile.list[m] = 0
        BY <2>1, Contents DEF Carries
      <4> QED
        BY <3>1, <4>1, <4>2 DEF Writing, Chosen
    <3>2. CASE dfile.list = NoUsers
      BY <3>2, Contents
    <3>3. CASE ufile.st # "missing" /\ pc[q] \in {"fill", "clear"}
      BY <2>1, <3>3 DEF Writing, Chosen, Carries
    <3> QED
      BY <2>2, <3>1, <3>2, <3>3
  <2>5. ufile.st # "missing" => ufile.list[m] \in {0, Writing(q)[m]}
    BY <2>1, <2>2, Contents DEF Writing, Chosen, Carries
  <2>6. NotNewer(m, Writing(q)[m])'
    <3>1. NotNewer(m, Writing(q)[m]) /\ Writing(q)' = Writing(q)
      BY <1>1, <2>1 DEF Fits, Writing, Chosen
    <3>2. Writing(q)[m] # 0 => /\ dfile.list[m] <= Writing(q)[m]
                               /\ ufile.st # "missing" => ufile.list[m] <= Writing(q)[m]
      BY <2>3, <2>4, <2>5
    <3> QED
      BY <1>3, <2>3, <3>1, <3>2 DEF NotNewer
  <2>7. NotNewer(m, sfile.list[m])'
    <3>1. sfile.list[m] # 0 => /\ dfile.list[m] <= sfile.list[m]
                               /\ ufile.st # "missing" => ufile.list[m] <= sfile.list[m]
      <4>1. CASE sfile.list[m] \in {0, Writing(q)[m]}
        BY <1>2, <2>3, <2>4, <2>5, <4>1
      <4>2. CASE Drops(q, m)
        <5>1. ufile.st # "missing"
          BY <2>1, <4>2 DEF Drops, Stage
        <5>2. dfile.list[m] = 0
          BY <2>2, <4>2, <5>1, Contents DEF Drops
        <5>3. ufile.list[m] = 0
          BY <2>1, <4>2, Contents DEF Drops, Carries
        <5> QED
          BY <1>2, <5>2, <5>3
      <4> QED
        BY <2>1, <4>1, <4>2 DEF Fits
    <3>2. NotNewer(m, sfile.list[m])
      BY <2>1 DEF Fits
    <3> QED
      BY <1>1, <1>2, <1>3, <3>1, <3>2 DEF NotNewer
  <2> QED
    BY <1>1, <2>1, <2>6, <2>7 DEF Fits, Drops, Writing, Chosen
<1>5. ASSUME \A q \in Procs : pc[q] = "idle"
      PROVE  Fit(m, Chosen(dfile.list, ufile)[m])'
  <2> DEFINE g == Chosen(dfile.list, ufile)[m]
  <2>1. Fit(m, g)
    BY <1>5 DEF GrantsFit
  <2>2. g \in Nat /\ (dfile.list[m] \in {0, g}) /\ (ufile.st # "missing" => ufile.list[m] = g)
    BY <1>2, <1>5, Contents DEF Chosen, Split
  <2>3. g # 0 => dfile.list[m] <= g /\ (ufile.st # "missing" => ufile.list[m] <= g)
    BY <2>2
  <2>4. UNCHANGED g
    BY <1>1 DEF Chosen
  <2> HIDE DEF g
  <2>5. NotNewer(m, g)'
    BY <1>3, <2>1, <2>2, <2>3, <2>4 DEF Fit, NotNewer
  <2> QED
    BY <1>1, <2>1, <2>4, <2>5 DEF Fit, g
<1> QED
  BY <1>4, <1>5

-----------------------------------------------------------------------------
\* At first grants are for listed users.
LEMMA InitGrants == Init => GrantsFit /\ ReadFits /\ NoInheritedGrants
<1> SUFFICES ASSUME Init
             PROVE  GrantsFit /\ ReadFits /\ NoInheritedGrants
  OBVIOUS
<1> PICK list \in [Names -> {0, 1}], gr \in [Names -> {0, 1}] :
            /\ \A n \in Names : gr[n] <= list[n]
            /\ \/ dfile = File(list) /\ ufile = Missing
               \/ dfile = File(NoUsers) /\ ufile = File(list)
            /\ sfile = Grants(gr, {}) /\ pc = [q \in Procs |-> "idle"]
            /\ mUsers = list /\ mGrants = gr /\ rl = "idle"
  BY DEF Init
<1>1. Chosen(dfile.list, ufile) = list /\ sfile.list = gr
  BY Contents DEF Chosen, Missing, Grants, File
<1>2. \A n \in Names : gr[n] \in {0, list[n]} /\ (gr[n] # 0 => gr[n] >= list[n])
  <2> TAKE n \in Names
  <2>1. gr[n] \in {0, 1} /\ list[n] \in {0, 1} /\ gr[n] <= list[n]
    OBVIOUS
  <2> QED
    BY <2>1
<1>3. GrantsFit /\ ReadFits
  BY <1>1, <1>2 DEF GrantsFit, Fit, NotNewer, ReadFits
<1>4. NoInheritedGrants
  BY <1>2 DEF NoInheritedGrants
<1> QED
  BY <1>3, <1>4

\* That a command died is not forgotten.
LEMMA BrokenStays ==
    ASSUME Typed, Stages, NEW p \in Procs, Command(p)
    PROVE  broken => broken'
<1>1. ASSUME NEW v \in Commands, NEW n \in Names, StartCommand(p, v, n)
      PROVE  broken => broken'
  BY <1>1, StartEffect
<1>2. CASE UsersFileThere(p)
  BY <1>2, UsersFileThereEffect
<1>3. CASE MigrateLoad(p)
  BY <1>3, MigrateLoadEffect
<1>4. CASE MigrateCreate(p)
  BY <1>4, MigrateCreateEffect
<1>5. CASE MigrateFill(p)
  BY <1>5, MigrateFillEffect
<1>6. CASE MigrateClear(p)
  BY <1>6, MigrateClearEffect
<1>7. CASE LoadUsersDoc(p)
  BY <1>7, LoadUsersEffect
<1>8. CASE TruncateUsers(p)
  BY <1>8, TruncateEffect
<1>9. CASE SaveUsers(p)
  BY <1>9, SaveUsersEffect
<1>10. CASE LoadSudoDoc(p)
  BY <1>10, LoadSudoEffect
<1>11. CASE SaveSudo(p)
  BY <1>11, SaveSudoEffect
<1>12. CASE ReadForEdit(p)
  BY <1>12, ReadForEditEffect
<1>13. CASE EditUsers(p)
  BY <1>13, EditUsersEffect
<1>14. CASE EditDaemon(p)
  BY <1>14, EditDaemonEffect
<1>15. CASE EditSudo(p)
  BY <1>15, EditSudoEffect
<1>16. CASE Rename(p)
  BY <1>16, RenameEffect
<1>17. CASE Die(p)
  BY <1>17, DieEffect
<1>18. ASSUME NEW n \in Names, PinLoad(p, n)
       PROVE  broken => broken'
  BY <1>18, PinLoadEffect
<1>19. CASE PinLegacy(p)
  BY <1>19, PinLegacyEffect
<1> QED
  BY <1>1, <1>2, <1>3, <1>4, <1>5, <1>6, <1>7, <1>8, <1>9, <1>10, <1>11, <1>12, <1>13,
     <1>14, <1>15, <1>16, <1>17, <1>18, <1>19 DEF Command

\* What a reload reads of the grants is no older than the users it has read, and
\* that is what a swap takes.
LEMMA StepGrants ==
    DirInv /\ Kept /\ Split /\ GrantsFit /\ ReadFits /\ NoInheritedGrants /\ [Next]_vars
        => GrantsFit' /\ ReadFits' /\ NoInheritedGrants'
<1> SUFFICES ASSUME DirInv, Kept, Split, GrantsFit, ReadFits, NoInheritedGrants, [Next]_vars
             PROVE  GrantsFit' /\ ReadFits' /\ NoInheritedGrants'
  OBVIOUS
<1>0. Typed
  BY TypedIsTypeOK DEF DirInv
<1>1. ASSUME NEW p \in Procs, Command(p)
      PROVE  GrantsFit' /\ ReadFits' /\ NoInheritedGrants'
  <2>1. UNCHANGED <<mUsers, mGrants, rl, ru, rs>>
    BY <1>1 DEF Command, StartCommand, UsersFileThere, MigrateLoad, MigrateCreate, MigrateFill,
                MigrateClear, LoadUsersDoc, TruncateUsers, SaveUsers, LoadSudoDoc, SaveSudo,
                ReadForEdit, EditUsers, EditDaemon, EditSudo, Rename, PinLoad, PinLegacy, Die
  <2>2. ~overlap' /\ ~broken' => ~overlap /\ ~broken
    BY <1>0, <1>1, AloneStep, BrokenStays DEF DirInv, Solo
  <2>3. orphans \subseteq orphans'
    BY <1>1 DEF Command, StartCommand, UsersFileThere, MigrateLoad, MigrateCreate, MigrateFill,
                MigrateClear, LoadUsersDoc, TruncateUsers, SaveUsers, LoadSudoDoc, SaveSudo,
                ReadForEdit, EditUsers, EditDaemon, EditSudo, Rename, PinLoad, PinLegacy, Die,
                EditedByHand
  <2>4. GrantsFit'
    BY <1>1, FitsStep
  <2> QED
    BY <2>1, <2>2, <2>3, <2>4 DEF NoInheritedGrants, ReadFits
<1>2. CASE ReadDaemonYaml \/ ReadUsersYaml \/ Stop
  <2>1. UNCHANGED <<mUsers, mGrants, orphans, overlap, broken>> /\ rl' # "sudo"
    BY <1>2 DEF ReadDaemonYaml, ReadUsersYaml, Stop, LoadEnds
  <2> QED
    BY <1>2, <2>1, ReloadFits DEF NoInheritedGrants, ReadFits
<1>3. CASE ReadSudoYaml
  <2>1. UNCHANGED <<mUsers, mGrants, orphans, overlap, broken>> /\ rl = "users"
    BY <1>3 DEF ReadSudoYaml
  <2>2. rl' = "idle" \/ (rs' = sfile /\ ru' = ru)
    BY <1>3 DEF ReadSudoYaml, LoadEnds
  <2>3. ASSUME ~overlap, ~broken, NEW n \in Names \ orphans, sfile.list[n] # 0
        PROVE  sfile.list[n] >= ru[n]
    <3>1. NotNewer(n, sfile.list[n])
      <4>1. CASE \A q \in Procs : pc[q] = "idle"
        BY <2>3, <4>1 DEF GrantsFit, Fit, NotNewer
      <4>2. CASE \E q \in Procs : pc[q] # "idle"
        BY <2>3, <4>2 DEF GrantsFit, Fits
      <4> QED
        BY <4>1, <4>2
    <3>2. sfile.list[n] \in Nat /\ ru[n] \in Nat
      <4>1. sfile.list \in Lists /\ ru \in Lists
        BY <1>0, FieldTypes DEF Typed
      <4> QED
        BY <4>1 DEF Lists
    <3> QED
      BY <2>1, <2>3, <3>1, <3>2 DEF NotNewer
  <2>4. ReadFits'
    BY <2>1, <2>2, <2>3 DEF ReadFits
  <2> QED
    BY <1>3, <2>1, <2>4, ReloadFits DEF NoInheritedGrants
<1>4. CASE Swap
  <2>1. /\ UNCHANGED <<orphans, overlap, broken>> /\ rl = "sudo" /\ rl' = "idle"
        /\ mUsers' = ru /\ mGrants' = rs.list
    BY <1>4 DEF Swap, LoadEnds
  <2> QED
    BY <1>4, <2>1, ReloadFits DEF NoInheritedGrants, ReadFits
<1>5. CASE UNCHANGED vars
  BY <1>5 DEF vars, GrantsFit, Fits, Fit, NotNewer, Writing, Drops, Chosen, NoInheritedGrants, ReadFits
<1> QED
  BY <1>1, <1>2, <1>3, <1>4, <1>5 DEF Next

\* The whole invariant.
IInv == DirInv /\ Kept /\ Split /\ GrantsFit /\ ReadFits /\ NoInheritedGrants

\* ConfigFiles keeps its invariant: files, commands, lists and grants.
THEOREM ConfigInvariant == Spec => []IInv
<1>1. Init => IInv
  BY InitDir, InitKept, InitGrants DEF IInv
<1>2. IInv /\ [Next]_vars => IInv'
  BY StepDir, StepKept, StepGrants DEF IInv
<1> QED
  BY <1>1, <1>2, PTL DEF Spec

\* Whoever was ever listed and not removed by an administrator is in daemon.yaml
\* or users.yaml, unless a SaveDoc of the list runs or died or writers - commands,
\* and the daemon saving a pin - overlap.
THEOREM NoUserLost == Spec => []UsersAreKept
<1>1. IInv => UsersAreKept
  BY DEF IInv, Kept, UsersAreKept
<1> QED
  BY <1>1, ConfigInvariant, PTL

\* After commands and saves of pins that neither died nor overlapped, a reload
\* accepts the users.
THEOREM QuietLoads == Spec => []QuietDirLoads
<1>1. IInv => QuietDirLoads
  BY DEF IInv, DirInv, Valid, Split, QuietDirLoads, Accepts
<1> QED
  BY <1>1, ConfigInvariant, PTL

\* Without writers that died or overlapped, the running daemon never pairs an
\* entry with the grants of an earlier one that `delete` removed, wherever in a
\* delete, a create or a migration its reload falls.
THEOREM NoneInherits == Spec => []NoInheritedGrants
<1>1. IInv => NoInheritedGrants
  BY DEF IInv
<1> QED
  BY <1>1, ConfigInvariant, PTL

\* The migration is one-way: users.yaml, once there, is replaced or truncated
\* but never removed, so no later load falls back to the list in daemon.yaml.
THEOREM UsersFileStays == Spec => [][ufile.st # "missing" => ufile'.st # "missing"]_vars
<1>1. DirInv /\ [Next]_vars => [ufile.st # "missing" => ufile'.st # "missing"]_vars
  <2> SUFFICES ASSUME DirInv, [Next]_vars
               PROVE  [ufile.st # "missing" => ufile'.st # "missing"]_vars
    OBVIOUS
  <2>0. Typed /\ Stages
    BY TypedIsTypeOK DEF DirInv
  <2>1. ASSUME NEW p \in Procs, Command(p)
        PROVE  ufile'.st = "missing" => ufile.st = "missing"
    BY <2>0, <2>1, StagesStep
  <2>2. CASE ReadDaemonYaml \/ ReadUsersYaml \/ ReadSudoYaml \/ Swap \/ Stop
    BY <2>0, <2>2, DaemonTypes
  <2> QED
    BY <2>1, <2>2 DEF Next
<1> QED
  BY <1>1, DirectoryInvariant, PTL DEF Spec

=============================================================================
