----------------------------- MODULE Resolver -----------------------------
(***************************************************************************)
(* The grammar of linuxctl: what mcpd lists in its three catalogs, how     *)
(* `<verb> <group> [words]` is resolved to one tool, resource or template  *)
(* of them, how the words and the flags become the arguments of the call,  *)
(* and what shell completion and `explain` offer.                          *)
(*                                                                         *)
(* Of a tool's schema the table keeps the fields the grammar can see:      *)
(* those that take a positional word, the required ones and the ones with  *)
(* an enum.  Words                                                         *)
(* are strings; the ones that look like a number or a boolean are told     *)
(* apart by NumberLike and BoolLike, and of a value only its JSON type is  *)
(* kept.                                                                   *)
(***************************************************************************)
EXTENDS Naturals, SequencesExt, TLC

NoWord == "none"

Tool(path, group, verb, props, required, enums) ==
    [name |-> path[1] \o "/" \o path[2], command |-> path[2], group |-> group, verb |-> verb, props |-> props,
     required |-> required, enums |-> enums]

Resource(uri, group, verb) == [uri |-> uri, group |-> group, verb |-> verb]

NoEnums == [f \in {} |-> {}]

(* What a loop over the sequence s leaves in its accumulator.  (The set    *)
(* makes TLC evaluate the accumulator once.)                               *)
After(Op(_, _), base, s) ==
    LET upTo[k \in 0..Len(s)] ==
          IF k = 0 THEN base ELSE CHOOSE r \in { Op(acc, s[k]) : acc \in {upTo[k - 1]} } : TRUE
    IN  upTo[Len(s)]

---------------------------------------------------------------------------
(* What tools/list, resources/list and resources/templates/list answer,    *)
(* in the order in which the daemon lists it: the first match wins.        *)

FileTools ==
    << Tool(<<"files", "list">>, "files", "list", {"path", "sort"}, <<"path">>,
            [sort |-> {"name", "size", "time"}]),
       Tool(<<"files", "read">>, "files", "get", {"path"}, <<"path">>, NoEnums),
       Tool(<<"files", "create">>, "files", "create", {"path", "content"}, <<"path">>, NoEnums),
       Tool(<<"files", "update">>, "files", "update", {"path", "content"},
            <<"path", "content">>, NoEnums),
       Tool(<<"files", "find">>, "files", "find", {"path", "name"}, <<>>, NoEnums),
       Tool(<<"files", "filetype">>, "files", "filetype", {"path"}, <<"path">>, NoEnums),
       Tool(<<"files", "chmod">>, "files", "chmod", {"path", "mode"}, <<"path", "mode">>, NoEnums),
       Tool(<<"files", "chown">>, "files", "chown", {"path", "owner"},
            <<"path", "owner">>, NoEnums) >>

UsageAndProcessTools ==
    << Tool(<<"disks", "free">>, "disks", "free", {"path"}, <<"path">>, NoEnums),
       Tool(<<"disks", "usage">>, "disks", "usage", {"path"}, <<"path">>, NoEnums),
       Tool(<<"processes", "top">>, "processes", "top", {"user", "sort_by"}, <<>>,
            [sort_by |-> {"cpu", "mem", "res", "time", "pid"}]),
       Tool(<<"processes", "list">>, "processes", "get", {"user", "pid"}, <<>>, NoEnums),
       Tool(<<"processes", "delete">>, "processes", "delete", {"pid"}, <<"pid">>, NoEnums) >>

NetworkTools ==
    << Tool(<<"network", "nslookup">>, "network", "nslookup", {"host"}, <<"host">>, NoEnums),
       Tool(<<"network", "curl">>, "network", "curl", {"url"}, <<"url">>, NoEnums),
       Tool(<<"network", "arp">>, "network", "arp", {}, <<>>, NoEnums),
       Tool(<<"network", "ping">>, "network", "ping", {"host"}, <<"host">>, NoEnums),
       Tool(<<"network", "connections">>, "network", "connections", {}, <<>>, NoEnums) >>

ServiceTools ==
    << Tool(<<"memory", "usage">>, "memory", "usage", {}, <<>>, NoEnums),
       Tool(<<"services", "manage">>, "system", "services", {"service", "action"},
            <<"service", "action">>,
            [action |-> {"start", "stop", "restart", "reload", "enable", "disable"}]),
       Tool(<<"services", "list">>, "system", "services", {}, <<>>, NoEnums),
       Tool(<<"timers", "list">>, "timers", "get", {}, <<>>, NoEnums) >>

LogAndKernelTools ==
    << Tool(<<"logs", "journal-control">>, "logs", "journal", {}, <<>>, NoEnums),
       Tool(<<"logs", "dmesg">>, "logs", "dmesg", {}, <<>>, NoEnums),
       Tool(<<"logs", "logins">>, "logs", "logins", {"user", "type"}, <<>>,
            [type |-> {"success", "failed"}]),
       Tool(<<"kernel", "system-control">>, "kernel", "sysctl", {"key", "value"}, <<>>, NoEnums),
       Tool(<<"cpu", "list">>, "cpu", "get", {}, <<>>, NoEnums),
       Tool(<<"cpu", "load-average">>, "cpu", "load-average", {}, <<>>, NoEnums) >>

DiskAndSystemTools ==
    << Tool(<<"disks", "list">>, "disks", "get", {}, <<>>, NoEnums),
       Tool(<<"disks", "mounts">>, "disks", "mounts", {}, <<>>, NoEnums),
       Tool(<<"disks", "performance">>, "disks", "performance", {"device"}, <<>>, NoEnums),
       Tool(<<"disks", "health">>, "disks", "health", {"device"}, <<"device">>, NoEnums),
       Tool(<<"disks", "partitions">>, "disks", "partitions", {"device"}, <<>>, NoEnums),
       Tool(<<"network", "trace-path">>, "network", "trace-path", {"host"}, <<"host">>, NoEnums),
       Tool(<<"system", "os-release">>, "system", "os-release", {}, <<>>, NoEnums),
       Tool(<<"system", "packages">>, "system", "packages", {"name"}, <<>>, NoEnums),
       Tool(<<"users", "list">>, "users", "get", {}, <<>>, NoEnums),
       Tool(<<"auth", "sudo-rules">>, "auth", "sudo-rules", {}, <<>>, NoEnums) >>

DockerTools ==
    << Tool(<<"docker", "containers">>, "docker", "get", {"state"}, <<>>,
            [state |-> {"created", "restarting", "running", "removing", "paused",
                        "exited", "dead"}]),
       Tool(<<"docker", "manage">>, "docker", "container", {"container", "action"},
            <<"container", "action">>,
            [action |-> {"start", "stop", "restart", "kill", "pause", "unpause", "remove"}]),
       Tool(<<"docker", "logs">>, "docker", "logs", {"container", "since"}, <<"container">>, NoEnums),
       Tool(<<"docker", "exec">>, "docker", "exec", {"container", "command", "user"},
            <<"container", "command">>, NoEnums),
       Tool(<<"docker", "images">>, "docker", "images", {}, <<>>, NoEnums),
       Tool(<<"docker", "volumes">>, "docker", "volumes", {}, <<>>, NoEnums),
       Tool(<<"docker", "networks">>, "docker", "networks", {}, <<>>, NoEnums),
       Tool(<<"docker", "prune">>, "docker", "prune", {"target"}, <<"target">>,
            [target |-> {"containers", "images", "volumes", "networks", "build-cache"}]) >>

CronTools ==
    << Tool(<<"cron", "manage">>, "crontabs", "get", {"user", "content"}, <<>>, NoEnums) >>

ReloadTool == << Tool(<<"daemon", "reload-config">>, "daemon", "reload", {}, <<>>, NoEnums) >>

ToolsList ==
    FileTools \o UsageAndProcessTools \o NetworkTools \o ServiceTools \o LogAndKernelTools
      \o DiskAndSystemTools \o DockerTools \o CronTools \o ReloadTool

ResourcesList ==
    << Resource("os://uname", "system", "uname"),
       Resource("os://release", "system", "release"),
       Resource("system://hostname", "system", "hostname"),
       Resource("system://timezone", "system", "timezone"),
       Resource("system://locale", "system", "locale"),
       Resource("network://interfaces", "network", "interfaces"),
       Resource("network://routes", "network", "routes"),
       Resource("devices://usb", "devices", "usb"),
       Resource("devices://pci", "devices", "pci"),
       Resource("devices://dmi", "devices", "dmi"),
       Resource("kernel://modules", "kernel", "modules") >>

TemplatesList ==
    << Resource("file:///{path}", "files", NoWord),
       Resource("devices://{type}", "devices", NoWord),
       Resource("network://interfaces/{name}", "network", "interfaces"),
       Resource("service://{name}/status", "system", "services"),
       Resource("disks://{name}/stats", "disks", NoWord),
       Resource("crontab://{user}/{view}", "crontabs", "crontab"),
       Resource("docker-container://{name}/{view}", "docker", "container"),
       Resource("docker-image://{name}/inspect", "docker", "image"),
       Resource("docker-volume://{name}/inspect", "docker", "volume"),
       Resource("docker-network://{name}/inspect", "docker", "network"),
       Resource("process://{pid}/{target}", "processes", NoWord) >>

(* A catalog whose answer carried no list counts as empty. *)
BuildRegistry(got) ==
    [tools     |-> IF "tools/list" \in got THEN ToolsList ELSE <<>>,
     resources |-> IF "resources/list" \in got THEN ResourcesList ELSE <<>>,
     templates |-> IF "resources/templates/list" \in got THEN TemplatesList ELSE <<>>]

Lists == <<"tools/list", "resources/list", "resources/templates/list">>

---------------------------------------------------------------------------
(* Schemas. *)

positionalFieldPriority ==
    <<"path", "pid", "device", "host", "url", "key", "value", "service", "name", "user", "content">>

FieldType(f) ==
    CASE f = "pid" -> "integer" [] f = "command" -> "array" [] OTHER -> "string"

Required(t) == ToSet(t.required)

RequiredEnumValues(t) == UNION { t.enums[f] : f \in Required(t) \cap DOMAIN t.enums }

IsMutationOnly(t) == Required(t) \cap DOMAIN t.enums # {}

(* A verb is compared with the enum's values without regard to case.       *)
Folded(verb) == IF verb = "Restart" THEN "restart" ELSE verb

EnumParam(t, verb) == { f \in DOMAIN t.enums : Folded(verb) \in t.enums[f] }

HasOptionalValueField(t) ==
    LET fields == SelectSeq(<<"value", "content">>, LAMBDA f : f \in t.props)
    IN  fields # <<>> /\ Head(fields) \notin Required(t)

CanConsumePositional(t) ==
    ToSet(positionalFieldPriority) \cap t.props # {} \/ t.required # <<>>

---------------------------------------------------------------------------
(* Resolve. *)

Call(kind, item, args, words) == [kind |-> kind, item |-> item, args |-> args, words |-> words]

NoArgs == [f \in {} |-> "string"]
NoMatch == Call("error", NoWord, NoArgs, <<>>)

(* The first item of s that satisfies P, as the action Act makes of it. *)
FirstOf(s, P(_), Act(_)) ==
    LET hits == SelectSeq(s, P) IN IF hits = <<>> THEN NoMatch ELSE Act(Head(hits))

OrElse(a, b) == IF a.kind # "error" THEN a ELSE b

ToolCall(t, words) == Call("tool_call", t.name, NoArgs, words)

(* A bug: the keyword of a tool that only acts also answers to `get`. *)
MatchToolExactKeywordAny(reg, group, rest) ==
    IF rest = <<>> THEN NoMatch
    ELSE FirstOf(reg.tools, LAMBDA t : t.group = group /\ t.verb = rest[1],
                 LAMBDA t : ToolCall(t, Tail(rest)))

MatchToolExactKeyword(reg, group, rest) ==
    IF rest = <<>> THEN NoMatch
    ELSE FirstOf(reg.tools,
                 LAMBDA t : t.group = group /\ ~IsMutationOnly(t) /\ t.verb = rest[1],
                 LAMBDA t : ToolCall(t, Tail(rest)))

MatchBareTool(reg, group, rest) ==
    FirstOf(reg.tools,
            LAMBDA t : t.group = group /\ ~IsMutationOnly(t) /\ t.verb = "get",
            LAMBDA t : CASE rest = <<>> -> ToolCall(t, rest)
                         [] rest # <<>> /\ rest[1] = t.command -> ToolCall(t, Tail(rest))
                         [] rest # <<>> /\ rest[1] # t.command ->
                              IF CanConsumePositional(t) THEN ToolCall(t, rest) ELSE NoMatch)

FindResourceByTarget(reg, group, rest) ==
    IF rest = <<>> THEN NoMatch
    ELSE FirstOf(reg.resources, LAMBDA r : r.group = group /\ r.verb = rest[1],
                 LAMBDA r : Call("resource_read", r.uri, NoArgs, <<>>))

MatchTemplateByKeyword(reg, group, rest) ==
    IF rest = <<>> THEN NoMatch
    ELSE FirstOf(reg.templates, LAMBDA r : r.group = group /\ r.verb # NoWord /\ r.verb = rest[1],
                 LAMBDA r : Call("template_read", r.uri, NoArgs, Tail(rest)))

FindTemplateByTarget(reg, group, rest) ==
    LET InGroup(r) == r.group = group
        Named(r)   == rest # <<>> /\ InGroup(r) /\ r.verb = rest[1]
    IN  OrElse(FirstOf(reg.templates, Named,
                       LAMBDA r : Call("template_read", r.uri, NoArgs, Tail(rest))),
               FirstOf(reg.templates, InGroup,
                       LAMBDA r : Call("template_read", r.uri, NoArgs, rest)))

DirectVerb(reg, verb, group) ==
    SelectSeq(reg.tools, LAMBDA t : t.group = group /\ t.verb = verb)

EnumVerb(reg, verb, group, rest) ==
    FirstOf(reg.tools, LAMBDA t : t.group = group /\ EnumParam(t, verb) # {},
            LAMBDA t : LET f == CHOOSE f \in EnumParam(t, verb) : TRUE
                       IN  Call("tool_call", t.name, f :> "string",
                                IF rest # <<>> /\ rest[1] = t.verb THEN Tail(rest) ELSE rest))

ToolNamed(reg, name) == SelectSeq(reg.tools, LAMBDA t : t.name = name)

UpdateVerb(reg, group, rest) ==
    LET a == OrElse(MatchToolExactKeyword(reg, group, rest), MatchBareTool(reg, group, rest))
    IN  IF a.kind # "error" /\ HasOptionalValueField(ToolNamed(reg, a.item)[1]) THEN a ELSE NoMatch

Resolve(reg, verb, group, rest) ==
    CASE verb = "get" ->
           OrElse(MatchToolExactKeyword(reg, group, rest),
           OrElse(FindResourceByTarget(reg, group, rest),
           OrElse(MatchTemplateByKeyword(reg, group, rest),
                  MatchBareTool(reg, group, rest))))
      [] verb = "describe" -> FindTemplateByTarget(reg, group, rest)
      [] verb \notin {"get", "describe"} ->
           OrElse(FirstOf(DirectVerb(reg, verb, group), LAMBDA t : TRUE,
                          LAMBDA t : ToolCall(t, rest)),
           OrElse(EnumVerb(reg, verb, group, rest),
                  IF verb = "update" THEN UpdateVerb(reg, group, rest) ELSE NoMatch))

GroupExists(reg, group) ==
    \E item \in ToSet(reg.tools) \cup ToSet(reg.resources) \cup ToSet(reg.templates) :
        item.group = group

(* How many reads one template_read makes: a file, a process and a         *)
(* crontab are reported from several.                                      *)
DescribeParts(uri) ==
    CASE uri = "file:///{path}" -> 2
      [] uri = "process://{pid}/{target}" -> 3
      [] uri = "crontab://{user}/{view}" -> 2
      [] OTHER -> 1

---------------------------------------------------------------------------
(* Words and flags. *)

NumberLike == {"7"}
BoolLike == {"true", "false"}

FlagOf == [t \in {"--user", "--path", "--since", "--command"} |->
             CASE t = "--user" -> "user" [] t = "--path" -> "path"
               [] t = "--since" -> "since" [] t = "--command" -> "command"]

(* --flag=value *)
WithValue == [t \in {"--since=7", "--command=7", "--output=json"} |->
                CASE t = "--since=7" -> <<"since", "7">> [] t = "--command=7" -> <<"command", "7">>
                  [] t = "--output=json" -> <<"output", "json">>]

IsFlagToken(tok) == tok \in DOMAIN FlagOf \cup DOMAIN WithValue \cup {"--", "-o", "--output"}

FlagValue(word) ==
    CASE word \in BoolLike -> "boolean" [] word \in NumberLike -> "integer" [] OTHER -> "string"

(* One token of splitFlagsAndPositional: "words" between flags, "value"    *)
(* after a flag that may take one, "format" after -o or --output, "argv"   *)
(* after --.                                                               *)
SplitToken(acc, tok) ==
    LET plain == IF acc.mode = "value" THEN [acc EXCEPT !.flags = (acc.key :> "boolean") @@ @]
                 ELSE acc
    IN  CASE acc.mode = "argv" -> [acc EXCEPT !.words = Append(@, tok)]
          [] acc.mode = "format" ->
               [acc EXCEPT !.mode = "words", !.flags = ("output_format" :> "string") @@ @]
          [] acc.mode = "value" /\ ~IsFlagToken(tok) ->
               [acc EXCEPT !.mode = "words", !.flags = (acc.key :> FlagValue(tok)) @@ @]
          [] acc.mode \in {"words", "value"} /\ tok = "--" -> [plain EXCEPT !.mode = "argv"]
          [] acc.mode \in {"words", "value"} /\ tok \in {"-o", "--output"} ->
               [plain EXCEPT !.mode = "format"]
          [] acc.mode \in {"words", "value"} /\ tok \in DOMAIN WithValue ->
               LET key == WithValue[tok][1]
               IN  [plain EXCEPT !.mode = "words",
                                 !.flags = (IF key = "output" THEN "output_format" :> "string"
                                            ELSE key :> FlagValue(WithValue[tok][2])) @@ @]
          [] acc.mode \in {"words", "value"} /\ tok \in DOMAIN FlagOf ->
               [plain EXCEPT !.mode = "value", !.key = FlagOf[tok]]
          [] acc.mode = "words" /\ ~IsFlagToken(tok) -> [acc EXCEPT !.words = Append(@, tok)]

SplitFlagsAndPositional(args) ==
    LET r == After(SplitToken, [mode |-> "words", key |-> NoWord, flags |-> NoArgs,
                                   words |-> <<>>], args)
    IN  [flags |-> IF r.mode = "value" THEN (r.key :> "boolean") @@ r.flags ELSE r.flags,
         words |-> r.words]

HasUnsetRequired(t, args) == Required(t) \ DOMAIN args # {}

(* What a word given for field f becomes: a number only where the schema   *)
(* says integer and the word is one.                                       *)
WordValue(f, word) ==
    IF FieldType(f) = "integer" /\ word \in NumberLike THEN "integer" ELSE "string"

TakeWord(acc, f) ==
    [args  |-> (f :> WordValue(f, acc.words[1])) @@ acc.args, words |-> Tail(acc.words)]

(* A bug: a user filter takes its word before the required arguments do. *)
TakesByPriorityAlways(t, acc, f) == acc.words # <<>> /\ f \in t.props \ DOMAIN acc.args

TakesByPriority(t, acc, f) ==
    /\ acc.words # <<>>
    /\ f \in t.props \ DOMAIN acc.args
    /\ f = "user" => ~HasUnsetRequired(t, acc.args)

MapPositionalArgs(t, args, words) ==
    LET ByPriority(acc, f) == IF TakesByPriority(t, acc, f) THEN TakeWord(acc, f) ELSE acc
        ByOrder(acc, f) ==
            CASE acc.words = <<>> \/ f \in DOMAIN acc.args -> acc
              [] acc.words # <<>> /\ f \notin DOMAIN acc.args /\ FieldType(f) = "array" ->
                   [args |-> (f :> "array") @@ acc.args, words |-> <<>>]
              [] acc.words # <<>> /\ f \notin DOMAIN acc.args /\ FieldType(f) # "array" ->
                   TakeWord(acc, f)
    IN  After(ByOrder,
                 After(ByPriority, [args |-> args, words |-> words], positionalFieldPriority),
                 t.required)

(* A bug: flag values keep the type the parser guessed. *)
CoerceNothing(t, args) == args

CoerceFlagTypes(t, args) ==
    [f \in DOMAIN args |->
        CASE f \in t.props /\ FieldType(f) = "string" -> "string"
          [] f \in t.props /\ FieldType(f) = "array" /\ args[f] = "string" -> "array"
          [] OTHER -> args[f]]

(* `<verb> <group> ...`: the words are placed first, then the flags on     *)
(* top of them.  `tool <name> ...`: the flags first.                       *)
VerbArgs(t, fixed, split) ==
    CoerceFlagTypes(t, split.flags @@ MapPositionalArgs(t, fixed, split.words).args)

NameArgs(t, split) ==
    CoerceFlagTypes(t, MapPositionalArgs(t, split.flags, split.words).args)

---------------------------------------------------------------------------
(* Completion and explain. *)

McpdAdminVerbs == {"create", "delete", "update", "list", "describe", "edit"}

TopLevelVerbs(reg) ==
    {"get", "explain", "tool", "resource", "completion", "ping"} \cup McpdAdminVerbs
      \cup UNION { RequiredEnumValues(t) : t \in ToSet(reg.tools) }
      \cup { t.verb : t \in { u \in ToSet(reg.tools) : u.name = "daemon/reload-config" } }

Groups(items) == { i.group : i \in items }

GroupsForVerb(reg, verb) ==
    LET T == ToSet(reg.tools)  R == ToSet(reg.resources)  M == ToSet(reg.templates)
    IN  CASE verb = "tool" -> { t.name : t \in T }
          [] verb = "resource" -> { r.uri : r \in R \cup M }
          [] verb = "explain" -> Groups(T) \cup Groups(R) \cup Groups(M)
          [] verb = "get" ->
               {"mcp-api"} \cup Groups({ t \in T : ~IsMutationOnly(t) }) \cup Groups(R)
          [] verb = "describe" -> {"mcpd"} \cup Groups(M)
          [] OTHER ->
               (IF verb \in McpdAdminVerbs THEN {"mcpd"} ELSE {}) \cup
               Groups({ t \in T : \/ t.verb = verb
                                  \/ verb \in RequiredEnumValues(t)
                                  \/ verb = "update" /\ HasOptionalValueField(t) })

KeywordsFor(reg, verb, group) ==
    LET T == { t \in ToSet(reg.tools) : t.group = group }
        R == { r \in ToSet(reg.resources) : r.group = group }
        M == { r \in ToSet(reg.templates) : r.group = group /\ r.verb # NoWord }
    IN  CASE group = "mcpd" -> IF verb = "edit" THEN {"config"} ELSE {"user"}
          [] group # "mcpd" /\ verb = "get" ->
               { IF t.verb = "get" THEN t.command ELSE t.verb :
                     t \in { u \in T : ~IsMutationOnly(u) } }
               \cup { r.verb : r \in R } \cup { r.verb : r \in M }
          [] group # "mcpd" /\ verb = "describe" -> { r.verb : r \in M }
          [] group # "mcpd" /\ verb \notin {"get", "describe"} ->
               { t.verb : t \in { u \in T : /\ u.verb \notin {verb, "get"}
                                            /\ \/ verb \in RequiredEnumValues(u)
                                               \/ verb = "update" /\ HasOptionalValueField(u) } }

CompleteFlags(reg, words) ==
    LET a    == Resolve(reg, words[1], words[2], SubSeq(words, 3, Len(words)))
        name == CASE words[1] = "tool" -> words[2]
                  [] words[1] # "tool" /\ a.kind = "tool_call" -> a.item
                  [] OTHER -> NoWord
    IN  {"--output", "-o"} \cup UNION { { "--" \o f : f \in t.props } :
                                          t \in ToSet(ToolNamed(reg, name)) }

(* The words before the one being typed, and whether that one is a flag. *)
CompleteWords(reg, words, flag) ==
    CASE flag -> IF Len(words) >= 2 THEN CompleteFlags(reg, words) ELSE {"--output", "-o"}
      [] ~flag /\ Len(words) = 0 -> TopLevelVerbs(reg)
      [] ~flag /\ Len(words) = 1 -> GroupsForVerb(reg, words[1])
      [] ~flag /\ Len(words) = 2 -> KeywordsFor(reg, words[1], words[2])
      [] ~flag /\ Len(words) > 2 ->
           IF words = <<"edit", "mcpd", "config">> THEN {"sudo", "users", "daemon"} ELSE {}

VerbShaped == {"create", "update", "delete", "exec", "prune"}

(* The invocations `explain <group>` prints, each with the item it is for; *)
(* a line that says <action> stands for one with each value of the tool's  *)
(* required enum.                                                          *)
RunExplain(reg, group) ==
    UNION { { [verb |-> action, rest |-> <<>>, item |-> t.name] : action \in RequiredEnumValues(t) } :
              t \in { u \in ToSet(reg.tools) : u.group = group /\ IsMutationOnly(u) } }
    \cup
    { [verb |-> CASE t.verb \in VerbShaped -> t.verb [] OTHER -> "get",
       rest |-> CASE t.verb \in VerbShaped \cup {"get"} -> <<>> [] OTHER -> <<t.verb>>,
       item |-> t.name] :
          t \in { u \in ToSet(reg.tools) : u.group = group /\ ~IsMutationOnly(u) } }
    \cup { [verb |-> "get", rest |-> <<r.verb>>, item |-> r.uri] :
             r \in { q \in ToSet(reg.resources) : q.group = group } }
    \cup { [verb |-> "describe", rest |-> IF r.verb = NoWord THEN <<"w">> ELSE <<r.verb>>,
            item |-> r.uri] : r \in { q \in ToSet(reg.templates) : q.group = group } }

===========================================================================
