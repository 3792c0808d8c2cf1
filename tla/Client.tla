------------------------------ MODULE Client ------------------------------
(***************************************************************************)
(* One linuxctl process against mcpd: it opens the event stream, waits for *)
(* the endpoint, sends one request after another and waits for each        *)
(* answer, while a reader goroutine takes events off the stream and routes *)
(* answers to the channel of the request they name.  Shell completion adds *)
(* a timer that answers in the place of a slow daemon.  Which requests a   *)
(* command makes is decided by the grammar of module Resolver.             *)
(*                                                                         *)
(* Of the daemon only the client's view is here (modules Sessions and      *)
(* ResourceReads have its own): it may accept or refuse a request, answer  *)
(* at any time after it got it (before the client saw the 202 too), a read *)
(* even twice, and end the stream at any time.                             *)
(***************************************************************************)
EXTENDS Resolver, FiniteSets

CONSTANTS Commands,     \* the command lines given, records of the shape below
          MaxLines      \* lines a stdio bridge is given at most

CommandKinds == {"ping", "stdio", "mcpd", "tools", "resources", "prompts", "info", "resource",
                 "explain", "complete", "verb", "tool"}

ASSUME CommandsAssumption ==
    \A c \in Commands : /\ DOMAIN c = {"kind", "verb", "group", "tokens", "flag"}
                        /\ c.kind \in CommandKinds
ASSUME MaxLinesAssumption == MaxLines \in Nat

VARIABLES
    cmd,       \* which of linuxctl's commands this process runs
    line,      \* the words of its command line, once they are read
    pc,        \* where main is
    todo,      \* methods main still has to call before it decides what is next
    planned,   \* how many calls of its own the command makes; 0 before that is known
    args,      \* arguments of the tool call
    idCounter, \* the last request id
    chans,     \* responseChans: ids whose answer is awaited
    got,       \* answers handed over to a channel, not yet received by main
    lists,     \* the catalogs received
    answers,   \* answers main received, in order
    stream,    \* "none", "open", or "ended": streamEnded is closed
    endpoint,  \* what the endpoint channel holds and main has taken
    timer,     \* completion: "off", "armed", "fired"
    emitting,  \* completionOnce is taken: candidates are being printed
    printed,   \* what went to stdout besides answers
    cache,     \* the registry cache file: "none", "stale", "fresh"
    exit,      \* "running" or the exit status
    events,    \* events sent by the daemon, not yet read
    requests,  \* ids the daemon has and has not answered
    answered,  \* ids the daemon has answered
    hungUp     \* the daemon's end of the stream is closed

mainVars == <<cmd, line, pc, todo, planned, args, idCounter, answers, lists>>
daemon == <<events, requests, answered, hungUp>>
clientVars == <<mainVars, chans, got, stream, endpoint, timer, emitting, printed, cache, exit, daemon>>

Running == exit = "running"

CommandLines == { c \in Commands : c.kind = cmd }
NoLine == [kind |-> NoWord]

ClientInit ==
    /\ cmd \in { c.kind : c \in Commands }
    /\ line \in (IF cmd = "complete" THEN CommandLines ELSE {NoLine})
    /\ cache \in (IF cmd = "complete" THEN {"none", "stale", "fresh"} ELSE {"none"})
    /\ pc = "start" /\ todo = <<>> /\ planned = 0 /\ args = NoArgs
    /\ idCounter = 0 /\ chans = {} /\ got = {} /\ lists = {} /\ answers = <<>>
    /\ stream = "none" /\ endpoint = "none" /\ timer = "off" /\ emitting = FALSE
    /\ printed = {} /\ exit = "running"
    /\ events = <<>> /\ requests = {} /\ answered = {} /\ hungUp = FALSE

(* os.Exit: every goroutine ends with it. *)
OsExit(status) ==
    /\ exit' = status
    /\ pc' = "done"
    /\ UNCHANGED <<cmd, line, todo, planned, args, idCounter, answers, lists, chans, got, stream,
                   endpoint, timer, emitting, printed, cache, daemon>>

(* reloadDaemon never fails the command it follows. *)
FailStatus == IF cmd = "mcpd" THEN "0" ELSE "1"

Split == SplitFlagsAndPositional(line.tokens)

---------------------------------------------------------------------------
(* Completion. *)

(* emitCompletions: the first caller prints and exits, a second one waits  *)
(* for that exit.                                                          *)
Emit(known) ==
    /\ ~emitting
    /\ emitting' = TRUE
    /\ printed' = CompleteWords(BuildRegistry(known), Split.words, line.flag)
    /\ lists' = known
    /\ UNCHANGED <<cmd, line, todo, planned, args, idCounter, answers, chans, got, stream, endpoint,
                   cache, exit, daemon>>

EmitExit == Running /\ emitting /\ OsExit("0")

CompletionTimeout ==
    /\ Running /\ timer = "armed"
    /\ timer' = "fired"
    /\ Emit({})
    /\ UNCHANGED pc

(* startCompletion: from the cache when it is younger than its lifetime,   *)
(* else the timer is armed before anything can block.                      *)
StartCompletion ==
    /\ Running /\ pc = "start" /\ cmd = "complete"
    /\ \/ cache = "fresh" /\ pc' = "emit" /\ UNCHANGED timer /\ Emit(ToSet(Lists))
       \/ /\ cache # "fresh"
          /\ pc' = "dial" /\ timer' = "armed"
          /\ UNCHANGED <<cmd, line, todo, planned, args, idCounter, answers, lists, chans, got, stream,
                         endpoint, emitting, printed, cache, exit, daemon>>

FinishCompletion ==
    /\ Running /\ pc = "plan" /\ cmd = "complete"
    /\ IF emitting
       THEN pc' = "blocked" /\ UNCHANGED <<cmd, line, todo, planned, args, idCounter, answers, lists,
                chans, got, stream, endpoint, timer, emitting, printed, cache, exit, daemon>>
       ELSE /\ pc' = "saved"
            /\ cache' = IF "tools/list" \in lists THEN "fresh" ELSE cache
            /\ UNCHANGED <<cmd, line, todo, planned, args, idCounter, answers, lists, chans, got, stream,
                           endpoint, timer, emitting, printed, exit, daemon>>

EmitFetched == Running /\ pc = "saved" /\ pc' = "emit" /\ UNCHANGED timer /\ Emit(lists)

---------------------------------------------------------------------------
(* Connecting. *)

Start ==
    /\ Running /\ pc = "start" /\ cmd # "complete"
    /\ \/ /\ pc' = "dial"
          /\ UNCHANGED <<cmd, line, todo, planned, args, idCounter, answers, lists, chans, got, stream,
                         endpoint, timer, emitting, printed, cache, exit, daemon>>
       \/ OsExit(FailStatus)                                 \* no token

(* connect: the answer to GET /sse may be a refusal, or never come. *)
Dial ==
    /\ Running /\ pc = "dial"
    /\ \/ /\ stream' = "open" /\ pc' = "await"
          /\ UNCHANGED <<cmd, line, todo, planned, args, idCounter, answers, lists, chans, got, endpoint,
                         timer, emitting, printed, cache, exit, daemon>>
       \/ OsExit(FailStatus)

OwnCalls ==
    CASE cmd = "resource" -> <<"resources/read">>
      [] cmd = "prompts" -> <<"prompts/list">>
      [] cmd = "info" -> <<"initialize">>
      [] cmd = "resources" -> SubSeq(Lists, 2, 3)
      [] cmd = "mcpd" -> <<"tools/call">>
      [] cmd \in {"ping", "stdio"} -> <<>>
      [] cmd \in {"tools", "complete", "explain", "tool", "verb"} -> Lists

NeedsRegistry == cmd \in {"tools", "complete", "explain", "tool", "verb"}

TakeEndpoint ==
    /\ Running /\ pc = "await" /\ endpoint = "sent"
    /\ endpoint' = "taken"
    /\ todo' = OwnCalls
    /\ planned' = IF NeedsRegistry THEN 0 ELSE Len(OwnCalls)
    /\ pc' = CASE cmd = "ping" -> "leave" [] cmd = "stdio" -> "bridge" [] OTHER -> "call"
    /\ UNCHANGED <<cmd, line, args, idCounter, answers, lists, chans, got, stream, timer, emitting,
                   printed, cache, exit, daemon>>

EndedBeforeReady == Running /\ pc = "await" /\ stream = "ended" /\ OsExit(FailStatus)

ConnectTimeout == Running /\ pc = "await" /\ OsExit(FailStatus)

---------------------------------------------------------------------------
(* The reader goroutine. *)

(* A bug: the channel of a call exists only once its request is accepted. *)
RoutedOnceAccepted(ev) == IF ev.id \in chans /\ pc = "wait" THEN {ev} ELSE {}

(* An answer goes to the channel of its id, which is forgotten with it;    *)
(* one nobody waits for is dropped.                                        *)
Routed(ev) == IF ev.id \in chans THEN {ev} ELSE {}

Read ==
    /\ Running /\ stream = "open" /\ events # <<>>
    /\ events' = Tail(events)
    /\ LET ev == Head(events)
       IN  \/ /\ ev.name = "endpoint"
              /\ endpoint' = IF endpoint = "none" THEN "sent" ELSE endpoint
              /\ UNCHANGED <<got, chans, printed>>
           \/ /\ ev.name = "message" /\ cmd = "stdio"
              /\ printed' = printed \cup {ev.id}
              /\ UNCHANGED <<got, chans, endpoint>>
           \/ /\ ev.name = "message" /\ cmd # "stdio"
              /\ got' = got \cup Routed(ev)
              /\ chans' = chans \ {ev.id}
              /\ UNCHANGED <<printed, endpoint>>
    /\ UNCHANGED <<mainVars, stream, timer, emitting, cache, exit, requests, answered, hungUp>>

StreamEnds ==
    /\ Running /\ stream = "open" /\ hungUp /\ events = <<>>
    /\ stream' = "ended"
    /\ UNCHANGED <<mainVars, chans, got, endpoint, timer, emitting, printed, cache, exit, daemon>>

---------------------------------------------------------------------------
(* One call: tryCallMethod. *)

(* The channel is registered, then the request is sent. *)
CallMethod ==
    /\ Running /\ pc = "call" /\ todo # <<>>
    /\ idCounter' = idCounter + 1
    /\ chans' = chans \cup {idCounter + 1}
    /\ pc' = "post"
    /\ UNCHANGED <<cmd, line, todo, planned, args, answers, lists, got, stream, endpoint, timer,
                   emitting, printed, cache, exit, daemon>>

Accepted ==
    /\ Running /\ pc = "post" /\ idCounter \in requests \cup answered
    /\ pc' = "wait"
    /\ UNCHANGED <<cmd, line, todo, planned, args, idCounter, answers, lists, chans, got, stream,
                   endpoint, timer, emitting, printed, cache, exit, daemon>>

(* The request failed, or its answer was lost, or it was refused. *)
PostFails == Running /\ pc = "post" /\ OsExit(FailStatus)

(* A bug: a failed tool call is not told apart from a successful one. *)
FailedRpcOnly(ev) == ev.outcome = "error"

(* What makes renderResponse and its kin exit with status 1. *)
Failed(ev) == ev.outcome \in {"error", "isError"}

(* A report of several reads says of a failed one that it is unavailable. *)
Unavailable(ev) == Head(todo) = "resources/read" /\ planned > 1 /\ ev.outcome = "error"

(* What main does with the answer to the method at the head of todo. *)
Received(ev) ==
    /\ answers' = Append(answers, [id |-> ev.id, method |-> Head(todo), outcome |-> ev.outcome])
    /\ todo' = Tail(todo)
    /\ IF planned = 0
       THEN /\ lists' = lists \cup {Head(todo)}
            /\ pc' = IF Tail(todo) = <<>> THEN "plan" ELSE "call"
            /\ UNCHANGED exit
       ELSE /\ UNCHANGED lists
            /\ CASE cmd \in {"prompts", "resources", "mcpd"} \/ Unavailable(ev) \/ ~Failed(ev) ->
                      /\ UNCHANGED exit
                      /\ pc' = CASE Tail(todo) = <<>> -> "leave"
                                 [] Tail(todo) # <<>> /\ Head(todo) = "tools/call" -> "editor"
                                 [] OTHER -> "call"
                 [] OTHER -> exit' = "1" /\ pc' = "done"

TakeAnswer ==
    /\ Running /\ pc = "wait"
    /\ \E ev \in got :
          /\ ev.id = idCounter
          /\ got' = got \ {ev}
          /\ Received(ev)
    /\ UNCHANGED <<cmd, line, planned, args, idCounter, chans, stream, endpoint, timer, emitting,
                   printed, cache, daemon>>

SessionEnds == Running /\ pc = "wait" /\ stream = "ended" /\ OsExit(FailStatus)

(* Only the reload after an admin command limits its wait. *)
CallTimeout == Running /\ pc = "wait" /\ cmd = "mcpd" /\ OsExit(FailStatus)

Leave == Running /\ pc = "leave" /\ OsExit("0")

---------------------------------------------------------------------------
(* With the registry at hand. *)

Registry == BuildRegistry(lists)

(* The words of the command line matter from here on; that they are        *)
(* chosen now and not when the process starts spares the states between.   *)
ReadWords ==
    /\ Running /\ pc = "plan" /\ line = NoLine
    /\ line' \in CommandLines
    /\ UNCHANGED <<cmd, pc, todo, planned, args, idCounter, answers, lists, chans, got, stream,
                   endpoint, timer, emitting, printed, cache, exit, daemon>>

Begin(calls, a) ==
    /\ todo' = calls /\ args' = a /\ planned' = Len(calls) /\ pc' = "call"
    /\ UNCHANGED <<cmd, line, idCounter, answers, lists, chans, got, stream, endpoint, timer, emitting,
                   printed, cache, exit, daemon>>

Action == Resolve(Registry, line.verb, line.group, Split.words)

IsEdit == line.verb = "edit" /\ line.group = "crontabs" /\ GroupExists(Registry, "crontabs")

RunVerb ==
    /\ Running /\ pc = "plan" /\ line # NoLine /\ cmd = "verb"
    /\ \/ IsEdit /\ Begin(<<"tools/call", "tools/call">>, NoArgs)
       \/ ~IsEdit /\ Action.kind = "error" /\ OsExit("1")
       \/ /\ ~IsEdit /\ Action.kind = "tool_call"
          /\ Begin(<<"tools/call">>,
                   VerbArgs(ToolNamed(Registry, Action.item)[1], Action.args,
                            [flags |-> Split.flags, words |-> Action.words]))
       \/ ~IsEdit /\ Action.kind = "resource_read" /\ Begin(<<"resources/read">>, NoArgs)
       \/ /\ ~IsEdit /\ Action.kind = "template_read"
          /\ Begin([k \in 1..DescribeParts(Action.item) |-> "resources/read"], NoArgs)

RunToolByName ==
    /\ Running /\ pc = "plan" /\ line # NoLine /\ cmd = "tool"
    /\ LET t == ToolNamed(Registry, line.group)
       IN  \/ t = <<>> /\ OsExit("1")
           \/ t # <<>> /\ Begin(<<"tools/call">>, NameArgs(t[1], Split))

PrintCatalog ==
    /\ Running /\ pc = "plan" /\ line # NoLine /\ cmd \in {"tools", "explain"}
    /\ printed' = IF cmd = "explain" THEN RunExplain(Registry, line.group) ELSE {}
    /\ pc' = "leave"
    /\ UNCHANGED <<cmd, line, todo, planned, args, idCounter, answers, lists, chans, got, stream,
                   endpoint, timer, emitting, cache, exit, daemon>>

(* editCrontab between its two calls: the editor may fail, or leave the    *)
(* text as it was.                                                         *)
Editor ==
    /\ Running /\ pc = "editor"
    /\ \/ OsExit("1")
       \/ /\ pc' \in {"leave", "call"}
          /\ UNCHANGED <<cmd, line, todo, planned, args, idCounter, answers, lists, chans, got, stream,
                         endpoint, timer, emitting, printed, cache, exit, daemon>>

---------------------------------------------------------------------------
(* `linuxctl stdio`: every line is posted, whatever comes of it, and the   *)
(* process ends with its standard input.                                   *)

BridgeLine ==
    /\ Running /\ pc = "bridge" /\ idCounter < MaxLines
    /\ idCounter' = idCounter + 1
    /\ pc' = "posting"
    /\ UNCHANGED <<cmd, line, todo, planned, args, answers, lists, chans, got, stream, endpoint, timer,
                   emitting, printed, cache, exit, daemon>>

BridgePosted ==
    /\ Running /\ pc = "posting" /\ pc' = "bridge"
    /\ UNCHANGED <<cmd, line, todo, planned, args, idCounter, answers, lists, chans, got, stream,
                   endpoint, timer, emitting, printed, cache, exit, daemon>>

BridgeEOF == Running /\ pc = "bridge" /\ OsExit("0")

---------------------------------------------------------------------------
(* The daemon. *)

DaemonAnnounces ==
    /\ Running /\ stream = "open" /\ ~hungUp /\ endpoint = "none" /\ events = <<>>
    /\ events' = <<[name |-> "endpoint"]>>
    /\ UNCHANGED <<mainVars, chans, got, stream, endpoint, timer, emitting, printed, cache, exit,
                   requests, answered, hungUp>>

DaemonGets ==
    /\ Running /\ pc \in {"post", "posting"} /\ ~hungUp /\ idCounter \notin requests \cup answered
    /\ requests' = requests \cup {idCounter}
    /\ UNCHANGED <<mainVars, chans, got, stream, endpoint, timer, emitting, printed, cache, exit, events,
                   answered, hungUp>>

Outcomes(method) ==
    CASE method \in ToSet(Lists) \cup {"initialize"} -> {"ok"}
      [] method = "prompts/list" -> {"error"}
      [] method = "resources/read" -> {"ok", "error"}
      [] method = "tools/call" -> {"ok", "error", "isError"}

(* A read from the cache, or refused before it, sends its answer itself    *)
(* and ProcessJSONRPC sends it again.                                      *)
DaemonAnswers ==
    /\ Running /\ ~hungUp
    /\ \E id \in requests :
          /\ requests' = requests \ {id}
          /\ answered' = answered \cup {id}
          /\ \E outcome \in (IF cmd = "stdio" THEN {"ok"} ELSE Outcomes(Head(todo))),
                times \in (IF cmd = "stdio" \/ Head(todo) = "resources/read" THEN 1..2 ELSE {1}) :
                events' = events \o
                          [k \in 1..times |-> [name |-> "message", id |-> id, outcome |-> outcome]]
    /\ UNCHANGED <<mainVars, chans, got, stream, endpoint, timer, emitting, printed, cache, exit,
                   hungUp>>

(* The daemon stops, or closes the session; what was on its way may still  *)
(* arrive or be lost.                                                      *)
DaemonCloses ==
    /\ Running /\ stream = "open" /\ ~hungUp
    /\ hungUp' = TRUE
    /\ \E n \in 0..Len(events) : events' = SubSeq(events, 1, n)
    /\ UNCHANGED <<mainVars, chans, got, stream, endpoint, timer, emitting, printed, cache, exit,
                   requests, answered>>

Ended == exit # "running" /\ UNCHANGED clientVars

---------------------------------------------------------------------------

Reader == Read \/ StreamEnds

MainSteps ==
    \/ Start \/ StartCompletion \/ TakeEndpoint \/ EndedBeforeReady \/ ConnectTimeout
    \/ CallMethod \/ TakeAnswer \/ SessionEnds \/ CallTimeout \/ Leave
    \/ ReadWords \/ RunVerb \/ RunToolByName \/ PrintCatalog
    \/ FinishCompletion \/ EmitFetched

Daemon == DaemonAnnounces \/ DaemonGets \/ DaemonAnswers \/ DaemonCloses

ClientNext ==
    \/ MainSteps \/ Reader \/ CompletionTimeout \/ EmitExit
    \/ Dial \/ Accepted \/ PostFails
    \/ Editor \/ BridgeLine \/ BridgePosted \/ BridgeEOF
    \/ Daemon \/ Ended

(* Main, the reader and the two timers run; the daemon, the network, the   *)
(* editor and the user owe nothing.                                        *)
ClientSpec ==
    /\ ClientInit /\ [][ClientNext]_clientVars
    /\ WF_clientVars(MainSteps) /\ WF_clientVars(Reader)
    /\ WF_clientVars(CompletionTimeout) /\ WF_clientVars(EmitExit)

---------------------------------------------------------------------------

ClientTypeOK ==
    /\ line \in Commands \cup {NoLine}
    /\ lists \subseteq ToSet(Lists)
    /\ chans \subseteq 1..idCounter
    /\ requests \cap answered = {}
    /\ exit \in {"running", "0", "1"}

(* linuxctl never hangs on its own account: completion ends whatever the   *)
(* daemon does (the 3 s timer), the wait for the endpoint ends, and the    *)
(* wait for an answer ends once the daemon has answered or the stream is   *)
(* gone, in every interleaving of the reader with the 202 and the select   *)
(* (completion.go:162, connect, tryCallMethod).                            *)
ClientMovesOn ==
    /\ (cmd = "complete") ~> ~Running
    /\ (pc = "await") ~> (pc # "await")
    /\ (pc = "wait" /\ (hungUp \/ (idCounter \in answered))) ~> (pc # "wait")

(* Status 0 from a command that calls a tool or reads a resource means     *)
(* that its last request was answered, with that request's own answer,     *)
(* and that the answer was not a failure; a report made of several reads   *)
(* only promises that each was answered (renderResponse, runDescribe).     *)
ExitTells ==
    /\ \A k \in 1..Len(answers) : answers[k].id = k
    /\ (exit = "0" /\ cmd \in {"tool", "resource", "verb", "info"}) =>
          /\ answers # <<>>
          /\ Len(answers) = idCounter
          /\ \/ Last(answers).outcome = "ok"
             \/ planned > 1 /\ Last(answers).method = "resources/read"

(* What a line of explain runs. *)
Runs(hint) == Resolve(Registry, hint.verb, line.group, hint.rest).item

(* The action of an <action> line that is another tool's own verb: `images *)
(* docker`, read off the line of docker/prune, lists the images.           *)
OtherToolsVerb(hint) ==
    /\ hint.verb # "get"
    /\ \E t \in ToSet(DirectVerb(Registry, hint.verb, line.group)) : t.name # hint.item

(* What linuxctl tells a user to type works: a keyword completion offers   *)
(* is taken as that keyword, never as data, by the command it completes,   *)
(* unless the verb is itself the verb of a tool in the group, whose words  *)
(* are all arguments; and each line of `explain` runs the item it          *)
(* describes, <action> lines with each action, unless the action is the    *)
(* own verb of another tool (completeWords, runExplain, Resolve).          *)
OffersResolve ==
    /\ (cmd = "complete" /\ emitting /\ ~line.flag /\ Len(Split.words) = 2) =>
          LET verb == Split.words[1]  group == Split.words[2]
          IN  (group # "mcpd" /\ DirectVerb(Registry, verb, group) = <<>>) =>
                 \A kw \in printed :
                    LET a == Resolve(Registry, verb, group, <<kw>>)
                    IN  a.kind # "error" /\ a.words = <<>>
    /\ (cmd = "explain" /\ pc = "leave") =>
          \A hint \in printed : Runs(hint) = hint.item \/ OtherToolsVerb(hint)

(* Not so: "Every line is a runnable invocation" (main.go:451), if it is   *)
(* to run what the line describes.                                         *)
EveryLineRuns ==
    (cmd = "explain" /\ pc = "leave") => \A hint \in printed : Runs(hint) = hint.item

CallingTool ==
    pc = "call" /\ planned > 0 /\ cmd \in {"tool", "verb"} /\ todo = <<"tools/call">> /\ ~IsEdit
CalledTool == ToolNamed(Registry, IF cmd = "tool" THEN line.group ELSE Action.item)[1]

(* The arguments of a tool call fit the tool: with as many words as it has *)
(* required fields left to fill, each required field is filled (without a  *)
(* flag for the verb form, where flags are laid over words already         *)
(* placed); a field declared string holds a string, however the words and  *)
(* flags looked; and one declared array holds an array, unless it was      *)
(* given by a flag without a value or with one that looks like a number or *)
(* a boolean (mapPositionalArgs, coerceFlagTypes).                         *)
ArgumentsFit ==
    CallingTool =>
       LET t     == CalledTool
           given == IF cmd = "tool" THEN DOMAIN Split.flags ELSE DOMAIN Action.args
           words == IF cmd = "tool" THEN Split.words ELSE Action.words
       IN  /\ (/\ Len(words) >= Cardinality(Required(t) \ given)
               /\ cmd = "verb" => Split.flags = NoArgs) =>
                 Required(t) \subseteq DOMAIN args
           /\ \A f \in DOMAIN args \cap t.props :
                 /\ FieldType(f) = "string" => args[f] = "string"
                 /\ FieldType(f) = "array" =>
                       \/ args[f] = "array"
                       \/ f \in DOMAIN Split.flags /\ Split.flags[f] # "string"

(* Not so: "A single bare token is the one-element array it obviously      *)
(* means" (resolver.go:578): `--command 7` stays a number.                 *)
ArraysAreArrays ==
    CallingTool =>
       \A f \in DOMAIN args \cap CalledTool.props : FieldType(f) = "array" => args[f] = "array"

===========================================================================
