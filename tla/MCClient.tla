----------------------------- MODULE MCClient -----------------------------
(***************************************************************************)
(* The command lines given to linuxctl: every verb that means something in *)
(* some group with every group, with no word, one word (a keyword or       *)
(* data), or more; every tool by its name, with words and flags; the       *)
(* commands of fixed shape.                                                *)
(***************************************************************************)
EXTENDS Client

CmdLine(k, verb, group, tokens) ==
    [kind |-> k, verb |-> verb, group |-> group, tokens |-> tokens, flag |-> FALSE]

MCGroups == {"files", "system", "docker", "crontabs", "kernel", "network", "disks", "nogroup"}
MCVerbs == {"get", "describe", "update", "exec", "restart", "Restart", "remove"}
Data == {<<"7">>, <<"w", "w">>, <<"7", "w">>, <<"web", "--", "ls", "-o">>}

Keywords == {"services", "sysctl", "images", "network", "interfaces", "crontab", "read", "logs"}

MCCommands ==
    { CmdLine(k, NoWord, NoWord, <<>>) :
          k \in {"ping", "stdio", "mcpd", "tools", "resources", "prompts", "info", "resource"} }
    \cup { CmdLine("explain", NoWord, g, <<>>) : g \in MCGroups \cup {"devices", "processes"} }
    \cup { CmdLine("verb", "edit", "crontabs", <<>>) }
    \cup { CmdLine("verb", v, g, r) :
             v \in MCVerbs, g \in MCGroups,
             r \in {<<>>} \cup Data \cup { <<k>> : k \in Keywords }
                   \cup {<<"services", "w">>, <<"sysctl", "w", "7">>, <<"w", "--user", "7">>} }
    \cup { CmdLine("tool", NoWord, t.name, r) :
             t \in ToSet(DockerTools \o ServiceTools \o CronTools \o FileTools),
             r \in {<<>>, <<"w">>, <<"w", "7">>, <<"--path", "7", "w">>, <<"w", "--since", "7">>,
                    <<"--user", "7", "w", "w", "w">>, <<"w", "--command", "w">>,
                    <<"w", "--command", "7">>, <<"w", "--command">>, <<"--command=7", "w">>,
                    <<"w", "--since=7">>, <<"--path", "--output=json", "w">>,
                    <<"--path", "-o", "json", "w">>} }
    \cup { CmdLine("tool", NoWord, "no/tool", <<>>) }
    \cup { [CmdLine("complete", NoWord, NoWord, ws) EXCEPT !.flag = f] :
             ws \in {<<>>, <<"update">>, <<"tool">>, <<"resource">>, <<"tool", "docker/exec">>,
                     <<"exec", "docker">>, <<"edit", "mcpd", "config">>},
             f \in {TRUE, FALSE} }
    \cup { CmdLine("complete", NoWord, NoWord, <<v, g>>) :
             v \in {"get", "describe", "update", "remove", "images"},
             g \in {"files", "system", "docker", "crontabs", "kernel", "network", "mcpd"} }

===========================================================================
