---------------------------- MODULE MCToolPolicy ----------------------------
(* The instance of ToolPolicy for TLC: a project with links in and out of it,     *)
(* and the tool calls its gate is asked about.                                    *)
EXTENDS ToolPolicy, TLC

Project == <<"proj">>
TheExisting ==
  {Project, <<"other">>, <<"other", "f">>}
  \cup {Project \o p : p \in {<<"src">>, <<"src", "f">>, <<"doc">>, <<"openspec">>, <<".git">>, <<"sec">>}}
TheLinks ==
  (Project \o <<"out">> :> <<"other">>) @@ (Project \o <<"in">> :> Project \o <<"src">>)
  @@ (Project \o <<"broken">> :> <<"gone">>)
TheSecrets == {<<"sec">>}

\* The words of commands that name a path, and the path each names.
ThePathWords ==
  ("src/f" :> <<"src", "f">>) @@ ("in/f" :> <<"in", "f">>) @@ ("out/f" :> <<"out", "f">>)
  @@ ("src/new" :> <<"src", "new">>) @@ (".git/x" :> <<".git", "x">>)
  @@ ("origin/main" :> <<"origin", "main">>) @@ ("up/x" :> <<"src", "..", "..", "other", "f">>)
  @@ ("tasks" :> <<"openspec", "changes", "c", "tasks.md">>) @@ ("sec/k" :> <<"sec", "k">>)
  @@ ("doc/a" :> <<"doc", "a.md">>) @@ ("br" :> <<"broken">>)

Plain(t) == [text |-> t, quoted |-> FALSE]
Quoted(t) == [text |-> t, quoted |-> TRUE]
PlainWords(s) == [i \in DOMAIN s |-> Plain(s[i])]
Command(clauses) == [form |-> "plain", clauses |-> clauses]
\* Quoted words that are commands themselves: sh -c '...'.
TheCodeWords ==
  ("git commit;" :> Command(<<PlainWords(<<"git", "commit">>)>>))
  @@ ("cat src/f;" :> Command(<<PlainWords(<<"cat", "src/f">>)>>))

Vocabulary == {"git", "commit", "status", "checkout", "--", "-C", "-c", "env", "command", "V=1", "cat",
               "rm", "find", "-delete", "src/f", "npm", "publish", "sh", ".env"}
Heads == {"git", "env", "command", "V=1", "cat", "rm", "find", "npm", "sh"}
Short == {<<a>> : a \in Vocabulary} \cup (Heads \X Vocabulary)
Wrapped ==
  ({"git"} \X {"-C", "-c", "--", "commit", "checkout", "status"} \X Vocabulary)
  \cup ({"env", "command"} \X Heads \X Vocabulary)
  \cup {<<"env", "V=1", b, c>> : b \in Heads, c \in Vocabulary}
Commands ==
  {Command(<<PlainWords(s)>>) : s \in Short \cup Wrapped}
  \cup {[form |-> f, clauses |-> <<PlainWords(s)>>] :
          f \in {"background", "redirect"}, s \in {<<"git", "commit">>, <<"cat", "src/f">>, <<"git", "status">>}}
  \cup {Command(<<<<Plain("sh"), Plain("-c"), Quoted(x)>>>>) : x \in DOMAIN TheCodeWords}
  \cup {Command(<<PlainWords(<<"cat", "src/f">>), <<Plain("grep"), Plain(w), Quoted("src/new")>>>>) :
          w \in DOMAIN ThePathWords}
  \cup {Command(<<PlainWords(<<a, w>>)>>) :
          a \in {"touch", "tee", "curl", "sort", "grep", "eval", "gp"}, w \in DOMAIN ThePathWords}

\* Rules of a domain: a path, files included and excluded, what is permitted.
Glob(dir, tail) == [dir |-> dir, tail |-> tail]
Rule(path, include, exclude, may) ==
  [path |-> path, include |-> include, exclude |-> exclude, outside |-> FALSE,
   read |-> "read" \in may, upsert |-> "upsert" \in may, delete |-> "delete" \in may]
All == {"read", "upsert", "delete"}
Rules ==
  {Rule(<<>>, {}, {}, {"read"}), Rule(<<>>, {}, {}, All), Rule(<<"src">>, {}, {}, {"read", "upsert"}),
   Rule(<<"src">>, {}, {Glob(<<>>, "f")}, {}), Rule(<<"src">>, {Glob(<<>>, "**")}, {}, {"read", "delete"}),
   Rule(<<"src">>, {Glob(<<>>, "new")}, {}, {"read", "upsert"}),
   Rule(<<>>, {Glob(<<"src">>, "*")}, {}, {"read", "upsert"}), Rule(<<"in">>, {}, {}, {"read", "upsert"}),
   [Rule(<<"..", "other">>, {}, {}, All) EXCEPT !.outside = TRUE], Rule(<<"broken">>, {}, {}, All)}
Domains == {<<>>} \cup {<<s>> : s \in Rules} \cup (Rules \X Rules)

Wide == <<Rule(<<>>, {}, {}, All)>>
Agent(type, stages, commit) ==
  [type |-> type, stages |-> stages, domain |-> Wide, commit |-> commit, network |-> FALSE]
Call(agent, override, tool, paths, command) ==
  [agent |-> agent, override |-> override, tool |-> tool, paths |-> paths, command |-> command]
NoCommand == Command(<<>>)
\* Delegations with scopes of their own, each to an agent that has one already.
Limits == {<<FALSE, FALSE, FALSE>>, <<TRUE, FALSE, FALSE>>, <<FALSE, TRUE, FALSE>>, <<FALSE, FALSE, TRUE>>}
Delegations ==
  {Call([Agent(t, {"tasks"}, FALSE) EXCEPT !.domain = <<own>>], brought, "delegate", {}, NoCommand)
     @@ [readOnly |-> l[1], capped |-> l[2], tooDeep |-> l[3]] :
     t \in {"coder", "reviewer"}, own \in {s \in Rules : ~s.outside /\ s.exclude = {}}, l \in Limits,
     brought \in {<<>>} \cup {<<s>> : s \in Rules \cup {Rule(<<".git">>, {}, {}, {"read"})}}
                 \cup {<<Rule(<<>>, {}, {}, {"read"}), s>> : s \in Rules}}
\* The files of every domain, the types of agents, and the shell.
TheCalls ==
  {Call(Agent("coder", {"specs"}, FALSE), d, tool, {ThePathWords[w]}, NoCommand) :
     d \in Domains, tool \in {"read", "write"}, w \in DOMAIN ThePathWords}
  \cup {Call(Agent(t, s, FALSE), <<>>, tool, ps, NoCommand) :
     t \in AgentTypes \cup {"none"}, s \in {{"specs"}, {"tasks"}}, tool \in {"read", "write", "ls"},
     ps \in {{}} \cup {{ThePathWords[w]} : w \in DOMAIN ThePathWords}}
  \cup {Call(a, <<>>, "bash", {}, c) :
     a \in {Agent(t, {"tasks"}, FALSE) : t \in {"coder", "reviewer"}} \cup {Agent("coder", {"tasks"}, TRUE)},
     c \in Commands}
  \cup Delegations

\* Texts the two lexers read.
Characters == {"x", " ", "'", "\"", "\\", ";", "&", ">"}
TheTexts == UNION {[1 .. n -> Characters] : n \in 1 .. 3}
=============================================================================
