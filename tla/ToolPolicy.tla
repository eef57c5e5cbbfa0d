----------------------------- MODULE ToolPolicy -----------------------------
(* The gate in front of every tool call of a worker (engine/domain.ts): reserved
   paths, file classes of the agent type, planning stages and domain scopes, with
   a small lexer and classifiers for shell commands.

   A path is a sequence of names below the root of the file system; what a tool is
   given may hold "..".  A command is a sequence of clauses, a clause a sequence of
   words; words that are paths, or code for an interpreter, are declared as such. *)
EXTENDS Integers, Sequences, FiniteSets, SequencesExt

CONSTANTS
  Root,       \* the project directory
  Existing,   \* the files and directories there are
  Links,      \* a function from the symbolic links to their targets
  Secrets,    \* settings.secretPaths
  PathWords,  \* a function from the words that are paths to what they name
  CodeWords,  \* a function from the words that are code to the command they are
  RefWords,   \* the path words that look like a ref of git, as origin/main does
  Calls,      \* the tool calls to decide
  Texts       \* the command lines to lex, as sequences of characters

VARIABLES call, verdict
policyVars == <<call, verdict>>

AgentTypes == {"planner", "coder", "tester", "reviewer", "lead", "operations"}
Drop(s, n) == SubSeq(s, n + 1, Len(s))

-----------------------------------------------------------------------------
(* core/safe-path.ts *)

\* path.resolve: names are appended, and ".." takes one away.
ResolveDomainPath(raw) ==
  FoldLeft(LAMBDA at, name : IF name # ".." THEN Append(at, name)
                             ELSE IF at = <<>> THEN at ELSE Front(at), Root, raw)
IsPathInside(parent, child) == IsPrefix(parent, child)

\* realpath of a path whose links are resolved once.
Real(p) ==
  IF \E l \in DOMAIN Links : IsPrefix(l, p)
  THEN LET l == CHOOSE q \in DOMAIN Links : IsPrefix(q, p) IN Links[l] \o Drop(p, Len(l))
  ELSE p
ExistsLexically(p) == p = <<>> \/ p \in DOMAIN Links \/ Real(p) \in Existing

NoPath == <<"null">>
NearestExisting(p) ==
  SubSeq(p, 1, CHOOSE n \in 0 .. Len(p) :
                 /\ ExistsLexically(SubSeq(p, 1, n))
                 /\ \A m \in n + 1 .. Len(p) : ~ExistsLexically(SubSeq(p, 1, m)))

\* resolveCanonicalPath; a broken link, or a missing path where one must exist, is none.
CanonicalFrom(a, p, allowMissing) ==
  IF (a # p /\ ~allowMissing) \/ Real(a) \notin Existing \cup {<<>>} THEN NoPath
  ELSE Real(a) \o Drop(p, Len(a))
ResolveCanonicalPath(p, allowMissing) == CanonicalFrom(NearestExisting(p), p, allowMissing)

\* resolveContainedPath: inside by its name, and inside by where it really is.
ReallyInside(root, p) == NoPath \notin {root, p} /\ IsPathInside(root, p)
Contained(root, p, allowMissing) ==
  /\ IsPathInside(root, p)
  /\ ReallyInside(ResolveCanonicalPath(root, TRUE), ResolveCanonicalPath(p, allowMissing))

ConfiguredPath(p, outside) ==
  IF outside \/ Contained(Root, p, TRUE) THEN ResolveCanonicalPath(p, TRUE) ELSE NoPath
ResolveConfiguredPath(raw, outside) == ConfiguredPath(ResolveDomainPath(raw), outside)

-----------------------------------------------------------------------------
(* Domain scopes *)

\* A glob is a directory and what may follow it: "**", "*" or a name.
GlobMatches(g, rel) ==
  /\ IsPrefix(g.dir, rel)
  /\ CASE g.tail = "**" -> g.dir = <<>> \/ Len(rel) > Len(g.dir)
       [] g.tail = "*"  -> Len(rel) = Len(g.dir) + 1
       [] OTHER         -> rel = Append(g.dir, g.tail)
GlobSpecificity(g) == Len(g.dir) + (IF g.tail \in {"*", "**"} THEN 0 ELSE 1)

NoMatch == -1
\* The best include glob; a scope without any takes everything.
MatchingGlobSpecificity(globs, rel) ==
  IF globs = {} THEN 0
  ELSE FoldSet(LAMBDA g, best : IF GlobSpecificity(g) > best THEN GlobSpecificity(g) ELSE best,
               NoMatch, {g \in globs : GlobMatches(g, rel)})

\* What a scope has to say about a path: <<depth of the scope, best glob>>, or no match.
MatchFrom(at, scope, p, allowMissing) ==
  LET rel == Drop(p, Len(at))
      inc == MatchingGlobSpecificity(scope.include, rel)
  IN  IF \/ at = NoPath \/ ~Contained(at, p, allowMissing)
         \/ \E g \in scope.exclude : GlobMatches(g, rel)
         \/ inc = NoMatch
      THEN <<NoMatch, NoMatch>> ELSE <<Len(at), inc>>
DomainScopeMatch(scope, p, allowMissing) ==
  MatchFrom(ResolveConfiguredPath(scope.path, scope.outside), scope, p, allowMissing)

Beats(m, n) == m[1] > n[1] \/ (m[1] = n[1] /\ m[2] > n[2])

\* Mutant: at a tie the scope that comes last decides.
Weigh_LastWins(best, m, allowed) ==
  IF m[1] = NoMatch \/ Beats(best.match, m) THEN best ELSE [match |-> m, allowed |-> allowed]

\* One more scope, which permits or denies: the more specific one decides, deny at a tie.
Weigh(best, m, allowed) ==
  CASE m[1] = NoMatch       -> best
    [] Beats(m, best.match) -> [match |-> m, allowed |-> allowed]
    [] m = best.match       -> [best EXCEPT !.allowed = @ /\ allowed]
    [] OTHER                -> best

\* domainAllows
DomainAllows(scopes, raw, capability, allowMissing) ==
  FoldLeft(LAMBDA best, scope :
             Weigh(best, DomainScopeMatch(scope, ResolveDomainPath(raw), allowMissing), scope[capability]),
           [match |-> <<NoMatch, NoMatch>>, allowed |-> FALSE], scopes).allowed

-----------------------------------------------------------------------------
(* Reserved paths, file classes and stages *)

Protected(at, real, p) == IsPathInside(IF real = NoPath THEN at ELSE real, p)
Reserved(p) ==
  \/ \E i \in DOMAIN p : p[i] = ".git"
  \/ p # <<>> /\ Last(p) = ".env"
  \/ IsPathInside(Root \o <<"sessions">>, p)
  \/ \E s \in Secrets :
       Protected(ResolveDomainPath(s), ResolveCanonicalPath(ResolveDomainPath(s), TRUE), p)

\* checkReservedPath: by name and by where it really is.
ReservedPath(raw) ==
  \E p \in {ResolveDomainPath(raw), ResolveCanonicalPath(ResolveDomainPath(raw), TRUE)} :
    p # NoPath /\ Reserved(p)

\* classify, of the path relative to the project; outside it, everything is code.
Classify(raw) ==
  LET p   == ResolveDomainPath(raw)
      rel == Drop(p, Len(Root))
  IN  CASE ~IsPathInside(Root, p) \/ rel = <<>> -> "code"
        [] Len(rel) > 1 /\ rel[1] = "openspec"  -> "spec"
        [] Last(rel) = "tasks.md"               -> "tasks"
        [] Last(rel) = "a.md"                   -> "docs"
        [] OTHER                                -> "code"

WritableClasses(type) ==
  CASE type = "planner"                          -> {"spec", "docs", "tasks"}
    [] type \in {"coder", "tester", "operations"} -> {"code", "docs", "tasks"}
    [] OTHER                                     -> {}

\* checkTypePolicy; class "none" is a mutation that names no path.
CheckTypePolicy(type, class, action) ==
  action \in {"upsert", "delete"} =>
    /\ WritableClasses(type) # {}
    /\ class \in WritableClasses(type) \cup {"none"}

\* gateOf: the artifact of openspec/changes/<id>/.
GateOf(raw) ==
  LET rel == Drop(ResolveDomainPath(raw), Len(Root)) IN
  IF Len(rel) > 3 /\ SubSeq(rel, 1, 2) = <<"openspec", "changes">>
  THEN CASE rel[4] = "tasks.md" /\ Len(rel) = 4 -> "tasks"
         [] rel[4] = "specs" /\ Len(rel) > 4    -> "specs"
         [] OTHER                               -> "none"
  ELSE "none"
CheckPlannerStages(stages, raw) == GateOf(raw) \in stages \cup {"none"}

\* enforceTypePolicyForPath; an agent without a type is not judged by it.
TypeAllows(agent, raw, action) ==
  agent.type # "none" =>
    /\ CheckTypePolicy(agent.type, Classify(raw), action)
    /\ agent.type = "planner" /\ action \in {"upsert", "delete"} => CheckPlannerStages(agent.stages, raw)

-----------------------------------------------------------------------------
(* The two lexers, over a line as a sequence of characters.  A token is its text and
   whether a quote opened in it; parseShellCommands keeps the text only.            *)

Begin == [done |-> <<>>, words |-> <<>>, word |-> <<>>, quoted |-> FALSE, quote |-> "",
          escaped |-> FALSE, pending |-> FALSE, skip |-> FALSE, failed |-> FALSE]

PushWord(st) ==
  IF st.word = <<>> THEN st
  ELSE [st EXCEPT !.words = Append(@, <<st.word, st.quoted>>), !.word = <<>>, !.quoted = FALSE]
PushCommand(st) ==
  LET p == PushWord(st) IN
  IF p.words = <<>> THEN [p EXCEPT !.failed = TRUE]
  ELSE [p EXCEPT !.done = Append(@, p.words), !.words = <<>>, !.pending = TRUE]

\* The end of the line: no open quote, and a command after the last separator.
Finish(st) ==
  LET p == PushWord(st)
      all == IF p.words = <<>> THEN p.done ELSE Append(p.done, p.words)
  IN  IF p.failed \/ st.escaped \/ st.quote # "" \/ (p.words = <<>> /\ p.pending) THEN <<>> ELSE all

Extend(st, ch) == [st EXCEPT !.word = Append(@, ch), !.escaped = FALSE]
Separates(ch, next) == IF ch = ";" THEN "one" ELSE IF next = "&" THEN "two" ELSE "background"

\* parseShellCommands
ParseStep(st, ch, next) ==
  CASE st.failed -> st
    [] st.skip -> [st EXCEPT !.skip = FALSE]
    [] st.escaped -> Extend(st, ch)
    [] ch = "\\" /\ st.quote # "'" -> [st EXCEPT !.escaped = TRUE]
    [] st.quote # "" -> IF ch = st.quote THEN [st EXCEPT !.quote = ""] ELSE Extend(st, ch)
    [] ch \in {"'", "\""} -> [st EXCEPT !.quote = ch]
    [] ch = " " -> PushWord(st)
    [] ch \in {";", "&"} ->
         (CASE Separates(ch, next) = "background" -> [st EXCEPT !.failed = TRUE]
            [] Separates(ch, next) = "one" -> PushCommand(st)
            [] OTHER -> [PushCommand(st) EXCEPT !.skip = TRUE])
    [] OTHER -> Extend(st, ch)

\* tokenizeBash: the same, except that it knows >& and &> and notes the quotes.
TokenStep(st, ch, next) ==
  CASE st.failed -> st
    [] st.skip -> [st EXCEPT !.skip = FALSE]
    [] st.escaped -> Extend(st, ch)
    [] ch = "\\" /\ st.quote # "'" -> [st EXCEPT !.escaped = TRUE]
    [] st.quote # "" -> IF ch = st.quote THEN [st EXCEPT !.quote = ""] ELSE Extend(st, ch)
    [] ch \in {"'", "\""} -> [st EXCEPT !.quote = ch, !.quoted = TRUE]
    [] ch = " " -> PushWord(st)
    [] ch \in {";", "&"} ->
         (CASE Separates(ch, next) = "one" -> PushCommand(st)
            [] Separates(ch, next) = "two" -> [PushCommand(st) EXCEPT !.skip = TRUE]
            [] st.word # <<>> /\ Last(st.word) = ">" -> Extend(st, ch)
            [] next = ">" -> [Extend(Extend(st, ch), next) EXCEPT !.skip = TRUE]
            [] OTHER -> [st EXCEPT !.failed = TRUE])
    [] OTHER -> Extend(st, ch)

At(line, i) == IF i \in DOMAIN line THEN line[i] ELSE ""
Lex(line, Step(_, _, _)) ==
  Finish(FoldLeft(LAMBDA st, i : Step(st, line[i], At(line, i + 1)), Begin,
                  [i \in 1 .. Len(line) |-> i]))
Text(commands) == [i \in DOMAIN commands |-> [j \in DOMAIN commands[i] |-> commands[i][j][1]]]
ParseShellCommands(line) == Text(Lex(line, ParseStep))
TokenizeBash(line) == Lex(line, TokenStep)

-----------------------------------------------------------------------------
(* Shell commands, word by word: [form, clauses], a word [text, quoted].  A command with
   a background job is "background": neither lexer takes it.  With a redirection of
   streams it is "redirect": the tokenizer does, parseShellCommands does not.        *)

Words(clause) == [i \in DOMAIN clause |-> clause[i].text]
Parsed(c) == IF c.form = "plain" THEN {Words(c.clauses[i]) : i \in DOMAIN c.clauses} ELSE {}
EnvWords == {"V=1"}

\* The words of a command, those inside the code it hands to an interpreter included.
TextWords(c) ==
  LET outer == UNION {Range(Words(c.clauses[i])) : i \in DOMAIN c.clauses} IN
  outer \cup UNION {UNION {Range(Words(CodeWords[w].clauses[i])) : i \in DOMAIN CodeWords[w].clauses}
                    : w \in outer \cap DOMAIN CodeWords}

\* The path words of a token: its own, or those the regex finds in code.
PathsInText(w) ==
  IF w \in DOMAIN CodeWords THEN TextWords(CodeWords[w]) \cap DOMAIN PathWords
  ELSE {w} \cap DOMAIN PathWords

Interpreters == {"sh", "eval"}
\* Quoted code is looked into after `sh -c`, and everywhere after `eval`.
IsCode(words, i) ==
  \/ words[1] = "eval" /\ i > 1
  \/ /\ words[1] = "sh" /\ i > 2 /\ words[i - 1] = "-c"
     /\ \A j \in 2 .. i - 2 : words[j] # "-c"
\* grep takes a pattern first, which is no path.
IsPattern(words, i) == words[1] = "grep" /\ i = 2
\* extractBashPathTokens for one clause
ClausePaths(clause) ==
  LET words == Words(clause) IN
  UNION {PathsInText(words[i]) :
           i \in {j \in DOMAIN words : /\ words[j] \notin EnvWords /\ ~IsPattern(words, j)
                                       /\ clause[j].quoted => IsCode(words, j)}}
\* Without a lexer that takes it, the regex goes over the raw line.
ExtractBashPathTokens(c) ==
  IF c.form = "background" THEN UNION {UNION {PathsInText(w) : w \in Range(Words(c.clauses[i]))} : i \in DOMAIN c.clauses}
  ELSE UNION {ClausePaths(c.clauses[i]) : i \in DOMAIN c.clauses}

\* filterBashPathTokens: of what a command reads, words that look like refs are dropped.
LooksLikePath(w) == w \notin RefWords
FilterBashPathTokens(paths, kind) ==
  IF kind # "read" THEN paths
  ELSE {w \in paths : \/ ExistsLexically(ResolveDomainPath(PathWords[w]))
                      \/ ExistsLexically(ResolveDomainPath(PathWords[w] \o <<"..">>))
                      \/ LooksLikePath(w)}

\* gitSubcommand: past the global options, of which some take a value; 0 is no git.
RECURSIVE SkipGlobals(_, _)
SkipGlobals(words, i) ==
  CASE i > Len(words)           -> i
    [] words[i] \in {"-C", "-c"} -> SkipGlobals(words, i + 2)
    [] words[i] = "--no-pager"  -> SkipGlobals(words, i + 1)
    [] OTHER                    -> i
GitSubcommand(words) ==
  IF words = <<>> \/ words[1] # "git" THEN 0 ELSE SkipGlobals(words, 2)
SafeGlobals(words) ==
  /\ GitSubcommand(words) <= Len(words) + 1
  /\ \A i \in 2 .. GitSubcommand(words) - 1 : words[i] \notin {"-c", "--no-pager"}
SubcommandOf(words) == At(words, GitSubcommand(words))

RECURSIVE StripEnv(_)
StripEnv(words) == IF words # <<>> /\ words[1] \in EnvWords THEN StripEnv(Tail(words)) ELSE words

\* classifiedGitSubcommand: `command`, then `env`, once.
Unwrapped(words) ==
  LET w == IF At(words, 1) = "command" THEN Tail(words) ELSE words IN
  IF At(w, 1) = "env" THEN StripEnv(Tail(w)) ELSE w
ClassifiedGit(words) == SubcommandOf(Unwrapped(words))

\* statementIsCommit takes the wrappers in any order, as often as they come.
RECURSIVE UnwrapAll(_)
UnwrapAll(words) ==
  CASE At(words, 1) = "command" -> UnwrapAll(Tail(words))
    [] At(words, 1) = "env"     -> UnwrapAll(StripEnv(Tail(words)))
    [] OTHER                    -> words

CommitSubcommands == {"commit", "push", "tag", "am"}
Publishes(w) == At(w, 1) = "gp" \/ (At(w, 1) = "npm" /\ At(w, 2) = "publish")

\* statementIsCommit, without the code of `sh -c`
StatementIsCommit(words) ==
  LET w == UnwrapAll(words) IN
  Publishes(w) \/ SubcommandOf(w) \in CommitSubcommands

\* isCommitCommand works on the text, so a command no lexer takes is looked at too.
IsCommitCommand(c) ==
  \E i \in DOMAIN c.clauses :
    LET words == Words(c.clauses[i]) IN
    \/ StatementIsCommit(words)
    \/ /\ At(words, 1) = "sh" /\ At(words, 2) = "-c" /\ At(words, 3) \in DOMAIN CodeWords
       /\ LET code == CodeWords[words[3]]
          IN  \E j \in DOMAIN code.clauses : StatementIsCommit(Words(code.clauses[j]))

GitMutations == {"add", "commit", "checkout", "push", "tag", "am", "restore", "fetch"}
\* bashMutationKind: what is deleted, then what is written, then the rest.
BashMutationKind(c) ==
  LET git == {ClassifiedGit(w) : w \in Parsed(c)} IN
  CASE \/ "rm" \in TextWords(c) \/ {"find", "-delete"} \subseteq TextWords(c)
       \/ "restore" \in git
       \/ \E w \in Parsed(c) : ClassifiedGit(w) = "checkout" /\ "--" \in Range(w) -> "delete"
    [] git \cap GitMutations # {} \/ TextWords(c) \cap {"touch", ">", "tee"} # {} -> "upsert"
    [] OTHER -> "read"

ReadOnlyCommands == {"cat", "find", "grep", "ls", "sort"}
\* readOnlyCommandDecision
ReadOnlyCommand(c, network) ==
  /\ c.form = "plain" /\ c.clauses # <<>> /\ ">" \notin TextWords(c)
  /\ "curl" \in TextWords(c) => network
  /\ \A w \in Parsed(c) :
       \/ GitSubcommand(w) > 0 /\ SafeGlobals(w) /\ SubcommandOf(w) \in {"status", "diff", "log"}
          /\ "--output" \notin Range(Drop(w, GitSubcommand(w)))
       \/ w[1] = "curl" /\ network /\ "-o" \notin Range(w)
       \/ /\ w[1] \in ReadOnlyCommands
          /\ w[1] = "find" => "-delete" \notin Range(w)
          /\ w[1] = "sort" => "-o" \notin Range(w)

-----------------------------------------------------------------------------
(* enforceDomainForTool.  The scopes in force are the ones of the delegation, when it
   brings any, and the agent's own otherwise.                                        *)

ScopesOf(k) == IF k.override = <<>> THEN k.agent.domain ELSE k.override

\* One path through the three layers.
PathAllowed(k, raw, capability, action, allowMissing) ==
  /\ ~ReservedPath(raw)
  /\ TypeAllows(k.agent, raw, action)
  /\ DomainAllows(ScopesOf(k), raw, capability, allowMissing)

\* read, grep, find, ls; write, edit
FileTool(k) ==
  LET capability == IF k.tool \in {"read", "grep", "find", "ls"} THEN "read" ELSE "upsert"
      paths == IF k.paths = {} /\ k.tool \in {"grep", "find", "ls"} THEN {<<".">>} ELSE k.paths
  IN  \A raw \in paths :
        PathAllowed(k, IF raw = <<".">> THEN <<>> ELSE raw, capability, capability, capability = "upsert")

DashboardAddress == "127.0.0.1:43191"

\* Reserved names are looked for among all words, as paths.
NamesOf(c) ==
  {IF w \in DOMAIN PathWords THEN PathWords[w] ELSE <<w>> : w \in UNION {Range(p) : p \in Parsed(c)}}
\* The branch for bash: the list for readers, network, commits, then every name and path.
Bash(k) ==
  LET kind   == BashMutationKind(k.command)
      inside == \E w \in Parsed(k.command) : ClassifiedGit(w) \in GitMutations
      named  == FilterBashPathTokens(ExtractBashPathTokens(k.command), kind)
      paths  == {PathWords[w] : w \in named} \cup (IF kind # "read" /\ inside THEN {<<>>} ELSE {})
  IN  /\ k.agent.type \in {"reviewer", "lead"} => ReadOnlyCommand(k.command, k.agent.network)
      /\ DashboardAddress \notin TextWords(k.command)
      /\ "curl" \in TextWords(k.command) => k.agent.network
      /\ IsCommitCommand(k.command) => k.agent.commit
      /\ \A raw \in NamesOf(k.command) : ~ReservedPath(raw)
      /\ kind # "read" => paths # {}
      /\ \A raw \in paths :
           PathAllowed(k, raw, kind, IF kind = "read" THEN "command" ELSE kind, TRUE)

EnforceDomainForTool(k) == IF k.tool = "bash" THEN Bash(k) ELSE FileTool(k)

-----------------------------------------------------------------------------
(* What a delegation may bring as scopes of its own (engine/dispatch.ts).            *)

MayWrite(scope) == scope.upsert \/ scope.delete
WrittenPaths(scopes) == {s.path : s \in {scope \in Range(scopes) : MayWrite(scope)}}
\* The part of preflightCheck on domainOverride: no write for a run that only reads or for
\* a reviewer, nothing reserved, under a cap no path the agent does not write anyway.
OverrideAccepted(k) ==
  k.override # <<>> =>
    /\ k.readOnly \/ k.agent.type = "reviewer" => WrittenPaths(k.override) = {}
    /\ \A s \in Range(k.override) : ~ReservedPath(s.path)
    /\ k.capped => WrittenPaths(k.override) \subseteq WrittenPaths(k.agent.domain)
    /\ ~k.tooDeep

PolicyInit == (call \in Calls \/ call \in [tool : {"lex"}, line : Texts]) /\ verdict = "none"

\* The tool_call event: the gate answers before the tool runs.
ToolCall ==
  /\ verdict = "none" /\ call.tool # "delegate" /\ UNCHANGED call
  /\ verdict' = IF call.tool = "lex" THEN "lexed"
                ELSE IF EnforceDomainForTool(call) THEN "ok" ELSE "block"
\* The checks of a delegation, before it waits for a slot.
Delegation ==
  /\ verdict = "none" /\ call.tool = "delegate" /\ UNCHANGED call
  /\ verdict' = IF OverrideAccepted(call) THEN "ok" ELSE "block"
PolicyNext == ToolCall \/ Delegation

-----------------------------------------------------------------------------
PolicyTypeOK == verdict \in {"none", "lexed", "ok", "block"}

\* domain.ts:99-108: of the scopes that match, those with the deepest path and among them
\* the best glob decide; one that denies is enough, and with none the answer is no.
Matches(scopes, raw, missing) ==
  {m \in {<<i, DomainScopeMatch(scopes[i], ResolveDomainPath(raw), missing)>> : i \in DOMAIN scopes} :
     m[2][1] # NoMatch}
MostSpecific(matches) == {m \in matches : \A n \in matches : ~Beats(n[2], m[2])}
MostSpecificWins ==
  call.tool \in {"read", "write"} =>
    \A raw \in call.paths : \A capability \in {"read", "upsert"} :
      LET best == MostSpecific(Matches(ScopesOf(call), raw, capability = "upsert")) IN
      DomainAllows(ScopesOf(call), raw, capability, capability = "upsert")
        <=> best # {} /\ \A m \in best : ScopesOf(call)[m[1]][capability]

\* domain.ts:436-440, the tokenizer is the sibling of the parser: what the parser takes
\* the tokenizer takes, with the same commands and the same words.
LexersAgree ==
  call.tool = "lex" /\ ParseShellCommands(call.line) # <<>> =>
    Text(TokenizeBash(call.line)) = ParseShellCommands(call.line)

\* domain.ts:811-815: a worker without commit guidance runs no command of which the
\* classifier of mutations says that it creates history or publishes.
CommitsAreGated ==
  call.tool = "bash" /\ verdict = "ok" /\ ~call.agent.commit =>
    \A w \in Parsed(call.command) : ClassifiedGit(w) \notin CommitSubcommands

\* domain.ts:792-803: a reviewer or a lead changes nothing through any tool, commit
\* guidance or not, whatever its scopes grant.
ReadersOnlyRead ==
  verdict = "ok" /\ call.agent.type \in {"reviewer", "lead"} =>
    IF call.tool = "bash" THEN BashMutationKind(call.command) = "read"
    ELSE call.tool # "write" \/ call.paths = {}

\* A file is in reach of the shell exactly when it is in reach of the file tools: for
\* writers, `touch f` and a write of f are allowed together.
ShellAndToolsAgree ==
  call.tool = "write" /\ verdict # "none" /\ call.agent.type \notin {"reviewer", "lead"} =>
    \A w \in DOMAIN PathWords : call.paths = {PathWords[w]} =>
      LET touch == [form |-> "plain", clauses |-> <<<<[text |-> "touch", quoted |-> FALSE],
                                                      [text |-> w, quoted |-> FALSE]>>>>]
      IN  (verdict = "ok") <=> Bash([call EXCEPT !.tool = "bash", !.command = touch])

\* dispatch.ts:123-206: whatever the globs and the links, the scopes of an accepted
\* delegation let nobody write for whom writing was refused, and under a cap they let
\* the agent write only where one of its own scopes that write is.
DelegationStaysInReach ==
  call.tool = "delegate" /\ verdict = "ok" /\ call.override # <<>> =>
    \A w \in DOMAIN PathWords : \A capability \in {"upsert", "delete"} :
      DomainAllows(call.override, PathWords[w], capability, TRUE) =>
        /\ ~call.readOnly /\ call.agent.type # "reviewer"
        /\ call.capped =>
             \E s \in Range(call.agent.domain) :
               MayWrite(s) /\ Contained(ResolveConfiguredPath(s.path, s.outside), ResolveDomainPath(PathWords[w]), TRUE)

ToolRulesHold ==
  /\ MostSpecificWins /\ LexersAgree /\ CommitsAreGated /\ ReadersOnlyRead /\ ShellAndToolsAgree
  /\ DelegationStaysInReach
=============================================================================
