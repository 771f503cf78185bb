---------------------------- MODULE AgentRouting ----------------------------
(***************************************************************************)
(* How repo-tools assigns changed paths to subagents (route-task) and      *)
(* verifies what a subagent hands over (verify-handoff).  A path, and a    *)
(* pattern of routing-rules.yml or codemap.yml, is its sequence of         *)
(* segments.  Both commands look at the staged paths, or at the unstaged   *)
(* ones when none is staged, while the working tree keeps changing.        *)
(***************************************************************************)
EXTENDS FiniteSets, Naturals, Sequences, SequencesExt

VARIABLES
  staged,        \* paths with staged changes
  unstaged,      \* tracked paths with unstaged changes
  report         \* what the last command said: of a verify-handoff the agent
                 \* and the verdict, of a route-task the agents in dispatch
                 \* order, and the paths it read

routingVars == <<staged, unstaged, report>>

ChangedPaths ==
  {<<"services", "counter", "src", "domain">>, <<"infra", "k3s", "base">>,
   <<"servers", "bff", "src">>, <<"docs", "adr", "0001">>, <<"scripts", "AGENTS.md.orig">>}

(* The rules of routing-rules.yml the paths can meet, in its order.        *)
Rule(match, primary) == [match |-> match, primary |-> primary]
RoutingRules ==
  <<Rule(<<"packages", "contracts", "**">>, "contract-agent"),
    Rule(<<"servers", "bff", "**">>, "server-agent"),
    Rule(<<"services", "**">>, "service-agent"), Rule(<<"workers", "**">>, "worker-agent"),
    Rule(<<"infra", "**">>, "platform-ops-agent"), Rule(<<"docs", "adr", "**">>, "planner")>>
RuleOrder ==
  <<"platform-ops-agent", "contract-agent", "service-agent", "server-agent", "worker-agent">>
Agents == {"planner"} \cup Range(RuleOrder)

(* write_boundaries, as codemap.yml writes them: globs and bare words.     *)
Boundary(writable, readonly) == [writable |-> writable, readonly |-> readonly]
WriteBoundaries ==
  [a \in Agents |->
    CASE a = "planner" ->
           Boundary({<<"AGENTS.md">>, <<"agent", "**">>, <<"docs", "**">>, <<"root config">>},
                    {<<"generated_readonly">>})
      [] a = "platform-ops-agent" ->
           Boundary({<<"infra", "**">>, <<"ops", "**">>, <<"docs", "operations", "**">>},
                    {<<"services", "*", "src", "**">>, <<"generated_readonly">>})
      [] a = "contract-agent" ->
           Boundary({<<"packages", "contracts", "**">>, <<"docs", "contracts", "**">>},
                    {<<"services", "*", "src", "domain", "**">>,
                     <<"servers", "**", "src", "handlers", "**">>, <<"generated_readonly">>})
      [] a = "service-agent" ->
           Boundary({<<"services", "**">>, <<"fixtures", "**">>},
                    {<<"infra", "**">>, <<"platform", "catalog", "**">>})
      [] a = "server-agent" ->
           Boundary({<<"servers", "**">>},
                    {<<"services", "*", "src", "domain", "**">>, <<"infra", "**">>})
      [] a = "worker-agent" -> Boundary({<<"workers", "**">>}, {<<"infra", "**">>})]

-----------------------------------------------------------------------------
(* `base/**` matches base and everything below, `base/*` one level; any    *)
(* other pattern only itself.                                              *)
PatternMatches(target, pattern) ==
  LET base == SubSeq(pattern, 1, Len(pattern) - 1) IN
  \/ pattern = target
  \/ pattern[Len(pattern)] = "**" /\ IsPrefix(base, target)
  \/ pattern[Len(pattern)] = "*" /\ IsPrefix(base, target) /\ Len(target) = Len(base) + 1

(* Segments whose text begins with another segment's.                      *)
TextPrefixes == {<<"AGENTS.md", "AGENTS.md.orig">>}
StartsWith(segment, text) == segment = text \/ <<text, segment>> \in TextPrefixes

(* A boundary is looked for as literal text, at the start of the path or   *)
(* after a slash, and may end in the middle of a segment; a wildcard is    *)
(* two more characters and matches nothing but itself.                     *)
PathMatchesBoundary(path, boundary) ==
  \E i \in 0..(Len(path) - Len(boundary)) :
    /\ \A k \in 1..(Len(boundary) - 1) : path[i + k] = boundary[k]
    /\ StartsWith(path[i + Len(boundary)], Last(boundary))

GitChangedPaths == IF staged # {} THEN staged ELSE unstaged

WithinBoundary(path, boundary) ==
  \/ \E item \in boundary.writable : PathMatchesBoundary(path, item)
  \/ ~\E item \in boundary.readonly : PathMatchesBoundary(path, item)

(* gate_guidance knows the agents some rule names, but not the planner.    *)
GateGuidance(agent) ==
  agent # "planner" /\ \E i \in DOMAIN RoutingRules : RoutingRules[i].primary = agent

(* No path contains a boundary with a wildcard, so nothing is blocked as   *)
(* the codemap stands: every path counts as within writable boundaries.    *)
VerifyHandoff(agent) ==
  /\ report' =
       [agent |-> agent, paths |-> GitChangedPaths, dispatch |-> <<>>,
        verdict |-> CASE \E p \in GitChangedPaths : ~WithinBoundary(p, WriteBoundaries[agent]) -> "blocked"
                      [] ~GateGuidance(agent) -> "unknown_scope"
                      [] OTHER -> "verified"]
  /\ UNCHANGED <<staged, unstaged>>

(* The first rule that matches a path names its agent.                     *)
Matching(path) == SelectInSeq(RoutingRules, LAMBDA rule : PatternMatches(path, rule.match))
ByAgent(paths) == {RoutingRules[Matching(p)].primary : p \in {q \in paths : Matching(q) # 0}}

(* Mutant: the planner, which the order does not list, is forgotten.       *)
MutDispatch(paths) ==
  IF ByAgent(paths) = {} THEN <<>>
  ELSE SelectSeq(RuleOrder, LAMBDA agent : agent \in ByAgent(paths)) \o <<"(verify)">>

Dispatch(paths) ==
  IF ByAgent(paths) = {} THEN <<>>
  ELSE (IF "planner" \in ByAgent(paths) THEN <<"planner">> ELSE <<>>)
         \o SelectSeq(RuleOrder, LAMBDA agent : agent \in ByAgent(paths)) \o <<"(verify)">>

RouteTask ==
  /\ report' = [agent |-> "none", paths |-> GitChangedPaths, verdict |-> "routed",
                dispatch |-> Dispatch(GitChangedPaths)]
  /\ UNCHANGED <<staged, unstaged>>

(* The developer or a subagent works on the tree.                          *)
ModifyPath(p) ==
  /\ p \notin staged          \* bound: a path is changed once between commits
  /\ unstaged' = unstaged \cup {p}
  /\ UNCHANGED <<staged, report>>

StagePath(p) ==
  /\ p \in unstaged
  /\ unstaged' = unstaged \ {p} /\ staged' = staged \cup {p}
  /\ UNCHANGED report

CommitPaths ==
  /\ staged # {} /\ staged' = {}
  /\ UNCHANGED <<unstaged, report>>

RoutingInit ==
  /\ staged = {} /\ unstaged = {}
  /\ report = [agent |-> "none", paths |-> {}, verdict |-> "none", dispatch |-> <<>>]

RoutingNext ==
  \/ \E agent \in Agents : VerifyHandoff(agent)
  \/ RouteTask
  \/ \E p \in ChangedPaths : ModifyPath(p) \/ StagePath(p)
  \/ CommitPaths

-----------------------------------------------------------------------------
(* Paths are the tree's, agents the codemap's.                             *)
RoutingTypeOK ==
  /\ staged \subseteq ChangedPaths /\ unstaged \subseteq ChangedPaths
  /\ report.agent \in Agents \cup {"none"} /\ report.paths \subseteq ChangedPaths
  /\ report.verdict \in {"none", "blocked", "unknown_scope", "verified", "routed"}
  /\ Range(report.dispatch) \subseteq Range(RuleOrder) \cup {"planner", "(verify)"}

(* What a rule's glob means: everything below its fixed segments.          *)
Covers(pattern, path) == IsPrefix(SelectSeq(pattern, LAMBDA segment : segment # "**"), path)

(* route-task dispatches every agent that owns one of the paths, each once *)
(* and no other, the planner first, the verification last, and the rest in *)
(* the manifest's dispatch order (routing-rules.yml).                      *)
RouteIsComplete ==
  LET owners == {r \in Range(RoutingRules) : \E p \in report.paths : Covers(r.match, p)}
      agents == {r.primary : r \in owners}
      listed == SelectSeq(report.dispatch, LAMBDA a : a \notin {"planner", "(verify)"}) IN
  report.verdict = "routed" =>
  /\ Range(report.dispatch) = agents \cup (IF agents = {} THEN {} ELSE {"(verify)"})
  /\ IsInjective(report.dispatch)
  /\ "planner" \in agents => Head(report.dispatch) = "planner"
  /\ agents # {} => Last(report.dispatch) = "(verify)"
  /\ \A i, j \in DOMAIN listed :
       i < j => SelectInSeq(RuleOrder, LAMBDA a : a = listed[i])
                  < SelectInSeq(RuleOrder, LAMBDA a : a = listed[j])

=============================================================================
