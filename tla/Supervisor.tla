------------------------------ MODULE Supervisor ------------------------------
(***************************************************************************)
(* Contract rules (coding/supervisor, internal/predicates) and permission  *)
(* lists (core/permission.go): pure functions that decide what becomes of  *)
(* one job.                                                                *)
(*                                                                         *)
(* A predicate answers "yes", "no" or "error"; "error" stands for every    *)
(* way it can fail to answer: bad arguments, a malformed pattern, git.  A  *)
(* glob is the set of files it matches, a list of role names with stars    *)
(* the set of roles it matches, a regular expression matches or not.       *)
(***************************************************************************)
EXTENDS Integers, FiniteSets

CONSTANTS
    Roles,
    Rules,       \* rules.yaml: [name, appliesTo, touches, check, args]
    Findings     \* [id, fields]: a finding and which fields it fills in

ASSUME RulesAssumption == \A r \in Rules : r.appliesTo \subseteq Roles

Fields == {"path", "line", "severity", "body"}

(* What git shows of the worktree: the files of the last commit, whether   *)
(* branch and commit message match what is asked of them, and whether the  *)
(* git commands work at all.                                               *)
ChangesTouch(tree, globs) ==
    IF ~tree.git \/ globs = {} THEN "error"
    ELSE IF \E g \in globs : g \cap tree.files # {} THEN "yes" ELSE "no"

Matches(tree, matches) ==
    IF ~tree.git THEN "error" ELSE IF matches THEN "yes" ELSE "no"

AllFindingsHave(found, fields) ==
    IF fields = {} THEN "error"
    ELSE IF found = {} THEN "yes"
    ELSE IF ~(fields \subseteq Fields) THEN "error"
    ELSE IF \A f \in found : fields \subseteq f.fields THEN "yes" ELSE "no"

(* A check that does not parse, or names no predicate, is an error.        *)
Check(rule, job, tree) ==
    CASE rule.check = "all_findings_have" -> AllFindingsHave(job.findings, rule.args)
      [] rule.check = "exit_code_is" -> IF job.exit \in rule.args THEN "yes" ELSE "no"
      [] rule.check = "git_current_branch_matches" -> Matches(tree, tree.branch)
      [] rule.check = "last_commit_msg_contains" -> Matches(tree, tree.message)
      [] rule.check = "changes_touch" -> ChangesTouch(tree, rule.args)
      [] OTHER -> "error"

RulesForRole(role) == {r \in Rules : role \in r.appliesTo}

Applies(rule, tree) == IF rule.touches = {} THEN "yes" ELSE ChangesTouch(tree, rule.touches)

RuleResult(rule, job, tree) ==
    CASE Applies(rule, tree) = "no" -> "skipped"
      [] Applies(rule, tree) = "yes" /\ Check(rule, job, tree) = "yes" -> "pass"
      [] OTHER -> "fail"

(* Every rule of the role is evaluated; with none the verdict is a pass.   *)
Evaluate(role, job, tree) ==
    IF \A r \in RulesForRole(role) : RuleResult(r, job, tree) # "fail" THEN "pass" ELSE "fail"

-----------------------------------------------------------------------------
(* Permissions.  Entries that do not parse match nothing, and are left out *)
(* of the lists; subjects differ by more than case.                        *)
MatchPermission(entry, action) ==
    /\ entry.kind = action.kind
    /\ entry.subject \in {"*", action.subject}

MatchesAny(action, entries) == \E e \in entries : MatchPermission(e, action)

EvaluateAction(lists, action, onUndeclared) ==
    CASE MatchesAny(action, lists.never) -> "deny"
      [] ~MatchesAny(action, lists.never) /\ MatchesAny(action, lists.requiresHuman) -> "ask"
      [] ~MatchesAny(action, lists.never \cup lists.requiresHuman)
            /\ MatchesAny(action, lists.allowedTools) -> "allow"
      [] OTHER -> IF onUndeclared = "warn" THEN "allow" ELSE "deny"

(* An agent that is no command-line program ("none") is not checked.       *)
LaunchDecision(lists, binary, onUndeclared) ==
    IF binary = "none" THEN "allow"
    ELSE EvaluateAction(lists, [kind |-> "bash", subject |-> binary], onUndeclared)
=============================================================================
