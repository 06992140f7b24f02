----------------------------- MODULE PhaseLoopMC -----------------------------
(* A small instance of PhaseLoop for TLC: a developer, a reviewer for web  *)
(* files and a tester, two rules, one of them on git.                      *)
EXTENDS PhaseLoop, TLC

Located == [id |-> "located", fields |-> {"path", "line"}]
Vague == [id |-> "vague", fields |-> {"path"}]
FindingsMC == {Located, Vague}

RolesMC == {"developer", "reviewer", "tester"}
GroupMC == {"reviewer", "tester"}

RulesMC ==
    {[name |-> "located", appliesTo |-> {"reviewer"}, touches |-> {{"web"}},
      check |-> "all_findings_have", args |-> {"path", "line"}],
     [name |-> "branch", appliesTo |-> {"developer"}, touches |-> {},
      check |-> "git_current_branch_matches", args |-> {}]}

BinaryMC == [r \in RolesMC |-> IF r = "tester" THEN "none" ELSE "codex"]

Bash(subject) == [kind |-> "bash", subject |-> subject]
Lists(never, ask, allowed) == [never |-> never, requiresHuman |-> ask, allowedTools |-> allowed]

AllAllowed == [r \in RolesMC |-> Lists({}, {Bash("rm")}, {Bash("*")})]
PermissionChoicesMC ==
    {AllAllowed,
     [AllAllowed EXCEPT !["reviewer"] = Lists({}, {Bash("codex")}, {Bash("codex")})],
     [AllAllowed EXCEPT !["developer"] = Lists({Bash("*")}, {Bash("codex")}, {Bash("*")})]}

(* The Dispatcher of cli/run.go and cli/daemon.go, the full one, and the   *)
(* one of cli/invoke.go.                                                   *)
Wired(supervisor, attention, costs) ==
    [supervisor |-> supervisor, costs |-> costs, attention |-> attention,
     onUndeclared |-> "deny"]
Production == {Wired(FALSE, FALSE, TRUE)}
AllWirings == Production \cup {Wired(TRUE, TRUE, TRUE), Wired(FALSE, FALSE, FALSE)}

ReportsCostMC == {"developer", "reviewer"}

Product(exit, found) == [exit |-> exit, findings |-> found]
OutcomesMC ==
    [r \in RolesMC |->
        {Product(0, {})} \cup
        CASE r = "developer" -> {Product(1, {Located})}
          [] r = "reviewer" -> {Product(0, {Vague})}
          [] OTHER -> {Product(1, {})}]

TreesMC ==
    {[files |-> {"web"}, branch |-> TRUE, message |-> TRUE, git |-> TRUE],
     [files |-> {"doc"}, branch |-> FALSE, message |-> TRUE, git |-> TRUE]}

AppliesWhenMC ==
    [r \in RolesMC |-> [globs |-> IF r = "reviewer" THEN {{"web"}} ELSE {},
                        message |-> FALSE, phases |-> {}]]
=============================================================================
