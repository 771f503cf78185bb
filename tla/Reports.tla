------------------------------ MODULE Reports -------------------------------
(***************************************************************************)
(* The reports of the repo-tools validators (core/report.rs): a set of     *)
(* issues <<severity, scope>>, and the exit code it means in a mode.       *)
(***************************************************************************)
NoIssues == {}

(* Exit code 0: no error, and in strict mode no warning either.            *)
StatusOk(m, issues) ==
  /\ "error" \notin {issue[1] : issue \in issues}
  /\ m = "strict" => "warn" \notin {issue[1] : issue \in issues}

(* Most validators report a gap as an error in strict mode only.           *)
IssueSeverity(m) == IF m = "strict" THEN "error" ELSE "warn"

Issues(m, scopes) == {<<IssueSeverity(m), scope>> : scope \in scopes}
When(condition, issue) == IF condition THEN {issue} ELSE NoIssues

=============================================================================
