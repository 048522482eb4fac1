------------------------------ MODULE MCUnitRun ------------------------------
(* UnitRun on a unit with a build task that is retried once, a deploy that *)
(* depends on it and a notification.                                       *)
EXTENDS UnitRun

CONSTANTS v1, v2

MCTasks    == <<"build", "deploy", "slack">>
MCKind     == [build |-> "none", deploy |-> "deploy", slack |-> "notify"]
MCRetry    == [build |-> 1, deploy |-> 0, slack |-> 0]
MCDeps     == [build |-> {}, deploy |-> {"build"}, slack |-> {}]
MCVersions == {v1, v2}

Ci ==
  [kind |-> "any", task_filter |-> {}, no_cache |-> FALSE, fail_fast |-> TRUE,
   force_deploy |-> FALSE, run_notify |-> FALSE, notify_only |-> FALSE]
Deploy == [Ci EXCEPT !.kind = "deploy", !.task_filter = {"build"}, !.run_notify = TRUE]

FailFast ==
  { Ci, Deploy,
    [Deploy EXCEPT !.no_cache = TRUE, !.force_deploy = TRUE, !.run_notify = FALSE],
    [Deploy EXCEPT !.notify_only = TRUE] }
KeepGoing   == { [Deploy EXCEPT !.fail_fast = FALSE, !.run_notify = FALSE] }
=============================================================================
