----------------------------- MODULE MCExecutor -----------------------------
(* Executor on a workspace of three units under a few dependency shapes.   *)
(* Two of the units share an install scope.                                *)
EXTENDS Executor

CONSTANTS a, b, c, root, own

Units3   == {a, b, c}
MCScope  == [u \in Units3 |-> IF u = c THEN own ELSE root]

(* Nobody depends on anybody, one unit on two independent ones, a cycle.   *)
MCDeclared ==
  { [u \in Units3 |-> {}],
    [u \in Units3 |-> IF u = c THEN {a, b} ELSE {}],
    [u \in Units3 |-> CASE u = a -> {b} [] u = b -> {a} [] u = c -> {}] }

OneProfile  == <<Units3>>
TwoProfiles == <<Units3, {b}>>
MCFilters   == {Units3, {c}}

Opts(on)    == [f \in Flags |-> f \in on]
MCOptions   == { Opts({}), Opts({"fail_fast", "run_notify_kinds"}), Opts({"force_install", "fail_fast"}),
                 Opts({"skip_install", "fail_fast"}), Opts({"install_only"}) }
FailFastOnly == { Opts({"fail_fast"}) }
DeployOnly   == { Opts({"fail_fast", "run_notify_kinds"}) }
=============================================================================
