------------------------------ MODULE Announce ------------------------------
(***************************************************************************)
(* What becomes of the payload of a deploy: the sidecar under              *)
(* .monad/notification, its replay by monad notify, and the two            *)
(* commands that take it on stdin, monad _slack-post and                   *)
(* monad _linear-notify.                                                   *)
(***************************************************************************)
EXTENDS Naturals, Sequences, FiniteSets, SequencesExt

CONSTANTS
  DeployTasks,  \* Deploy tasks of the unit
  Issues,       \* issues that the payload of a deploy may name
  NamedIssues,  \* per Deploy task: those in its own name or in that of its unit
  Fallback,     \* the issue for a payload that names none
  HasFallback,  \* whether one is configured
  MaxDeploys    \* bound on the deploys

ASSUME AnnounceAssumption ==
  /\ IsFiniteSet(DeployTasks) /\ NamedIssues \in [DeployTasks -> SUBSET Issues]
  /\ Fallback \notin Issues /\ HasFallback \in BOOLEAN /\ MaxDeploys \in Nat

VARIABLES
  sidecars,   \* per Deploy task: the payload on disk
  teller,     \* where the invocation that announces is
  unsent,     \* payloads it has still to announce
  notified,   \* what the two commands made of the first of them
  moved,      \* issues in the target state of the tracker
  commented,  \* whether the fallback issue has a comment
  posted,     \* history: payloads in the Slack channel
  earned,     \* history: the payloads of the deploys
  deploys

announceVars == <<sidecars, teller, unsent, notified, moved, commented, posted, earned, deploys>>

Outcomes == {"built", "failed", "deploy_unchanged"}
Payloads == [task : DeployTasks, outcome : Outcomes, issues : SUBSET Issues]
NoFile   == [kind |-> "none"]
TornFile == [kind |-> "torn"]
File(p)  == [kind |-> "payload", payload |-> p]
Results  == {"none", "built", "failed"}
Fresh    == [slack |-> "none", linear |-> "none"]

AnnounceInit ==
  /\ sidecars = [t \in DeployTasks |-> NoFile]
  /\ teller = "off" /\ unsent = <<>> /\ notified = Fresh
  /\ moved = {} /\ commented = FALSE /\ posted = {} /\ earned = {}
  /\ deploys = 0

(* build_notification_payload, and what discover_issue_refs finds in it:   *)
(* the issues in the names of task and unit, whatever the outcome, and     *)
(* those in the output, which a deploy that was not run does not have.     *)
Payload(task, outcome, output) ==
  [task |-> task, outcome |-> outcome,
   issues |-> NamedIssues[task] \cup (IF outcome = "deploy_unchanged" THEN {} ELSE output)]

(* The Deploy rows of a unit are done; their payloads are to be written. *)
DeployEnds ==
  /\ teller = "off" /\ deploys < MaxDeploys
  /\ \E rows \in {SetToSeq(T) : T \in (SUBSET DeployTasks) \ {{}}} :
       \E out \in [DOMAIN rows -> Outcomes], output \in [DOMAIN rows -> SUBSET Issues] :
         unsent' = [n \in DOMAIN rows |-> Payload(rows[n], out[n], output[n])]
  /\ earned' = earned \cup ToSet(unsent')
  /\ teller' = "write" /\ deploys' = deploys + 1
  /\ UNCHANGED <<sidecars, notified, moved, commented, posted>>

(* write_notification_sidecar, one row after the other: the file is        *)
(* truncated and then written; an error is a warning.                      *)
ToWrite == {t \in DeployTasks : \E n \in DOMAIN unsent : unsent[n].task = t}
Mine(t) == unsent[CHOOSE n \in DOMAIN unsent : unsent[n].task = t]

TruncateSidecar(t) ==
  /\ teller = "write" /\ t \in ToWrite
  /\ sidecars[t] # File(Mine(t)) /\ sidecars[t] # TornFile
  /\ sidecars' = [sidecars EXCEPT ![t] = TornFile]
  /\ UNCHANGED <<teller, unsent, notified, moved, commented, posted, earned, deploys>>

WriteSidecar(t) ==
  /\ teller = "write" /\ t \in ToWrite /\ sidecars[t] = TornFile
  /\ sidecars' = [sidecars EXCEPT ![t] = File(Mine(t))]
  /\ UNCHANGED <<teller, unsent, notified, moved, commented, posted, earned, deploys>>

(* Then the fan-out, unless --no-notify. *)
FanOutOrStop ==
  /\ teller = "write"
  /\ \/ teller' = "send" /\ UNCHANGED unsent
     \/ teller' = "off" /\ unsent' = <<>>
  /\ UNCHANGED <<sidecars, notified, moved, commented, posted, earned, deploys>>

(* read_notification_sidecars: the files that parse, by task name. *)
Readable == {t \in DeployTasks : sidecars[t].kind = "payload"}

(* notify_only_unit, with at least one file. *)
ReplaySidecars ==
  /\ teller = "off" /\ Readable # {}
  /\ unsent' = [n \in DOMAIN SetToSeq(Readable) |-> sidecars[SetToSeq(Readable)[n]].payload]
  /\ teller' = "send"
  /\ UNCHANGED <<sidecars, notified, moved, commented, posted, earned, deploys>>

(* run_notify_task with monad _slack-post: without the webhook it fails    *)
(* before it starts; a post whose answer is lost fails and is there.       *)
SlackPost ==
  /\ teller = "send" /\ unsent # <<>> /\ notified.slack = "none"
  /\ \E arrived \in BOOLEAN, result \in {"built", "failed"} :
       /\ result = "built" => arrived
       /\ posted' = IF arrived THEN posted \cup {Head(unsent)} ELSE posted
       /\ notified' = [notified EXCEPT !.slack = result]
  /\ UNCHANGED <<sidecars, teller, unsent, moved, commented, earned, deploys>>

\* Mutant: a failed deploy moves the issues that its output names.
Targets_AlsoFailed(p) == p.issues

(* The issues that monad _linear-notify moves for a payload. *)
Targets(p) == IF p.outcome = "failed" THEN {} ELSE p.issues

(* It fails if every issue failed. *)
LinearExit(acknowledged) == IF acknowledged = {} THEN "failed" ELSE "built"

(* run_notify_task with monad _linear-notify.  Without issues: a comment   *)
(* on the fallback, if there is one.  Otherwise the state is looked up,    *)
(* which fails for none or several of the name, and each issue moved; an   *)
(* answer may be lost.                                                     *)
LinearComment ==
  /\ teller = "send" /\ unsent # <<>> /\ notified.linear = "none"
  /\ Targets(Head(unsent)) = {}
  /\ \E arrived \in BOOLEAN, result \in {"built", "failed"} :
       /\ arrived => HasFallback
       /\ HasFallback /\ result = "built" => arrived
       /\ commented' = (commented \/ arrived)
       /\ notified' = [notified EXCEPT !.linear = result]
  /\ UNCHANGED <<sidecars, teller, unsent, moved, posted, earned, deploys>>

LinearMove ==
  LET todo == Targets(Head(unsent)) IN
  /\ teller = "send" /\ unsent # <<>> /\ notified.linear = "none"
  /\ todo # {}
  /\ \E arrived \in SUBSET todo, found \in BOOLEAN :
       \E acknowledged \in SUBSET arrived :
         /\ ~ found => arrived = {}
         /\ moved' = moved \cup arrived
         /\ notified' = [notified EXCEPT !.linear = LinearExit(acknowledged)]
  /\ UNCHANGED <<sidecars, teller, unsent, commented, posted, earned, deploys>>

(* Both are joined; then the next payload, or the end. *)
NextPayload ==
  /\ teller = "send" /\ unsent # <<>>
  /\ notified.slack # "none" /\ notified.linear # "none"
  /\ unsent' = Tail(unsent) /\ notified' = Fresh
  /\ teller' = IF Len(unsent) = 1 THEN "off" ELSE "send"
  /\ UNCHANGED <<sidecars, moved, commented, posted, earned, deploys>>

KillTeller ==
  /\ teller # "off"
  /\ teller' = "off" /\ unsent' = <<>> /\ notified' = Fresh
  /\ UNCHANGED <<sidecars, moved, commented, posted, earned, deploys>>

(* Someone moves an issue back. *)
Reopen ==
  /\ \E issue \in moved : moved' = moved \ {issue}
  /\ UNCHANGED <<sidecars, teller, unsent, notified, commented, posted, earned, deploys>>

AnnounceNext ==
  \/ DeployEnds \/ FanOutOrStop \/ ReplaySidecars
  \/ \E t \in DeployTasks : TruncateSidecar(t) \/ WriteSidecar(t)
  \/ SlackPost \/ LinearComment \/ LinearMove \/ NextPayload
  \/ KillTeller \/ Reopen

AnnounceSpec == AnnounceInit /\ [][AnnounceNext]_announceVars
-----------------------------------------------------------------------------
AnnounceTypeOK ==
  /\ sidecars \in [DeployTasks -> {NoFile, TornFile} \cup {File(p) : p \in Payloads}]
  /\ teller \in {"off", "write", "send"} /\ unsent \in Seq(Payloads)
  /\ notified \in [slack : Results, linear : Results]
  /\ moved \subseteq Issues /\ commented \in BOOLEAN /\ posted \subseteq Payloads
  /\ earned \subseteq Payloads /\ deploys \in 0..MaxDeploys

(* slack_post::run, linear_notify::run and the replay of what a crash may  *)
(* have torn: a payload is announced only as a deploy has made it, and an  *)
(* issue is moved only if a deploy that did not fail has named it, be it   *)
(* by its name or its unit's, or by the output of one that ran.            *)
OnlyDeploysAreTold ==
  /\ posted \subseteq earned
  /\ \A issue \in moved : \E p \in earned :
       /\ issue \in p.issues /\ p.outcome # "failed"
       /\ p.outcome = "built" \/ issue \in NamedIssues[p.task]
=============================================================================
