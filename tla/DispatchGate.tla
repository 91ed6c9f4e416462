---------------------------- MODULE DispatchGate ----------------------------
(***************************************************************************)
(* From a change on an issue to a prompt: the listener's answer to a       *)
(* delivery (app.py, github.py), the dispatch gate (filters.py) and the    *)
(* prompt builder (prompt_builder.py).  The handler keeps no state; the    *)
(* issue does, and several people and the agents themselves change it.     *)
(* Logins and label names stand for their lower-case form, to which gate   *)
(* and builder both bring them.                                            *)
(***************************************************************************)
EXTENDS Integers, Sequences, FiniteSets

CONSTANTS Person,         \* logins of people
          Bot,            \* logins that end in [bot] or -bot
          AllowedSenders, \* DIRECT_BODY_ALLOWED_SENDERS
          Label,          \* labels in use, of the classes below
          MaxActs         \* bound: changes to the issue

DirectBody     == "gh-issue-tracking:direct-body"
Hierarchy      == { "gh-issue-tracking:plan", DirectBody }
Orchestration  == { "orchestration:next" }
Implementation == { "implementation:ready" }
Organizational == { "bug" }
NoLabel        == "none"

ASSUME GateAssumption ==
  /\ Person \cap Bot = {}
  /\ AllowedSenders \subseteq Person \cup Bot
  /\ Label \subseteq Hierarchy \cup Orchestration \cup Implementation \cup Organizational
  /\ MaxActs \in Nat

VARIABLES labels,  \* labels on the issue
          body,    \* does the issue have a body?
          acts,    \* what was done to the issue, in order
          answer   \* the listener's answer to the delivery of each act

gateVars == <<labels, body, acts, answer>>

Login  == Person \cup Bot
Action == {"labeled", "unlabeled", "edited"}
Prompt == {"none", "body", "empty_body", "hierarchy", "orchestration",
           "implementation", "unmatched"}
Status == {"pending", "rejected", "ignored", "dispatched"}

Answer(status) == [status |-> status, prompt |-> "none"]

GateInit == labels = {} /\ body \in BOOLEAN /\ acts = <<>> /\ answer = <<>>

------------------------------------------------------------------------------
(* GitHub *)

Act(a, who, l) ==
  /\ Len(acts) < MaxActs
  /\ \/ a = "labeled"   /\ l \in Label \ labels /\ labels' = labels \cup {l}
     \/ a = "unlabeled" /\ l \in labels         /\ labels' = labels \ {l}
     \/ a = "edited"    /\ l = NoLabel           /\ labels' = labels
  /\ body' = IF a = "edited" THEN ~body ELSE body
  /\ acts' = Append(acts, [action |-> a, sender |-> who, label |-> l])
  /\ answer' = Append(answer, Answer("pending"))

------------------------------------------------------------------------------
(* filters.py *)

_is_workflow_label(l) == l \in Hierarchy \cup Orchestration \cup Implementation

(* faulty: every login is a person's. *)
NobodyIsBot(who) == FALSE

_is_bot_actor(who) == who \in Bot

(* faulty: only the label that was just set counts. *)
TriggerOnly(q, on) == q.label = DirectBody

(* The trigger, or a label still on the issue.  (The trigger's name is     *)
(* compared with its blanks here and without them elsewhere; GitHub's      *)
(* names have none at the ends.)                                           *)
RunsBody(q, on) == DirectBody \in on \/ q.label = DirectBody

Authorized(q, on) == RunsBody(q, on) => q.sender \in AllowedSenders

should_dispatch(q, on) ==
  /\ q.action = "labeled"
  /\ ~_is_bot_actor(q.sender)
  /\ _is_workflow_label(q.label)
  /\ Authorized(q, on)

------------------------------------------------------------------------------
(* prompt_builder.py *)

_is_direct_body(q, on) == q.label = DirectBody \/ DirectBody \in on

(* faulty: a label of a new space has no direction yet. *)
DirectionOfKnown(l) ==
  CASE l \in Hierarchy     -> "hierarchy"
    [] l \in Orchestration -> "orchestration"
    [] OTHER               -> "to be written"

_direction_for(l) ==
  CASE l \in Hierarchy      -> "hierarchy"
    [] l \in Orchestration  -> "orchestration"
    [] l \in Implementation -> "implementation"
    [] OTHER                -> "unmatched"

build_orchestration_prompt(q, on, full) ==
  CASE _is_direct_body(q, on) /\ full  -> "body"
    [] _is_direct_body(q, on) /\ ~full -> "empty_body"
    [] OTHER                           -> _direction_for(q.label)

------------------------------------------------------------------------------
(* github_webhook: the delivery tells of act n; the issue in its payload   *)
(* is the issue as it is by the time GitHub writes it.  A request that is  *)
(* too large, not signed with the secret or no JSON is rejected first.     *)
Deliver(n, sound) ==
  /\ answer[n].status = "pending"
  /\ answer' = [answer EXCEPT ![n] =
       CASE ~sound -> Answer("rejected")
         [] sound /\ ~should_dispatch(acts[n], labels) -> Answer("ignored")
         [] OTHER -> [status |-> "dispatched",
                      prompt |-> build_orchestration_prompt(acts[n], labels, body)]]
  /\ UNCHANGED <<labels, body, acts>>

------------------------------------------------------------------------------
(* Properties *)

GateTypeOK ==
  /\ labels \subseteq Label
  /\ body \in BOOLEAN
  /\ acts \in Seq([action : Action, sender : Login, label : Label \cup {NoLabel}])
  /\ answer \in Seq([status : Status, prompt : Prompt])
  /\ Len(acts) = Len(answer)

Dispatched == { n \in DOMAIN answer : answer[n].status = "dispatched" }

(* Whenever an issue's body becomes the prompt as it stands, an allowed    *)
(* account, no bot's, has just set a label (a session that acts with such  *)
(* an account is allowed too).  The label that asks for it may be there    *)
(* from an earlier, refused delivery, by someone else: gate and builder    *)
(* both have to look at the issue's whole label set.                       *)
VerbatimIsAuthorized ==
  \A n \in Dispatched :
    answer[n].prompt \in {"body", "empty_body"} => acts[n].sender \in AllowedSenders \ Bot

(* What the gate lets through, the builder knows: their label spaces are   *)
(* written down twice (filters.py, prompt_builder.py) and must agree.      *)
PromptHasDirection ==
  \A n \in Dispatched : answer[n].prompt \notin {"none", "unmatched"}

(* The prompt of a dispatched delivery is one its sender may have run.     *)
PromptIsRight == VerbatimIsAuthorized /\ PromptHasDirection
==============================================================================
