--------------------------- MODULE DispatchProofs ---------------------------
(***************************************************************************)
(* Machine-checked proofs about Dispatch, for all people, bots, labels and *)
(* allow lists, and any number of changes to the issue.                    *)
(***************************************************************************)
EXTENDS Dispatch, SequenceTheorems, TLAPS

(* What the gate has seen of a delivery that it let through. *)
PassedGate == \A n \in Dispatched : HandOff(n)

(* The host's configuration is where the policy relies on it. *)
DenyFileThere == workspace # "none" => deny_file = WritesDenyFile(workspace)

(* Between sessions nothing runs. *)
QuietBetween == workspace = "none" => last = Nothing

GateInv   == GateTypeOK /\ PromptIsRight /\ PassedGate
PolicyInv == PolicyTypeOK /\ PermissionsHold /\ DenyFileThere /\ QuietBetween

(* Sessions run what was dispatched; there is work only in a session, and  *)
(* the first session was nobody's work.                                    *)
SessionInv ==
  /\ sessions \subseteq Dispatched
  /\ own \subseteq DOMAIN acts
  /\ workspace # "none" => sessions # {}
  /\ sessions # {} => sessions \ own # {}
  /\ own # {} => sessions # {}

IInv == GateInv /\ PolicyInv /\ SessionInv

------------------------------------------------------------------------------
(* The gate *)

(* What one more element does to a sequence, element by element (a change  *)
(* on the issue adds an act, and an answer that is still to come).         *)
LEMMA AppendElements ==
  ASSUME NEW S, NEW s \in Seq(S), NEW e \in S
  PROVE  /\ Append(s, e) \in Seq(S)
         /\ Len(Append(s, e)) = Len(s) + 1
         /\ DOMAIN s = 1 .. Len(s)
         /\ DOMAIN Append(s, e) = 1 .. Len(s) + 1
         /\ Len(s) \in Nat
         /\ \A k \in 1 .. Len(s) : Append(s, e)[k] = s[k]
         /\ Append(s, e)[Len(s) + 1] = e
  BY AppendProperties, LenProperties

(* Someone changes the issue: earlier acts and answers stay, and the new   *)
(* one is dispatched by nobody yet.                                        *)
LEMMA ActInv ==
  ASSUME GateInv, NEW a \in Action, NEW who \in Login, NEW l \in Label \cup {NoLabel},
         Act(a, who, l)
  PROVE  /\ GateInv'
         /\ Dispatched' = Dispatched
         /\ DOMAIN acts \subseteq DOMAIN acts'
         /\ Len(acts') \in DOMAIN acts' \ Dispatched
<1>. DEFINE act == [action |-> a, sender |-> who, label |-> l]
            ActSet == [action : Action, sender : Login, label : Label \cup {NoLabel}]
            AnswerSet == [status : Status, prompt : Prompt]
            N == Len(acts)
<1>1. /\ acts' = Append(acts, act) /\ answer' = Append(answer, Answer("pending"))
      /\ body' \in BOOLEAN /\ labels' \subseteq Label
  BY DEF Act, GateInv, GateTypeOK
<1>2. act \in ActSet /\ Answer("pending") \in AnswerSet
  BY DEF Answer, Status, Prompt
<1>3. acts \in Seq(ActSet) /\ answer \in Seq(AnswerSet) /\ Len(answer) = N
  BY DEF GateInv, GateTypeOK
<1>4. /\ acts' \in Seq(ActSet) /\ Len(acts') = N + 1 /\ N \in Nat
      /\ DOMAIN acts = 1 .. N /\ DOMAIN acts' = 1 .. N + 1
      /\ \A k \in 1 .. N : acts'[k] = acts[k]
  BY <1>1, <1>2, <1>3, AppendElements
<1>5. /\ answer' \in Seq(AnswerSet) /\ Len(answer') = N + 1
      /\ DOMAIN answer = 1 .. N /\ DOMAIN answer' = 1 .. N + 1
      /\ \A k \in 1 .. N : answer'[k] = answer[k]
      /\ answer'[N + 1] = Answer("pending")
  BY <1>1, <1>2, <1>3, AppendElements
<1>6. GateTypeOK'
  BY <1>1, <1>4, <1>5 DEF GateTypeOK
<1>7. Dispatched' = Dispatched
  BY <1>4, <1>5 DEF Dispatched, Answer
<1>8. \A n \in Dispatched : acts'[n] = acts[n] /\ answer'[n] = answer[n]
                            /\ n \in DOMAIN acts /\ n \in DOMAIN acts'
  BY <1>4, <1>5 DEF Dispatched
<1>9. PromptIsRight'
  BY <1>7, <1>8 DEF GateInv, PromptIsRight, VerbatimIsAuthorized, PromptHasDirection
<1>10. PassedGate'
  BY <1>7, <1>8 DEF GateInv, PassedGate, HandOff
<1>11. DOMAIN acts \subseteq DOMAIN acts' /\ Len(acts') \in DOMAIN acts' \ Dispatched
  BY <1>4, <1>5 DEF Dispatched
<1>. QED  BY <1>6, <1>7, <1>9, <1>10, <1>11 DEF GateInv

(* What should_dispatch lets through has a prompt, and one that its sender *)
(* may run: the two files agree on labels and senders.                     *)
LEMMA GateAgreesWithBuilder ==
  ASSUME NEW q \in [action : Action, sender : Login, label : Label \cup {NoLabel}],
         NEW on, NEW full \in BOOLEAN, should_dispatch(q, on)
  PROVE  LET p == build_orchestration_prompt(q, on, full)
         IN  /\ p \in Prompt \ {"none", "unmatched"}
             /\ p \in {"body", "empty_body"} => q.sender \in AllowedSenders \ Bot
<1>. DEFINE p == build_orchestration_prompt(q, on, full)
<1>1. CASE _is_direct_body(q, on)
  <2>1. p \in {"body", "empty_body"}
    BY <1>1 DEF build_orchestration_prompt
  <2>2. q.sender \in AllowedSenders \ Bot
    BY <1>1 DEF should_dispatch, Authorized, RunsBody, _is_direct_body, _is_bot_actor
  <2>. QED  BY <2>1, <2>2 DEF Prompt
<1>2. CASE ~_is_direct_body(q, on)
  <2>1. p = _direction_for(q.label)
    BY <1>2 DEF build_orchestration_prompt
  <2>2. _direction_for(q.label) \in {"hierarchy", "orchestration", "implementation"}
    BY DEF _direction_for, should_dispatch, _is_workflow_label
  <2>. QED  BY <2>1, <2>2 DEF Prompt
<1>. QED  BY <1>1, <1>2

(* The listener answers: nothing that was dispatched is taken back.        *)
LEMMA DeliverInv ==
  ASSUME GateInv, NEW n \in DOMAIN acts, NEW sound \in BOOLEAN, Deliver(n, sound)
  PROVE  GateInv' /\ Dispatched \subseteq Dispatched' /\ acts' = acts
<1>. DEFINE ActSet == [action : Action, sender : Login, label : Label \cup {NoLabel}]
            AnswerSet == [status : Status, prompt : Prompt]
            goes == sound /\ should_dispatch(acts[n], labels)
            p == build_orchestration_prompt(acts[n], labels, body)
<1>1. /\ acts \in Seq(ActSet) /\ answer \in Seq(AnswerSet) /\ Len(answer) = Len(acts)
      /\ body \in BOOLEAN
      /\ labels' = labels /\ body' = body /\ acts' = acts
  BY DEF GateInv, GateTypeOK, Deliver
<1>2. /\ acts[n] \in ActSet /\ n \in DOMAIN answer /\ answer[n].status = "pending"
      /\ DOMAIN acts = DOMAIN answer
  BY <1>1, LenProperties, ElementOfSeq DEF Deliver
<1>3. goes => /\ p \in Prompt \ {"none", "unmatched"}
              /\ p \in {"body", "empty_body"} => acts[n].sender \in AllowedSenders \ Bot
  BY <1>1, <1>2, GateAgreesWithBuilder
<1>4. PICK new \in AnswerSet : /\ answer' = [answer EXCEPT ![n] = new]
                               /\ new.status = "dispatched" => goes /\ new.prompt = p
  <2>. HIDE DEF p
  <2>0. ASSUME NEW st \in {"rejected", "ignored"}
        PROVE  Answer(st) \in AnswerSet /\ Answer(st).status # "dispatched"
    BY <2>0 DEF Answer, Status, Prompt
  <2>1. CASE ~sound
    <3>1. answer' = [answer EXCEPT ![n] = Answer("rejected")]
      BY <2>1 DEF Deliver
    <3>. QED  BY <2>0, <3>1
  <2>2. CASE sound /\ ~should_dispatch(acts[n], labels)
    <3>1. answer' = [answer EXCEPT ![n] = Answer("ignored")]
      BY <2>2 DEF Deliver
    <3>. QED  BY <2>0, <3>1
  <2>3. CASE goes
    <3>1. answer' = [answer EXCEPT ![n] = [status |-> "dispatched", prompt |-> p]]
      BY <2>3 DEF Deliver, p
    <3>2. [status |-> "dispatched", prompt |-> p] \in AnswerSet
      BY <1>3, <2>3 DEF Status
    <3>. QED  BY <2>3, <3>1, <3>2
  <2>. QED  BY <2>1, <2>2, <2>3
<1>. HIDE DEF goes, p
<1>5. /\ answer' \in Seq(AnswerSet) /\ Len(answer') = Len(answer)
      /\ \A k \in 1 .. Len(answer) : answer'[k] = IF k = n THEN new ELSE answer[k]
  BY <1>1, <1>2, <1>4, ExceptSeq, LenProperties
<1>6. /\ answer' \in Seq(AnswerSet) /\ Len(answer') = Len(answer)
      /\ DOMAIN answer' = DOMAIN answer
      /\ answer'[n] = new
      /\ \A k \in DOMAIN answer : k # n => answer'[k] = answer[k]
  BY <1>1, <1>2, <1>5, LenProperties
<1>7. GateTypeOK'
  BY <1>1, <1>6 DEF GateInv, GateTypeOK
<1>8. Dispatched \subseteq Dispatched'
  BY <1>2, <1>6 DEF Dispatched
<1>9. ASSUME NEW k \in Dispatched'
      PROVE  /\ answer'[k].prompt \in {"body", "empty_body"} => acts'[k].sender \in AllowedSenders \ Bot
             /\ answer'[k].prompt \notin {"none", "unmatched"}
             /\ HandOff(k)'
  <2>1. CASE k = n
    <3>1. goes /\ answer'[k].prompt = p
      BY <1>4, <1>6, <2>1 DEF Dispatched
    <3>2. /\ acts[n].action = "labeled" /\ acts[n].sender \in Person
          /\ _is_workflow_label(acts[n].label)
      BY <1>2, <3>1 DEF goes, should_dispatch, _is_bot_actor, Login
    <3>. QED  BY <1>1, <1>2, <1>3, <2>1, <3>1, <3>2 DEF HandOff
  <2>2. CASE k # n
    <3>1. k \in Dispatched /\ answer'[k] = answer[k]
      BY <1>6, <2>2 DEF Dispatched
    <3>. QED  BY <1>1, <3>1 DEF GateInv, PromptIsRight, VerbatimIsAuthorized,
                                PromptHasDirection, PassedGate, HandOff
  <2>. QED  BY <2>1, <2>2
<1>10. PromptIsRight' /\ PassedGate'
  BY <1>9 DEF PromptIsRight, VerbatimIsAuthorized, PromptHasDirection, PassedGate
<1>. QED  BY <1>1, <1>7, <1>8, <1>10 DEF GateInv

------------------------------------------------------------------------------
(* The permission policy *)

(* A request whose tool a deny pattern matches is never granted, and a     *)
(* lasting grant is for reading, or the operator's choice.                 *)
LEMMA AnswerFitsPolicy ==
  ASSUME PolicyTypeOK, NEW tool \in Tool, NEW options \in SUBSET OptionKind
  PROVE  LET chosen == respond(options, decide(tool))
         IN  /\ chosen \in {"allow_once", "allow_always"} => ~tool.denied
             /\ chosen = "allow_always" => \/ tool.kind \in READ_TOOL_KINDS
                                           \/ acp_default_permission = "allow_once"
<1>1. CASE decide(tool) = "reject"
  BY <1>1 DEF respond, Wanted
<1>2. CASE decide(tool) # "reject"
  <2>1. ~tool.denied
    <3>1. tool.denied => decide(tool) = "reject"
      BY DEF decide
    <3>. QED  BY <1>2, <3>1
  <2>2. tool.kind \in READ_TOOL_KINDS \/ acp_default_permission = "allow_once"
    BY <1>2, <2>1 DEF decide, PolicyTypeOK
  <2>. QED  BY <2>1, <2>2
<1>. QED  BY <1>1, <1>2

(* A tool that may run, with or without being asked for, is visible: in a  *)
(* bare workspace, it is not listed.                                       *)
LEMMA VisibleIsUnlisted ==
  ASSUME PolicyInv, NEW tool \in Tool, Visible(tool)
  PROVE  acp_denied_tools /\ tool.listed => workspace # "bare"
BY DEF PolicyInv, DenyFileThere, Visible, WritesDenyFile

LEMMA OpenInv ==
  ASSUME PolicyInv, NEW w \in Workspace, OpenSession(w)
  PROVE  PolicyInv'
<1>1. /\ workspace' = w /\ w # "none" /\ deny_file' = WritesDenyFile(w)
      /\ acp_default_permission' = acp_default_permission
      /\ always' = always /\ never' = never /\ last' = last
      /\ last = Nothing
  BY DEF OpenSession, Workspace, PolicyInv, QuietBetween
<1>2. PolicyTypeOK'
  BY <1>1, PolicyAssumption DEF PolicyInv, PolicyTypeOK, WritesDenyFile
<1>3. PermissionsHold'
  BY <1>1 DEF PolicyInv, PermissionsHold, GrantIsJustified, DeniedRunsOnlyUnasked,
              ListedRunsOnlyManaged, Ran
<1>. QED  BY <1>1, <1>2, <1>3 DEF PolicyInv, DenyFileThere, QuietBetween

LEMMA CloseInv ==
  ASSUME PolicyInv, CloseSession
  PROVE  PolicyInv'
BY DEF PolicyInv, CloseSession, PolicyTypeOK, PermissionsHold, GrantIsJustified,
       DeniedRunsOnlyUnasked, ListedRunsOnlyManaged, Ran, DenyFileThere, QuietBetween

LEMMA RequestInv ==
  ASSUME PolicyInv, NEW tool \in Tool, NEW options \in SUBSET OptionKind,
         Request(tool, options)
  PROVE  PolicyInv'
<1>. DEFINE chosen == respond(options, decide(tool))
<1>1. /\ Visible(tool)
      /\ last' = IF chosen \in {"allow_once", "allow_always"}
                   THEN [asked |-> TRUE, tool |-> tool] ELSE last
      /\ always' = IF chosen = "allow_always" THEN always \cup {tool.kind} ELSE always
      /\ never' = IF chosen = "reject_always" THEN never \cup {tool.kind} ELSE never
      /\ UNCHANGED <<acp_default_permission, workspace, deny_file>>
  BY DEF Request
<1>2. /\ chosen \in {"allow_once", "allow_always"} => ~tool.denied
      /\ chosen = "allow_always" => \/ tool.kind \in READ_TOOL_KINDS
                                    \/ acp_default_permission = "allow_once"
  BY AnswerFitsPolicy DEF PolicyInv
<1>3. acp_denied_tools /\ tool.listed => workspace # "bare"
  BY <1>1, VisibleIsUnlisted
<1>4. tool.kind \in Kind /\ tool \in Tool
  BY DEF Tool
<1>. HIDE DEF chosen
<1>5. PolicyTypeOK'
  BY <1>1, <1>4 DEF PolicyInv, PolicyTypeOK
<1>6. GrantIsJustified'
  BY <1>1, <1>2 DEF PolicyInv, PermissionsHold, GrantIsJustified
<1>7. DeniedRunsOnlyUnasked' /\ ListedRunsOnlyManaged'
  <2>1. CASE chosen \in {"allow_once", "allow_always"}
    BY <1>1, <1>2, <1>3, <2>1 DEF DeniedRunsOnlyUnasked, ListedRunsOnlyManaged
  <2>2. CASE chosen \notin {"allow_once", "allow_always"}
    BY <1>1, <2>2 DEF PolicyInv, PermissionsHold, DeniedRunsOnlyUnasked,
                      ListedRunsOnlyManaged, Ran
  <2>. QED  BY <2>1, <2>2
<1>8. DenyFileThere' /\ QuietBetween'
  BY <1>1 DEF PolicyInv, DenyFileThere, QuietBetween, Visible
<1>. QED  BY <1>5, <1>6, <1>7, <1>8 DEF PolicyInv, PermissionsHold

LEMMA RunUnaskedInv ==
  ASSUME PolicyInv, NEW tool \in Tool, RunUnasked(tool)
  PROVE  PolicyInv'
<1>1. /\ Visible(tool) /\ tool.kind \in always
      /\ last' = [asked |-> FALSE, tool |-> tool]
      /\ UNCHANGED <<acp_default_permission, workspace, deny_file, always, never>>
  BY DEF RunUnasked
<1>2. acp_denied_tools /\ tool.listed => workspace # "bare"
  BY <1>1, VisibleIsUnlisted
<1>3. PolicyTypeOK'
  BY <1>1 DEF PolicyInv, PolicyTypeOK
<1>4. PermissionsHold'
  BY <1>1, <1>2 DEF PolicyInv, PermissionsHold, GrantIsJustified, DeniedRunsOnlyUnasked,
                    ListedRunsOnlyManaged
<1>5. DenyFileThere' /\ QuietBetween'
  BY <1>1 DEF PolicyInv, DenyFileThere, QuietBetween, Visible
<1>. QED  BY <1>3, <1>4, <1>5 DEF PolicyInv

------------------------------------------------------------------------------
(* The loop *)

LEMMA InitInv == Init => IInv
<1>. SUFFICES ASSUME Init PROVE IInv
  OBVIOUS
<1>1. /\ labels = {} /\ body \in BOOLEAN /\ acts = <<>> /\ answer = <<>>
      /\ DOMAIN answer = {} /\ sessions = {} /\ own = {}
      /\ workspace = "none"
  BY DEF Init, GateInit, PolicyInit
<1>2. Dispatched = {}
  BY <1>1 DEF Dispatched
<1>3. GateInv
  BY <1>1, <1>2, EmptySeq DEF GateInv, GateTypeOK, PromptIsRight, VerbatimIsAuthorized,
                              PromptHasDirection, PassedGate
<1>4. PolicyInv
  BY DEF Init, PolicyInit, PolicyInv, PolicyTypeOK, PermissionsHold, GrantIsJustified,
         DeniedRunsOnlyUnasked, ListedRunsOnlyManaged, Ran, DenyFileThere, QuietBetween
<1>. QED  BY <1>1, <1>3, <1>4 DEF IInv, SessionInv

(* What leaves the gate or the policy alone leaves its invariant alone. *)
LEMMA GateFrame ==
  ASSUME GateInv, UNCHANGED gateVars
  PROVE  GateInv' /\ Dispatched' = Dispatched /\ acts' = acts
BY DEF GateInv, gateVars, GateTypeOK, PromptIsRight, VerbatimIsAuthorized,
       PromptHasDirection, PassedGate, HandOff, Dispatched

LEMMA PolicyFrame ==
  ASSUME PolicyInv, UNCHANGED policyVars
  PROVE  PolicyInv'
BY DEF PolicyInv, policyVars, PolicyTypeOK, PermissionsHold, GrantIsJustified,
       DeniedRunsOnlyUnasked, ListedRunsOnlyManaged, Ran, DenyFileThere, QuietBetween

LEMMA NextInv == IInv /\ [Next]_vars => IInv'
<1>. SUFFICES ASSUME IInv, [Next]_vars PROVE IInv'
  OBVIOUS
<1>0. GateInv /\ PolicyInv /\ SessionInv
  BY DEF IInv
<1>1. CASE People
  <2>1. GateInv' /\ Dispatched' = Dispatched /\ DOMAIN acts \subseteq DOMAIN acts'
    BY <1>0, <1>1, ActInv DEF People
  <2>2. PolicyInv' /\ UNCHANGED <<workspace, sessions, own>>
    BY <1>0, <1>1, PolicyFrame DEF People, policyVars
  <2>3. SessionInv'
    BY <1>0, <2>1, <2>2 DEF SessionInv
  <2>. QED  BY <2>1, <2>2, <2>3 DEF IInv
<1>2. CASE Listener
  <2>1. GateInv' /\ Dispatched \subseteq Dispatched' /\ acts' = acts
    BY <1>0, <1>2, DeliverInv DEF Listener
  <2>2. PolicyInv' /\ UNCHANGED <<workspace, sessions, own>>
    BY <1>0, <1>2, PolicyFrame DEF Listener, policyVars
  <2>3. SessionInv'
    BY <1>0, <2>1, <2>2 DEF SessionInv
  <2>. QED  BY <2>1, <2>2, <2>3 DEF IInv
<1>3. CASE Start
  <2>1. GateInv' /\ Dispatched' = Dispatched /\ acts' = acts /\ own' = own
    BY <1>0, <1>3, GateFrame DEF Start
  <2>2. PolicyInv'
    BY <1>0, <1>3, OpenInv DEF Start
  <2>3. PICK n \in Dispatched \ sessions : sessions' = sessions \cup {n}
    BY <1>3 DEF Start
  <2>4. sessions' # {} /\ sessions' \ own # {}
    BY <1>0, <2>3 DEF SessionInv
  <2>5. SessionInv'
    BY <1>0, <2>1, <2>3, <2>4 DEF SessionInv
  <2>. QED  BY <2>1, <2>2, <2>5 DEF IInv
<1>4. CASE Work
  <2>1. PolicyInv'
    BY <1>0, <1>4, RequestInv, RunUnaskedInv DEF Work
  <2>2. sessions' = sessions /\ workspace' = workspace /\ workspace # "none"
    BY <1>4 DEF Work, Request, RunUnasked, Visible
  <2>3. CASE UNCHANGED <<gateVars, own>>
    <3>1. GateInv' /\ Dispatched' = Dispatched /\ acts' = acts
      BY <1>0, <2>3, GateFrame
    <3>2. SessionInv'
      BY <1>0, <2>2, <2>3, <3>1 DEF SessionInv
    <3>. QED  BY <2>1, <3>1, <3>2 DEF IInv
  <2>4. ASSUME NEW a \in Action, NEW who \in Account, NEW l \in Label \cup {NoLabel},
               Act(a, who, l), own' = own \cup {Len(acts')}
        PROVE  IInv'
    <3>1. who \in Login
      BY AccountAssumption
    <3>2. /\ GateInv' /\ Dispatched' = Dispatched /\ DOMAIN acts \subseteq DOMAIN acts'
          /\ Len(acts') \in DOMAIN acts' \ Dispatched
      BY <1>0, <2>4, <3>1, ActInv
    <3>3. sessions \ own' = sessions \ own /\ sessions # {}
      BY <1>0, <2>2, <2>4, <3>2 DEF SessionInv
    <3>4. SessionInv'
      BY <1>0, <2>2, <2>4, <3>2, <3>3 DEF SessionInv
    <3>. QED  BY <2>1, <3>2, <3>4 DEF IInv
  <2>. QED  BY <1>4, <2>3, <2>4 DEF Work
<1>5. CASE Finish
  <2>1. GateInv' /\ Dispatched' = Dispatched /\ acts' = acts
    BY <1>0, <1>5, GateFrame DEF Finish
  <2>2. PolicyInv' /\ UNCHANGED <<sessions, own>> /\ workspace' = "none"
    BY <1>0, <1>5, CloseInv DEF Finish, CloseSession
  <2>3. SessionInv'
    BY <1>0, <2>1, <2>2 DEF SessionInv
  <2>. QED  BY <2>1, <2>2, <2>3 DEF IInv
<1>6. CASE UNCHANGED vars
  <2>1. GateInv' /\ Dispatched' = Dispatched /\ acts' = acts
    BY <1>0, <1>6, GateFrame DEF vars
  <2>2. PolicyInv' /\ UNCHANGED <<workspace, sessions, own>>
    BY <1>0, <1>6, PolicyFrame DEF vars, policyVars
  <2>3. SessionInv'
    BY <1>0, <2>1, <2>2 DEF SessionInv
  <2>. QED  BY <2>1, <2>2, <2>3 DEF IInv
<1>. QED  BY <1>1, <1>2, <1>3, <1>4, <1>5, <1>6 DEF Next

LEMMA Invariance == Spec => []IInv
<1>. QED  BY InitInv, NextInv, PTL DEF Spec

------------------------------------------------------------------------------
(* Theorems *)

(* Every variable keeps its type, whoever acts. *)
THEOREM DispatchTypeCorrect == Spec => []TypeOK
<1>1. IInv => TypeOK
  <2>1. GateTypeOK => Dispatched \subseteq DOMAIN acts
    BY LenProperties DEF GateTypeOK, Dispatched
  <2>. QED  BY <2>1 DEF IInv, GateInv, PolicyInv, SessionInv, TypeOK
<1>. QED  BY <1>1, Invariance, PTL

(* No issue body becomes a prompt unless an allowed account has just set a *)
(* label, and every prompt has a direction (should_dispatch against        *)
(* build_orchestration_prompt).                                            *)
THEOREM PromptsAreRight == Spec => []PromptIsRight
<1>1. IInv => PromptIsRight
  BY DEF IInv, GateInv
<1>. QED  BY <1>1, Invariance, PTL

(* What an agent runs, and what it may go on running, has a reason that    *)
(* the policy knows, whatever it asks for and is offered (decide, respond, *)
(* _write_deny_config).                                                    *)
THEOREM PolicyHolds == Spec => []PermissionsHold
<1>1. IInv => PermissionsHold
  BY DEF IInv, PolicyInv
<1>. QED  BY <1>1, Invariance, PTL

(* Whosever tokens agents use: a session begets another only by a workflow *)
(* label that it sets as a person, and the first session of all is set off *)
(* by somebody else (should_dispatch, _is_bot_actor).                      *)
THEOREM OnlyLabelsBeget == Spec => []NoEcho
<1>1. IInv => NoEcho
  BY DEF IInv, GateInv, PassedGate, SessionInv, NoEcho, OnlyHandOffsChain, ChainsBeginOutside
<1>. QED  BY <1>1, Invariance, PTL
==============================================================================
