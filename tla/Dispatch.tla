------------------------------ MODULE Dispatch ------------------------------
(***************************************************************************)
(* The loop through the issue: people label it, the listener dispatches,   *)
(* the agent session works under the permission policy, and what it does   *)
(* to the issue comes back as deliveries.  A session acts with the account *)
(* its token is of: a bot's, or the owner's own, and then GitHub and the   *)
(* gate cannot tell it from the owner.  The prompt queue between gate and  *)
(* session is left to PromptQueue: sessions run one at a time, in the      *)
(* order of dispatch or not.                                               *)
(***************************************************************************)
EXTENDS DispatchGate, PermissionPolicy

CONSTANT Account  \* logins the agents' tokens may be of, bots' or people's

ASSUME AccountAssumption == Account \subseteq Login

VARIABLES sessions,  \* the acts whose prompts were run, the last one perhaps still is
          own        \* history: the acts that agent sessions did

vars == <<gateVars, policyVars, sessions, own>>

Init == GateInit /\ PolicyInit /\ sessions = {} /\ own = {}

People ==
  /\ \E a \in Action, who \in Login, l \in Label \cup {NoLabel} : Act(a, who, l)
  /\ UNCHANGED <<policyVars, sessions, own>>

Listener ==
  /\ \E n \in DOMAIN acts, sound \in BOOLEAN : Deliver(n, sound)
  /\ UNCHANGED <<policyVars, sessions, own>>

Start ==
  /\ \E n \in Dispatched \ sessions : sessions' = sessions \cup {n}
  /\ \E w \in Workspace : OpenSession(w)
  /\ UNCHANGED <<gateVars, own>>

(* A tool call, asked for or not, may change the issue if it is let run. *)
Work ==
  /\ \E tool \in Tool :
       /\ \/ \E options \in SUBSET OptionKind : Request(tool, options)
          \/ RunUnasked(tool)
       /\ \/ UNCHANGED <<gateVars, own>>
          \/ /\ last' = [asked |-> last'.asked, tool |-> tool]
             /\ tool.kind \notin READ_TOOL_KINDS
             /\ \E a \in Action, who \in Account, l \in Label \cup {NoLabel} : Act(a, who, l)
             /\ own' = own \cup {Len(acts')}
  /\ UNCHANGED sessions

Finish == CloseSession /\ UNCHANGED <<gateVars, sessions, own>>

Next == People \/ Listener \/ Start \/ Work \/ Finish

Spec == Init /\ [][Next]_vars

------------------------------------------------------------------------------
(* Properties *)

TypeOK ==
  /\ GateTypeOK /\ PolicyTypeOK
  /\ sessions \subseteq DOMAIN acts /\ own \subseteq DOMAIN acts

HandOff(n) ==
  acts[n].action = "labeled" /\ acts[n].sender \in Person /\ _is_workflow_label(acts[n].label)

(* A session can set off the next, but in one way only: by a workflow      *)
(* label, set with the account of a person (init-success is meant to).     *)
(* Nothing else it does to the issue comes back as a session, and nothing  *)
(* at all when its account is a bot's.                                     *)
OnlyHandOffsChain == \A n \in sessions \cap own : HandOff(n)

(* Sessions do not begin by themselves: where there is one, or an act of   *)
(* one, somebody else has set off the first.                               *)
ChainsBeginOutside == sessions \cup own # {} => sessions \ own # {}

(* What comes back of an agent's work is no echo.                          *)
NoEcho == OnlyHandOffsChain /\ ChainsBeginOutside
==============================================================================
