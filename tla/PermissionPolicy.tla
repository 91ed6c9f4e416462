-------------------------- MODULE PermissionPolicy --------------------------
(***************************************************************************)
(* What an agent session may do (acp_policy.py, and request_permission and *)
(* _write_deny_config of acp_host.py): the host answers every permission   *)
(* request by itself.  The agent is the environment: it asks unless it was *)
(* told "always", and does what it is told.                                *)
(***************************************************************************)
EXTENDS Integers

CONSTANT acp_denied_tools  \* is any tool listed there?

ASSUME PolicyAssumption == acp_denied_tools \in BOOLEAN

VARIABLES acp_default_permission,  \* "reject" or "allow_once", by configuration
          workspace,  \* what the session runs in, or "none" between sessions
          deny_file,  \* did the host write opencode.json there?
          always,     \* tool kinds the agent was told to allow always
          never,      \* tool kinds it was told to reject always
          last        \* the last tool call that ran

policyVars == <<acp_default_permission, workspace, deny_file, always, never, last>>

READ_TOOL_KINDS == {"read"}
Kind == READ_TOOL_KINDS \cup {"edit"}

(* denied: a deny pattern matches title or input; listed: the tool's name  *)
(* is in acp_denied_tools.                                                 *)
Tool == [kind : Kind, denied : BOOLEAN, listed : BOOLEAN]

OptionKind == {"allow_once", "allow_always", "reject_once", "reject_always"}
Workspace  == {"bare", "managed", "clone"}

Nothing == [asked |-> FALSE]

PolicyInit ==
  /\ acp_default_permission \in {"reject", "allow_once"}
  /\ workspace = "none" /\ deny_file = FALSE /\ always = {} /\ never = {} /\ last = Nothing

------------------------------------------------------------------------------

(* AcpHost._write_deny_config: not into a checkout someone lives in, nor   *)
(* beside the repository's own configuration.                              *)
WritesDenyFile(w) == acp_denied_tools /\ w = "bare"

OpenSession(w) ==
  /\ workspace = "none"
  /\ workspace' = w
  /\ deny_file' = WritesDenyFile(w)
  /\ UNCHANGED <<acp_default_permission, always, never, last>>

CloseSession ==
  /\ workspace # "none"
  /\ workspace' = "none"
  /\ deny_file' = FALSE
  /\ always' = {} /\ never' = {}
  /\ last' = Nothing
  /\ UNCHANGED acp_default_permission

(* faulty: reading is allowed before the deny patterns are looked at. *)
ReadsFirst(tool) ==
  CASE tool.kind \in READ_TOOL_KINDS                  -> "allow_always"
    [] tool.denied /\ tool.kind \notin READ_TOOL_KINDS -> "reject"
    [] OTHER                                          -> acp_default_permission

decide(tool) ==
  CASE tool.denied                                    -> "reject"
    [] ~tool.denied /\ tool.kind \in READ_TOOL_KINDS   -> "allow_always"
    [] OTHER                                          -> acp_default_permission

Wanted(decision) ==
  CASE decision = "reject"       -> <<"reject_once", "reject_always">>
    [] decision = "allow_always" -> <<"allow_always", "allow_once">>
    [] decision = "allow_once"   -> <<"allow_once", "allow_always">>

(* The best option of the wanted family, or a dismissal. *)
respond(options, decision) ==
  LET w == Wanted(decision)
  IN  CASE w[1] \in options                           -> w[1]
        [] w[1] \notin options /\ w[2] \in options     -> w[2]
        [] OTHER                                      -> "cancelled"

Visible(tool) == workspace # "none" /\ ~(deny_file /\ tool.listed)

(* HostClient.request_permission, and what the agent makes of the answer. *)
Request(tool, options) ==
  LET chosen == respond(options, decide(tool))
  IN  /\ Visible(tool)
      /\ tool.kind \notin always \cup never
      /\ last' = IF chosen \in {"allow_once", "allow_always"}
                   THEN [asked |-> TRUE, tool |-> tool] ELSE last
      /\ always' = IF chosen = "allow_always" THEN always \cup {tool.kind} ELSE always
      /\ never' = IF chosen = "reject_always" THEN never \cup {tool.kind} ELSE never
      /\ UNCHANGED <<acp_default_permission, workspace, deny_file>>

(* A call of a kind that is always allowed. *)
RunUnasked(tool) ==
  /\ Visible(tool)
  /\ tool.kind \in always
  /\ last' = [asked |-> FALSE, tool |-> tool]
  /\ UNCHANGED <<acp_default_permission, workspace, deny_file, always, never>>

------------------------------------------------------------------------------
(* Properties *)

PolicyTypeOK ==
  /\ acp_default_permission \in {"reject", "allow_once"}
  /\ workspace \in Workspace \cup {"none"}
  /\ deny_file \in BOOLEAN
  /\ always \subseteq Kind /\ never \subseteq Kind
  /\ last \in {Nothing} \cup [asked : BOOLEAN, tool : Tool]

Ran == last # Nothing

(* A lasting permission is given for reading, or where the operator chose  *)
(* to allow: never because the agent offered nothing else (respond fails   *)
(* closed).                                                                *)
GrantIsJustified ==
  always \subseteq READ_TOOL_KINDS \/ acp_default_permission = "allow_once"

(* A call that a deny pattern matches runs only if the host is not asked:  *)
(* the patterns have no hold on a kind that an earlier, harmless call got  *)
(* allowed always (decide answers reads with allow_always).                *)
DeniedRunsOnlyUnasked == Ran /\ last.tool.denied => ~last.asked /\ last.tool.kind \in always

(* A listed tool runs only where the workspace has a configuration that is *)
(* not the host's: it is not even visible in a bare one.                   *)
ListedRunsOnlyManaged == Ran /\ acp_denied_tools /\ last.tool.listed => workspace # "bare"

(* What runs in a session, and what it may go on running, has a reason     *)
(* that the policy knows.                                                  *)
PermissionsHold == GrantIsJustified /\ DeniedRunsOnlyUnasked /\ ListedRunsOnlyManaged
==============================================================================
