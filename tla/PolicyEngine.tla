---------------------------- MODULE PolicyEngine ----------------------------
(***************************************************************************)
(* What an agent may do: evaluatePolicy and DEFAULT_POLICY of              *)
(* packages/nemoclaw/src/policy-engine.ts.                                 *)
(*                                                                         *)
(* The resource of a file action is the path that the model gave, as the   *)
(* sequence of its segments; that of a command is the class of commands it *)
(* belongs to.  The patterns of the rules, regular expressions in the      *)
(* code, are predicates on them.                                           *)
(***************************************************************************)
EXTENDS Naturals, Sequences, SequencesExt

DotenvSecrets ==
  {".env", ".env.local", ".env.development", ".env.production", ".env.test",
   ".env.staging", ".env.dev", ".env.prod"}
(* Names with the prefix that the glob asks for; there are others.         *)
CredentialFiles == {"credentials", "credentials.json"}

(* The path leads through a directory of that name: the glob with two      *)
(* stars before and after it.                                              *)
Through(path, name) == \E i \in 1..(Len(path) - 1) : path[i] = name

(* The glob that is anchored at the root.                                  *)
Below(path, name) == Len(path) > 1 /\ path[1] = name

Matches(rule, resource) ==
  CASE rule.pattern = "dotenv"       -> Last(resource) \in DotenvSecrets
    [] rule.pattern = "credentials"  -> Last(resource) \in CredentialFiles
    [] rule.pattern = "git"          -> Below(resource, ".git")
    [] rule.pattern = "node_modules" -> Through(resource, "node_modules")
    [] rule.pattern = "next"         -> Through(resource, ".next")
    [] rule.pattern = "any"          -> TRUE
    [] OTHER                         -> resource = rule.pattern

Rule(pattern, actionType) ==
  [pattern |-> pattern, actionType |-> actionType, decision |-> "deny"]

DefaultDecision ==
  [file_read |-> "allow", file_write |-> "allow", command_execution |-> "allow",
   network_call |-> "allow", tool_execution |-> "allow",
   env_access |-> "deny", sandbox_boundary |-> "deny"]

(* Mutant: what package managers write is not protected.                   *)
PolicyWithoutNodeModules ==
  [rules |-> << Rule("dotenv", "file_write"), Rule("git", "file_write"),
                Rule("next", "file_write"), Rule("sudo", "command_execution") >>,
   defaultDecision |-> DefaultDecision]

DEFAULT_POLICY ==
  [rules |-> << Rule("dotenv", "file_read"),
                Rule("credentials", "file_read"),
                Rule("git", "file_read"),
                Rule("dotenv", "file_write"),
                Rule("git", "file_write"),
                Rule("node_modules", "file_write"),
                Rule("next", "file_write"),
                Rule("sudo", "command_execution"),
                Rule("rm -rf /", "command_execution"),
                Rule("any", "sandbox_boundary") >>,
   defaultDecision |-> DefaultDecision]

Applies(rule, actionType, resource) ==
  rule.actionType = actionType /\ Matches(rule, resource)

(* The rules are tried in their order; the first that applies decides.     *)
Deciding(actionType, resource, config) ==
  {i \in DOMAIN config.rules :
     /\ Applies(config.rules[i], actionType, resource)
     /\ \A j \in 1..(i - 1) : ~Applies(config.rules[j], actionType, resource)}

EvaluatePolicy(actionType, resource, config) ==
  LET deciding == Deciding(actionType, resource, config)
      default  == IF actionType \in DOMAIN config.defaultDecision
                  THEN config.defaultDecision[actionType] ELSE "allow"
  IN  IF deciding = {} THEN default
      ELSE config.rules[CHOOSE i \in deciding : TRUE].decision

Allowed(actionType, resource) ==
  EvaluatePolicy(actionType, resource, DEFAULT_POLICY) = "allow"
=============================================================================
