---------------------------- MODULE WafAllowlist ----------------------------
(***************************************************************************)
(* The perf-test lane's WAF allowlist (scripts/perf_waf_allowlist.py) as   *)
(* the jobs of perf-test.yml call it: one apply that lays the skeleton,    *)
(* one apply per load shard with the shard's own address, all at once, and *)
(* a remove.  Every job works on the same WebACL and IPSet through WAFv2's *)
(* read - modify - write calls, each of which may lose the race for the    *)
(* LockToken, fail, or succeed with its reply lost; the WebACL is edited   *)
(* by others too.                                                          *)
(***************************************************************************)
EXTENDS Integers, FiniteSets

CONSTANTS
  Jobs,              \* commands that are run
  Action,            \* each job's sub-command, "apply" or "remove"
  AddCidrs,          \* each job's --add-cidr values
  IpSetName,         \* each job's IPSet name, given or derived from its arguments
  Needs,             \* each job's needs: in the workflow
  Priority,          \* --allow-rule-priority
  RateRulePriority,  \* _RATE_RULE_PRIORITY
  LockRetries,       \* TT_WAF_LOCK_RETRIES
  Foreign,           \* rules of the WebACL that are not ours
  MaxEdits           \* bound: edits of the WebACL by others

Names == {IpSetName[j] : j \in Jobs}
Cidrs == UNION {AddCidrs[j] : j \in Jobs}

ASSUME JobsAssumption ==
  /\ Action \in [Jobs -> {"apply", "remove"}]
  /\ DOMAIN AddCidrs = Jobs /\ DOMAIN IpSetName = Jobs
  /\ Needs \in [Jobs -> SUBSET Jobs]
ASSUME BudgetAssumption == LockRetries \in Nat /\ MaxEdits \in Nat
ASSUME PriorityAssumption == Priority \in Int /\ RateRulePriority \in Int

\* The terminating ALLOW rule; arn is the identity of the IPSet it refers to.
AllowRule(arn) == [name |-> "perf-allow", priority |-> Priority, arn |-> arn]
IsAllowRule(r) == r.name = "perf-allow"

ASSUME ForeignAssumption ==
  \A r \in Foreign : DOMAIN r = {"name", "priority", "arn"} /\ ~IsAllowRule(r) /\ r.arn = 0

-----------------------------------------------------------------------------
VARIABLES
  deployed,   \* the stand-up left a WebACL behind
  acl,        \* the WebACL: its rules and its LockToken
  ipSets,     \* by name: an IPSet's identity, addresses and LockToken; id 0 is none
  created,    \* how many IPSets were ever created
  foreign,    \* history: the rules of others as they left them
  edits,      \* how often others edited the WebACL
  job         \* each job: where it is, retries left, what it read last

vars == <<deployed, acl, ipSets, created, foreign, edits, job>>
remote == <<acl, ipSets, created>>
outside == <<deployed, foreign, edits>>

NoSet == [id |-> 0, addrs |-> {}, token |-> 0]
NotStarted == [at |-> "waiting", left |-> LockRetries, id |-> 0,
               rules |-> {}, addrs |-> {}, token |-> 0]

Apply  == {"find", "create", "getSet", "updateSet", "getAcl", "addRule"}
Remove == {"getAclToRemove", "dropRule", "findToDelete", "getSetToDelete", "delete"}
Ended  == {"ok", "failed", "skipped"}

Rules == Foreign \cup {AllowRule(arn) : arn \in 1..created}

TypeOK ==
  /\ deployed \in BOOLEAN
  /\ acl \in [rules : SUBSET Rules, token : Nat]
  /\ ipSets \in [Names -> [id : 0..created, addrs : SUBSET Cidrs, token : Nat]]
  /\ created \in Nat
  /\ foreign \in SUBSET Foreign
  /\ edits \in 0..MaxEdits
  /\ job \in [Jobs -> [at : {"waiting", "resolve"} \cup Apply \cup Remove \cup Ended,
                       left : 0..LockRetries, id : 0..created,
                       rules : SUBSET Rules, addrs : SUBSET Cidrs, token : Nat]]

\* An earlier run may have left its set behind, with or without its rule.
Init ==
  /\ deployed \in BOOLEAN
  /\ foreign \in SUBSET {r \in Foreign : r.priority # Priority}
  /\ \/ created = 0 /\ ipSets = [n \in Names |-> NoSet] /\ acl = [rules |-> foreign, token |-> 0]
     \/ /\ created = 1
        /\ \E n \in Names, addrs \in SUBSET Cidrs :
             ipSets = [m \in Names |-> IF m = n THEN [id |-> 1, addrs |-> addrs, token |-> 0] ELSE NoSet]
        /\ \E ours \in SUBSET {AllowRule(1)} : acl = [rules |-> foreign \cup ours, token |-> 0]
  /\ deployed \/ acl.rules = {}
  /\ edits = 0
  /\ job = [j \in Jobs |-> NotStarted]

-----------------------------------------------------------------------------
(***************************************************************************)
(* Control of one job.                                                     *)
(***************************************************************************)

At(j, step) == job[j].at = step
SetOf(j) == ipSets[IpSetName[j]]

\* The job enters step with a fresh retry budget (a new with_lock_retry).
Goto(j, step) == job' = [job EXCEPT ![j].at = step, ![j].left = LockRetries]

\* Mutant of Retry: the budget is not spent.
RetryForever(j, step) == job' = [job EXCEPT ![j].at = step]

\* with_lock_retry: the attempt starts over from fresh server state, or the
\* budget is exhausted and the command fails.
Retry(j, step) ==
  IF job[j].left > 0 THEN job' = [job EXCEPT ![j].at = step, ![j].left = @ - 1]
  ELSE Goto(j, "failed")

\* A mutation took effect.  Its reply may be lost: the SDK sends the request
\* again, which now carries a stale token, or the command fails.
Landed(j, next, again) == Goto(j, next) \/ Retry(j, again) \/ Goto(j, "failed")

\* needs: an apply job wants them all to succeed, the cleanup job runs always().
Start(j) ==
  /\ At(j, "waiting")
  /\ \A n \in Needs[j] : job[n].at \in Ended
  /\ IF Action[j] = "remove" \/ \A n \in Needs[j] : At(n, "ok")
     THEN Goto(j, "resolve") ELSE Goto(j, "skipped")
  /\ UNCHANGED <<remote, outside>>

\* resolve_web_acl: without a WebACL the command is a usage error.
ResolveWebAcl(j) ==
  /\ At(j, "resolve")
  /\ IF ~deployed THEN Goto(j, "failed")
     ELSE Goto(j, IF Action[j] = "apply" THEN "find" ELSE "getAclToRemove")
  /\ UNCHANGED <<remote, outside>>

\* Any other error of a call, or the job itself, ends the command.
Fails(j) ==
  /\ job[j].at \notin {"waiting"} \cup Ended
  /\ Goto(j, "failed")
  /\ UNCHANGED <<remote, outside>>

-----------------------------------------------------------------------------
(***************************************************************************)
(* apply: ensure_ip_set, then ensure_allow_rule.                           *)
(***************************************************************************)

\* _find_ip_set: an existing set is merged into, if there is anything to add.
FindIpSet(j) ==
  /\ At(j, "find")
  /\ LET step == IF SetOf(j).id = 0 THEN "create"
                 ELSE IF AddCidrs[j] # {} THEN "getSet" ELSE "getAcl"
     IN  job' = [job EXCEPT ![j].at = step, ![j].left = LockRetries, ![j].id = SetOf(j).id]
  /\ UNCHANGED <<remote, outside>>

\* create_ip_set is not retried: a set that exists by now is an error.
CreateIpSet(j) ==
  /\ At(j, "create")
  /\ \/ /\ SetOf(j).id # 0
        /\ Goto(j, "failed")
        /\ UNCHANGED remote
     \/ /\ SetOf(j).id = 0
        /\ created' = created + 1
        /\ ipSets' = [ipSets EXCEPT ![IpSetName[j]] =
                        [id |-> created', addrs |-> AddCidrs[j], token |-> 0]]
        /\ \/ job' = [job EXCEPT ![j].at = "getAcl", ![j].left = LockRetries, ![j].id = created']
           \/ Goto(j, "failed")
        /\ UNCHANGED acl
  /\ UNCHANGED outside

\* _merge reads the set it found by its Id.
GetIpSet(j) ==
  /\ At(j, "getSet")
  /\ IF SetOf(j).id # job[j].id THEN Goto(j, "failed")
     ELSE IF AddCidrs[j] \subseteq SetOf(j).addrs THEN Goto(j, "getAcl")
     ELSE job' = [job EXCEPT ![j].at = "updateSet", ![j].addrs = SetOf(j).addrs,
                             ![j].token = SetOf(j).token]
  /\ UNCHANGED <<remote, outside>>

\* Mutant of UpdateIpSet: only the job's own addresses are written.
UpdateIpSetOverwrites(j) ==
  /\ At(j, "updateSet")
  /\ SetOf(j).id = job[j].id /\ SetOf(j).token = job[j].token
  /\ ipSets' = [ipSets EXCEPT ![IpSetName[j]] =
                  [id |-> job[j].id, addrs |-> AddCidrs[j], token |-> SetOf(j).token + 1]]
  /\ Landed(j, "getAcl", "getSet")
  /\ UNCHANGED <<acl, created, outside>>

\* _merge writes what it read plus its own addresses.
UpdateIpSet(j) ==
  /\ At(j, "updateSet")
  /\ \/ SetOf(j).id # job[j].id /\ Goto(j, "failed") /\ UNCHANGED ipSets
     \/ /\ SetOf(j).id = job[j].id /\ SetOf(j).token # job[j].token
        /\ Retry(j, "getSet") /\ UNCHANGED ipSets
     \/ /\ SetOf(j).id = job[j].id /\ SetOf(j).token = job[j].token
        /\ ipSets' = [ipSets EXCEPT ![IpSetName[j]] =
             [id |-> job[j].id, addrs |-> job[j].addrs \cup AddCidrs[j],
              token |-> SetOf(j).token + 1]]
        /\ Landed(j, "getAcl", "getSet")
  /\ UNCHANGED <<acl, created, outside>>

\* ensure_allow_rule reads the WebACL: a rule of this name is left as it is,
\* another rule of this priority is an error.
GetWebAcl(j) ==
  /\ At(j, "getAcl")
  /\ IF Priority >= RateRulePriority THEN Goto(j, "failed")
     ELSE IF \E r \in acl.rules : IsAllowRule(r) THEN Goto(j, "ok")
     ELSE IF \E r \in acl.rules : r.priority = Priority THEN Goto(j, "failed")
     ELSE job' = [job EXCEPT ![j].at = "addRule", ![j].rules = acl.rules, ![j].token = acl.token]
  /\ UNCHANGED <<remote, outside>>

\* Mutant of AddAllowRule: the LockToken is not compared.
AddAllowRuleUnlocked(j) ==
  /\ At(j, "addRule")
  /\ acl' = [rules |-> job[j].rules \cup {AllowRule(job[j].id)}, token |-> acl.token + 1]
  /\ Landed(j, "ok", "getAcl")
  /\ UNCHANGED <<ipSets, created, outside>>

\* update_web_acl with the rule appended.  A set created a moment ago may not
\* be retrievable yet; a set deleted by now is an error.
AddAllowRule(j) ==
  /\ At(j, "addRule")
  /\ \/ Retry(j, "getAcl") /\ (acl.token # job[j].token \/ job[j].id = created) /\ UNCHANGED acl
     \/ SetOf(j).id # job[j].id /\ Goto(j, "failed") /\ UNCHANGED acl
     \/ /\ acl.token = job[j].token /\ SetOf(j).id = job[j].id
        /\ acl' = [rules |-> job[j].rules \cup {AllowRule(job[j].id)}, token |-> acl.token + 1]
        /\ Landed(j, "ok", "getAcl")
  /\ UNCHANGED <<ipSets, created, outside>>

-----------------------------------------------------------------------------
(***************************************************************************)
(* remove: remove_allow_rule, then delete_ip_set.                          *)
(***************************************************************************)

\* Mutant of GetWebAclToRemove: without the rule there is nothing to do.
GetWebAclToRemoveReturns(j) ==
  /\ At(j, "getAclToRemove")
  /\ IF \E r \in acl.rules : IsAllowRule(r)
     THEN job' = [job EXCEPT ![j].at = "dropRule", ![j].rules = acl.rules, ![j].token = acl.token]
     ELSE Goto(j, "ok")
  /\ UNCHANGED <<remote, outside>>

\* remove_allow_rule reads the WebACL; a rule that is not there is a clean no-op.
GetWebAclToRemove(j) ==
  /\ At(j, "getAclToRemove")
  /\ IF \E r \in acl.rules : IsAllowRule(r)
     THEN job' = [job EXCEPT ![j].at = "dropRule", ![j].rules = acl.rules, ![j].token = acl.token]
     ELSE Goto(j, "findToDelete")
  /\ UNCHANGED <<remote, outside>>

DropAllowRule(j) ==
  /\ At(j, "dropRule")
  /\ \/ acl.token # job[j].token /\ Retry(j, "getAclToRemove") /\ UNCHANGED acl
     \/ /\ acl.token = job[j].token
        /\ acl' = [rules |-> {r \in job[j].rules : ~IsAllowRule(r)}, token |-> acl.token + 1]
        /\ Landed(j, "findToDelete", "getAclToRemove")
  /\ UNCHANGED <<ipSets, created, outside>>

\* delete_ip_set: a set that is not there is a clean no-op.
FindIpSetToDelete(j) ==
  /\ At(j, "findToDelete")
  /\ job' = [job EXCEPT ![j].at = IF SetOf(j).id = 0 THEN "ok" ELSE "getSetToDelete",
                        ![j].left = LockRetries, ![j].id = SetOf(j).id]
  /\ UNCHANGED <<remote, outside>>

GetIpSetToDelete(j) ==
  /\ At(j, "getSetToDelete")
  /\ IF SetOf(j).id # job[j].id THEN Goto(j, "ok")
     ELSE job' = [job EXCEPT ![j].at = "delete", ![j].token = SetOf(j).token]
  /\ UNCHANGED <<remote, outside>>

Referenced(id) == \E r \in acl.rules : IsAllowRule(r) /\ r.arn = id

\* WAFv2 refuses to delete a set that a rule refers to.
DeleteIpSet(j) ==
  /\ At(j, "delete")
  /\ \/ SetOf(j).id # job[j].id /\ Goto(j, "ok") /\ UNCHANGED ipSets
     \/ /\ SetOf(j).id = job[j].id /\ SetOf(j).token # job[j].token
        /\ Retry(j, "getSetToDelete") /\ UNCHANGED ipSets
     \/ /\ SetOf(j).id = job[j].id /\ SetOf(j).token = job[j].token
        /\ Referenced(job[j].id) /\ Goto(j, "failed") /\ UNCHANGED ipSets
     \/ /\ SetOf(j).id = job[j].id /\ SetOf(j).token = job[j].token
        /\ ~Referenced(job[j].id)
        /\ ipSets' = [ipSets EXCEPT ![IpSetName[j]] = NoSet]
        /\ Landed(j, "ok", "getSetToDelete")
  /\ UNCHANGED <<acl, created, outside>>

\* Somebody else changes the rules of the WebACL that are theirs.
ForeignEdit ==
  /\ deployed
  /\ edits < MaxEdits
  /\ edits' = edits + 1
  /\ foreign' \in SUBSET Foreign
  /\ foreign' # foreign
  /\ LET ours == {r \in acl.rules : IsAllowRule(r)}
     IN  /\ \A r \in foreign' : r.priority = Priority => ours = {}
         /\ acl' = [rules |-> foreign' \cup ours, token |-> acl.token + 1]
  /\ UNCHANGED <<deployed, ipSets, created, job>>

Step(j) ==
  \/ Start(j) \/ ResolveWebAcl(j)
  \/ FindIpSet(j) \/ CreateIpSet(j) \/ GetIpSet(j) \/ UpdateIpSet(j)
  \/ GetWebAcl(j) \/ AddAllowRule(j)
  \/ GetWebAclToRemove(j) \/ DropAllowRule(j)
  \/ FindIpSetToDelete(j) \/ GetIpSetToDelete(j) \/ DeleteIpSet(j)

Next ==
  \/ \E j \in Jobs : Step(j) \/ Fails(j)
  \/ ForeignEdit

Spec == Init /\ [][Next]_vars

\* Every job keeps running.
FairSpec == Spec /\ \A j \in Jobs : WF_vars(Step(j))

-----------------------------------------------------------------------------
(***************************************************************************)
(* Properties.                                                             *)
(***************************************************************************)

\* The WebACL round-trip: whatever the jobs do, lose or retry, the rules of
\* others are exactly as their owners left them.
ForeignRulesPreserved == {r \in acl.rules : ~IsAllowRule(r)} = foreign

\* No job removes yet: what was allowed so far is still wanted.
NoRemoveYet == \A j \in Jobs : Action[j] = "remove" => job[j].at \in {"waiting", "skipped"}

\* Parallel shards never clobber each other: after an apply that exited 0, and
\* until the cleanup starts, the ALLOW rule is in place and the set it refers to
\* holds the job's addresses, whatever the other shards, failures and retries did.
AppliedStaysAllowed ==
  \A j \in Jobs : (Action[j] = "apply" /\ At(j, "ok") /\ NoRemoveYet) =>
    \E r \in acl.rules, n \in Names :
      IsAllowRule(r) /\ ipSets[n].id = r.arn /\ AddCidrs[j] \subseteq ipSets[n].addrs

\* The ALLOW rule of the WebACL refers to the set the successful apply reports, as the
\* docstring of ensure_allow_rule promises. The code does not satisfy it: an existing rule
\* is kept whatever set it refers to.
RuleReferencesIpSet ==
  \A j \in Jobs : (Action[j] = "apply" /\ At(j, "ok") /\ NoRemoveYet) =>
    \E r \in acl.rules : IsAllowRule(r) /\ r.arn = job[j].id

\* A cleanup that exited 0 after every other job had ended leaves neither the
\* rule nor the set behind, however far each of the applies got.
RemoveLeavesNothing ==
  \A j \in Jobs : (Action[j] = "remove" /\ At(j, "ok") /\ Needs[j] = Jobs \ {j}) =>
    /\ \A r \in acl.rules : ~IsAllowRule(r)
    /\ SetOf(j) = NoSet

\* The retry budgets are bounded: every job ends, so the cleanup gets its turn.
JobsEnd == <>(\A j \in Jobs : job[j].at \in Ended)
=============================================================================
