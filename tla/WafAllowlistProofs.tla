-------------------------- MODULE WafAllowlistProofs --------------------------
(***************************************************************************)
(* TLAPS proofs about WafAllowlist, for every set of jobs, every workflow  *)
(* graph, every retry budget and every rule of others.                     *)
(*                                                                         *)
(* The inductive invariant says why optimistic locking is enough: a job    *)
(* whose token is current holds the current contents (AclRead, SetRead).   *)
(***************************************************************************)
EXTENDS WafAllowlist, TLAPS

Steps == {"waiting", "resolve"} \cup Apply \cup Remove \cup Ended

JobType == [at : Steps, left : 0..LockRetries, id : 0..created,
            rules : SUBSET Rules, addrs : SUBSET Cidrs, token : Nat]

\* A job is in the steps of its sub-command.
OwnSteps ==
  \A j \in Jobs : /\ job[j].at \in Apply => Action[j] = "apply"
                  /\ job[j].at \in Remove => Action[j] = "remove"

\* The set a job works on was found or created.
HasSet ==
  \A j \in Jobs :
    job[j].at \in {"getSet", "updateSet", "getAcl", "addRule", "getSetToDelete", "delete"} => job[j].id # 0

\* A job that is about to write the WebACL either holds its current rules or an old token.
AclRead ==
  \A j \in Jobs : job[j].at \in {"addRule", "dropRule"} =>
    job[j].token < acl.token \/ (job[j].token = acl.token /\ job[j].rules = acl.rules)

\* The same for the addresses of a set, as long as it is the set the job found.
SetRead ==
  \A j \in Jobs : job[j].at = "updateSet" /\ SetOf(j).id = job[j].id =>
    job[j].token < SetOf(j).token \/ (job[j].token = SetOf(j).token /\ job[j].addrs = SetOf(j).addrs)

LockInv == TypeOK /\ OwnSteps /\ HasSet /\ AclRead /\ SetRead /\ ForeignRulesPreserved

-----------------------------------------------------------------------------
\* Rules are never forgotten: the sets that were created stay named.
LEMMA RulesGrow ==
  ASSUME created \in Nat, created' \in Nat, created' >= created
  PROVE  Rules \subseteq Rules'
  BY DEF Rules, AllowRule

\* A job keeps its type when sets are created.
LEMMA JobTypeGrows ==
  ASSUME TypeOK, created' \in Nat, created' >= created
  PROVE  job \in [Jobs -> JobType']
<1>1. Rules \subseteq Rules'
  BY RulesGrow DEF TypeOK
<1>2. 0..created \subseteq 0..created'
  BY DEF TypeOK
<1> QED BY <1>1, <1>2 DEF TypeOK, JobType, Steps

LEMMA GotoType ==
  ASSUME TypeOK, NEW j \in Jobs, NEW step \in Steps, Goto(j, step),
         created' \in Nat, created' >= created
  PROVE  job' \in [Jobs -> JobType']
<1>1. job \in [Jobs -> JobType']
  BY JobTypeGrows
<1>2. LockRetries \in 0..LockRetries
  BY BudgetAssumption
<1> QED BY <1>1, <1>2 DEF Goto, JobType

LEMMA RetryType ==
  ASSUME TypeOK, NEW j \in Jobs, NEW step \in Steps, Retry(j, step),
         created' = created
  PROVE  job' \in [Jobs -> JobType']
<1>1. created' \in Nat /\ created' >= created
  BY DEF TypeOK
<1>2. job \in [Jobs -> JobType']
  BY <1>1, JobTypeGrows
<1>3. CASE job[j].left > 0
  BY <1>2, <1>3, BudgetAssumption DEF Retry, JobType
<1>4. CASE ~(job[j].left > 0)
  BY <1>1, <1>4, GotoType DEF Retry, Steps, Ended
<1> QED BY <1>3, <1>4

LEMMA LandedType ==
  ASSUME TypeOK, NEW j \in Jobs, NEW next \in Steps, NEW again \in Steps,
         Landed(j, next, again), created' = created
  PROVE  job' \in [Jobs -> JobType']
<1>1. created' \in Nat /\ created' >= created
  BY DEF TypeOK
<1> QED BY <1>1, GotoType, RetryType DEF Landed, Steps, Ended

\* A set was found or created.
LEMMA FoundType ==
  ASSUME TypeOK, NEW j \in Jobs, NEW step \in Steps, NEW id \in 0..created',
         created' \in Nat, created' >= created,
         job' = [job EXCEPT ![j].at = step, ![j].left = LockRetries, ![j].id = id]
  PROVE  job' \in [Jobs -> JobType']
<1>1. job \in [Jobs -> JobType']
  BY JobTypeGrows
<1>2. LockRetries \in 0..LockRetries
  BY BudgetAssumption
<1> QED BY <1>1, <1>2 DEF JobType

\* The set or the WebACL was read.
LEMMA ReadSetType ==
  ASSUME TypeOK, NEW j \in Jobs, NEW step \in Steps, NEW addrs \in SUBSET Cidrs, NEW token \in Nat,
         created' = created,
         job' = [job EXCEPT ![j].at = step, ![j].addrs = addrs, ![j].token = token]
  PROVE  job' \in [Jobs -> JobType']
<1>1. job \in [Jobs -> JobType']
  BY JobTypeGrows DEF TypeOK
<1> QED BY <1>1 DEF JobType

LEMMA ReadAclType ==
  ASSUME TypeOK, NEW j \in Jobs, NEW step \in Steps, NEW rules \in SUBSET Rules, NEW token \in Nat,
         created' = created,
         job' = [job EXCEPT ![j].at = step, ![j].rules = rules, ![j].token = token]
  PROVE  job' \in [Jobs -> JobType']
<1>1. job \in [Jobs -> JobType']
  BY JobTypeGrows DEF TypeOK
<1>2. rules \in SUBSET Rules'
  BY DEF Rules
<1> QED BY <1>1, <1>2 DEF JobType

\* What a change of step leaves alone: only the job's own position changes.
Moved(j, targets) ==
  /\ job'[j].at \in targets
  /\ job'[j].id = job[j].id /\ job'[j].rules = job[j].rules
  /\ job'[j].addrs = job[j].addrs /\ job'[j].token = job[j].token
  /\ \A k \in Jobs \ {j} : job'[k] = job[k]

LEMMA GotoMoves ==
  ASSUME TypeOK, NEW j \in Jobs, NEW step, Goto(j, step)
  PROVE  Moved(j, {step})
  BY DEF TypeOK, Goto, Moved

LEMMA RetryMoves ==
  ASSUME TypeOK, NEW j \in Jobs, NEW step, Retry(j, step)
  PROVE  Moved(j, {step, "failed"})
  BY GotoMoves DEF TypeOK, Goto, Retry, Moved

LEMMA LandedMoves ==
  ASSUME TypeOK, NEW j \in Jobs, NEW next, NEW again, Landed(j, next, again)
  PROVE  Moved(j, {next, again, "failed"})
  BY GotoMoves, RetryMoves DEF Landed, Moved

-----------------------------------------------------------------------------
USE DEF Steps, Apply, Remove, Ended

\* A job that only changes its step keeps the invariant, if it does not enter a step
\* that writes and has a set where the step needs one.
LEMMA MoveKeeps ==
  ASSUME LockInv, NEW j \in Jobs, NEW targets, Moved(j, targets),
         job' \in [Jobs -> JobType'], UNCHANGED <<remote, outside>>,
         targets \cap {"addRule", "dropRule", "updateSet"} = {},
         \A s \in targets : /\ s \in Apply => Action[j] = "apply"
                            /\ s \in Remove => Action[j] = "remove",
         \A s \in targets : s \in {"getSet", "getAcl", "getSetToDelete", "delete"} => job[j].id # 0
  PROVE  LockInv'
<1>1. TypeOK'
  BY DEF LockInv, TypeOK, JobType, remote, outside, Rules
<1>2. OwnSteps'
  BY DEF LockInv, OwnSteps, Moved
<1>3. HasSet'
  BY DEF LockInv, HasSet, Moved
<1>4. AclRead'
  BY DEF LockInv, AclRead, Moved, remote
<1>5. SetRead'
  BY DEF LockInv, SetRead, Moved, remote, SetOf
<1>6. ForeignRulesPreserved'
  BY DEF LockInv, ForeignRulesPreserved, remote, outside
<1> QED BY <1>1, <1>2, <1>3, <1>4, <1>5, <1>6 DEF LockInv
-----------------------------------------------------------------------------
(***************************************************************************)
(* One lemma per group of actions.                                         *)
(***************************************************************************)

LEMMA ControlKeeps ==
  ASSUME LockInv, NEW j \in Jobs, Start(j) \/ ResolveWebAcl(j) \/ Fails(j)
  PROVE  LockInv'
<1> USE JobsAssumption DEF LockInv
<1>0. created' \in Nat /\ created' >= created
  BY DEF TypeOK, Start, ResolveWebAcl, Fails, remote
<1>1. CASE Start(j)
  <2>1. PICK step \in {"resolve", "skipped"} : Goto(j, step)
    BY <1>1 DEF Start
  <2>2. Moved(j, {step}) /\ job' \in [Jobs -> JobType']
    BY <1>0, <2>1, GotoMoves, GotoType
  <2> QED BY <1>1, <2>2, MoveKeeps DEF Start
<1>2. CASE ResolveWebAcl(j)
  <2>1. PICK step \in {"failed", "find", "getAclToRemove"} :
          /\ Goto(j, step)
          /\ step = "find" => Action[j] = "apply"
          /\ step = "getAclToRemove" => Action[j] = "remove"
    BY <1>2 DEF ResolveWebAcl
  <2>2. Moved(j, {step}) /\ job' \in [Jobs -> JobType']
    BY <1>0, <2>1, GotoMoves, GotoType
  <2> QED BY <1>2, <2>1, <2>2, MoveKeeps DEF ResolveWebAcl
<1>3. CASE Fails(j)
  <2>1. Goto(j, "failed") /\ UNCHANGED <<remote, outside>>
    BY <1>3 DEF Fails
  <2>2. Moved(j, {"failed"})
    BY <2>1, GotoMoves
  <2>3. job' \in [Jobs -> JobType']
    BY <1>0, <2>1, GotoType
  <2> QED BY <2>1, <2>2, <2>3, MoveKeeps
<1> QED BY <1>1, <1>2, <1>3

\* Reading the set by its name.
LEMMA FindKeeps ==
  ASSUME LockInv, NEW j \in Jobs, FindIpSet(j) \/ FindIpSetToDelete(j)
  PROVE  LockInv'
<1> USE JobsAssumption, BudgetAssumption DEF LockInv
<1>1. UNCHANGED <<remote, outside>> /\ job[j].at \in {"find", "findToDelete"}
  BY DEF FindIpSet, FindIpSetToDelete, At
<1>2. SetOf(j) \in [id : 0..created, addrs : SUBSET Cidrs, token : Nat]
  BY DEF TypeOK, SetOf, Names
<1> DEFINE Found(step) ==
      /\ job' = [job EXCEPT ![j].at = step, ![j].left = LockRetries, ![j].id = SetOf(j).id]
      /\ step \in {"getSet", "getAcl", "getSetToDelete"} => SetOf(j).id # 0
      /\ step \in {"create", "getSet", "getAcl"} => job[j].at = "find"
      /\ step = "getSetToDelete" => job[j].at = "findToDelete"
<1>3. \E step \in {"create", "getSet", "getAcl", "ok", "getSetToDelete"} : Found(step)
  <2>1. CASE FindIpSet(j)
    <3>1. CASE SetOf(j).id = 0
      BY <2>1, <3>1 DEF FindIpSet, At
    <3>2. CASE SetOf(j).id # 0 /\ AddCidrs[j] # {}
      BY <2>1, <3>2 DEF FindIpSet, At
    <3>3. CASE SetOf(j).id # 0 /\ AddCidrs[j] = {}
      BY <2>1, <3>3 DEF FindIpSet, At
    <3> QED BY <3>1, <3>2, <3>3
  <2>2. CASE FindIpSetToDelete(j)
    BY <2>2 DEF FindIpSetToDelete, At
  <2> QED BY <2>1, <2>2
<1>a. PICK step \in {"create", "getSet", "getAcl", "ok", "getSetToDelete"} : Found(step)
  BY <1>3
<1>4. job' \in [Jobs -> JobType']
  <2>1. created' \in Nat /\ created' >= created /\ SetOf(j).id \in 0..created'
    BY <1>1, <1>2 DEF TypeOK, remote
  <2>2. step \in Steps
    OBVIOUS
  <2>3. job' = [job EXCEPT ![j].at = step, ![j].left = LockRetries, ![j].id = SetOf(j).id]
    BY <1>a
  <2> QED BY <2>1, <2>2, <2>3, FoundType
<1>5. /\ job'[j].at = step /\ job'[j].id = SetOf(j).id
      /\ \A k \in Jobs \ {j} : job'[k] = job[k]
  BY <1>a DEF TypeOK
<1>6. TypeOK'
  BY <1>1, <1>4 DEF TypeOK, JobType, remote, outside, Rules
<1>7. OwnSteps' /\ HasSet'
  BY <1>1, <1>a, <1>5 DEF OwnSteps, HasSet
<1>8. AclRead' /\ SetRead' /\ ForeignRulesPreserved'
  BY <1>1, <1>5 DEF AclRead, SetRead, ForeignRulesPreserved, remote, outside, SetOf
<1> QED BY <1>6, <1>7, <1>8

\* Creating the set: its identity is one that no rule and no other job knows.
LEMMA CreateKeeps ==
  ASSUME LockInv, NEW j \in Jobs, CreateIpSet(j)
  PROVE  LockInv'
<1> USE JobsAssumption, BudgetAssumption DEF LockInv
<1>1. UNCHANGED outside /\ job[j].at = "create" /\ Action[j] = "apply" /\ UNCHANGED acl
  BY DEF CreateIpSet, At, OwnSteps, remote
<1>2. CASE Goto(j, "failed") /\ UNCHANGED remote
  <2>1. Moved(j, {"failed"})
    BY <1>2, GotoMoves
  <2>2. created' \in Nat /\ created' >= created
    BY <1>2 DEF TypeOK, remote
  <2>3. job' \in [Jobs -> JobType']
    BY <1>2, <2>2, GotoType
  <2> QED BY <1>1, <1>2, <2>1, <2>3, MoveKeeps
<1>3. ASSUME created' = created + 1,
             ipSets' = [ipSets EXCEPT ![IpSetName[j]] =
                          [id |-> created', addrs |-> AddCidrs[j], token |-> 0]],
             \/ job' = [job EXCEPT ![j].at = "getAcl", ![j].left = LockRetries, ![j].id = created']
             \/ Goto(j, "failed")
      PROVE  LockInv'
  <2>1. created' \in Nat /\ created' >= created /\ created' # 0
    BY <1>3 DEF TypeOK
  <2>2. job' \in [Jobs -> JobType']
    <3>1. CASE Goto(j, "failed")
      BY <2>1, <3>1, GotoType
    <3>2. CASE job' = [job EXCEPT ![j].at = "getAcl", ![j].left = LockRetries, ![j].id = created']
      <4>1. created' \in 0..created'
        BY <2>1
      <4> QED BY <2>1, <3>2, <4>1, FoundType
    <3> QED BY <1>3, <3>1, <3>2
  <2>3. /\ job'[j].at \in {"getAcl", "failed"}
        /\ job'[j].at = "getAcl" => job'[j].id = created'
        /\ \A k \in Jobs \ {j} : job'[k] = job[k]
    BY <1>3 DEF TypeOK, Goto
  <2>4. TypeOK'
    <3>1. acl' \in [rules : SUBSET Rules', token : Nat]
      BY <1>1, <2>1, RulesGrow DEF TypeOK
    <3>2. AddCidrs[j] \in SUBSET Cidrs /\ IpSetName[j] \in Names
      BY DEF Cidrs, Names
    <3>3. ipSets \in [Names -> [id : 0..created', addrs : SUBSET Cidrs, token : Nat]]
      BY <2>1 DEF TypeOK
    <3>4. ipSets' \in [Names -> [id : 0..created', addrs : SUBSET Cidrs, token : Nat]]
      BY <1>3, <2>1, <3>2, <3>3
    <3> QED BY <1>1, <2>1, <2>2, <3>1, <3>4 DEF TypeOK, JobType, outside
  <2>5. OwnSteps' /\ HasSet'
    BY <1>1, <2>1, <2>3 DEF OwnSteps, HasSet
  <2>6. AclRead' /\ ForeignRulesPreserved'
    BY <1>1, <2>3 DEF AclRead, ForeignRulesPreserved, outside
  <2>7. SetRead'
    <3> SUFFICES ASSUME NEW k \in Jobs, job'[k].at = "updateSet", SetOf(k)'.id = job'[k].id
                 PROVE  \/ job'[k].token < SetOf(k)'.token
                        \/ job'[k].token = SetOf(k)'.token /\ job'[k].addrs = SetOf(k)'.addrs
      BY DEF SetRead
    <3>1. k # j /\ job'[k] = job[k] /\ job[k].id \in 0..created
      BY <2>3 DEF TypeOK
    <3>2. IpSetName[k] # IpSetName[j]
      BY <1>3, <3>1 DEF TypeOK, SetOf, Names
    <3>3. SetOf(k)' = SetOf(k)
      BY <1>3, <3>2 DEF TypeOK, SetOf
    <3> QED BY <3>1, <3>3 DEF SetRead
  <2> QED BY <2>4, <2>5, <2>6, <2>7
<1> QED BY <1>2, <1>3 DEF CreateIpSet

\* A job that goes back, on or fails while nothing is written.
LEMMA QuietKeeps ==
  ASSUME LockInv, NEW j \in Jobs, UNCHANGED <<remote, outside>>,
         NEW step \in Steps \ {"addRule", "dropRule", "updateSet"},
         Goto(j, step) \/ Retry(j, step),
         step \in Apply => Action[j] = "apply",
         step \in Remove => Action[j] = "remove",
         step \in {"getSet", "getAcl", "getSetToDelete", "delete"} => job[j].id # 0
  PROVE  LockInv'
<1>1. TypeOK /\ created' = created /\ created' \in Nat /\ created' >= created
  BY DEF LockInv, TypeOK, remote
<1>2. CASE Goto(j, step)
  <2>1. Moved(j, {step})
    BY <1>1, <1>2, GotoMoves
  <2>2. job' \in [Jobs -> JobType']
    BY <1>1, <1>2, GotoType
  <2> QED BY <2>1, <2>2, MoveKeeps
<1>3. CASE Retry(j, step)
  <2>1. Moved(j, {step, "failed"})
    BY <1>1, <1>3, RetryMoves
  <2>2. job' \in [Jobs -> JobType']
    BY <1>1, <1>3, RetryType
  <2> QED BY <2>1, <2>2, MoveKeeps
<1> QED BY <1>2, <1>3

\* Reading the addresses of the set.
LEMMA GetSetKeeps ==
  ASSUME LockInv, NEW j \in Jobs, GetIpSet(j)
  PROVE  LockInv'
<1> USE JobsAssumption, BudgetAssumption DEF LockInv
<1>1. /\ UNCHANGED <<remote, outside>> /\ job[j].at = "getSet" /\ Action[j] = "apply"
      /\ job[j].id # 0
  BY DEF GetIpSet, At, OwnSteps, HasSet
<1>2. CASE Goto(j, "failed")
  BY <1>1, <1>2, QuietKeeps
<1>3. CASE Goto(j, "getAcl")
  BY <1>1, <1>3, QuietKeeps
<1>4. CASE job' = [job EXCEPT ![j].at = "updateSet", ![j].addrs = SetOf(j).addrs,
                              ![j].token = SetOf(j).token]
  <2>1. SetOf(j) \in [id : 0..created, addrs : SUBSET Cidrs, token : Nat]
    BY DEF TypeOK, SetOf, Names
  <2>2. created' = created /\ SetOf(j).addrs \in SUBSET Cidrs /\ SetOf(j).token \in Nat
    BY <1>1, <2>1 DEF remote
  <2>3. job' \in [Jobs -> JobType']
    BY <1>4, <2>2, ReadSetType
  <2>4. /\ job'[j].at = "updateSet" /\ job'[j].id = job[j].id
        /\ job'[j].addrs = SetOf(j).addrs /\ job'[j].token = SetOf(j).token
        /\ \A k \in Jobs \ {j} : job'[k] = job[k]
    BY <1>4 DEF TypeOK
  <2>5. TypeOK'
    BY <1>1, <2>3 DEF TypeOK, JobType, remote, outside, Rules
  <2>6. OwnSteps' /\ HasSet'
    BY <1>1, <2>4 DEF OwnSteps, HasSet
  <2>7. AclRead' /\ SetRead' /\ ForeignRulesPreserved'
    BY <1>1, <2>4 DEF AclRead, SetRead, ForeignRulesPreserved, remote, outside, SetOf
  <2> QED BY <2>5, <2>6, <2>7
<1> QED BY <1>2, <1>3, <1>4 DEF GetIpSet

\* Writing the set, or deleting it: the new token makes every older read of it stale.
LEMMA WriteSetKeeps ==
  ASSUME LockInv, NEW j \in Jobs, NEW new \in [id : 0..created, addrs : SUBSET Cidrs, token : Nat],
         ipSets' = [ipSets EXCEPT ![IpSetName[j]] = new],
         new.id = 0 \/ (new.id = SetOf(j).id /\ new.token = SetOf(j).token + 1),
         NEW next \in Steps, NEW again \in Steps, Landed(j, next, again),
         {next, again} \cap {"addRule", "dropRule", "updateSet", "create"} = {},
         job[j].id # 0,
         \A s \in {next, again} : /\ s \in Apply => Action[j] = "apply"
                                  /\ s \in Remove => Action[j] = "remove",
         UNCHANGED <<acl, created, outside>>
  PROVE  LockInv'
<1> USE JobsAssumption, BudgetAssumption DEF LockInv
<1>1. Moved(j, {next, again, "failed"})
  BY LandedMoves
<1>2. job' \in [Jobs -> JobType']
  BY LandedType
<1>3. TypeOK'
  <2>1. ipSets' \in [Names -> [id : 0..created', addrs : SUBSET Cidrs, token : Nat]]
    BY DEF TypeOK
  <2>2. acl' \in [rules : SUBSET Rules', token : Nat]
    BY DEF TypeOK, Rules
  <2> QED BY <1>2, <2>1, <2>2 DEF TypeOK, JobType, outside
<1>4. OwnSteps' /\ HasSet'
  <2>1. \A k \in Jobs \ {j} : job'[k] = job[k]
    BY <1>1 DEF Moved
  <2>2. job'[j].id = job[j].id /\ job'[j].at \in {next, again, "failed"}
    BY <1>1 DEF Moved
  <2>3. OwnSteps'
    <3>1. /\ job'[j].at \in Apply => Action[j] = "apply"
          /\ job'[j].at \in Remove => Action[j] = "remove"
      BY <2>2
    <3> QED BY <2>1, <3>1 DEF OwnSteps
  <2>4. HasSet'
    BY <2>1, <2>2 DEF HasSet
  <2> QED BY <2>3, <2>4
<1>5. AclRead' /\ ForeignRulesPreserved'
  BY <1>1 DEF AclRead, ForeignRulesPreserved, Moved, outside
<1>6. SetRead'
  <2> SUFFICES ASSUME NEW k \in Jobs, job'[k].at = "updateSet", SetOf(k)'.id = job'[k].id
               PROVE  \/ job'[k].token < SetOf(k)'.token
                      \/ job'[k].token = SetOf(k)'.token /\ job'[k].addrs = SetOf(k)'.addrs
    BY DEF SetRead
  <2>1. k # j /\ job'[k] = job[k] /\ job[k].id # 0 /\ job[k].token \in Nat
    BY <1>1 DEF Moved, TypeOK, HasSet
  <2>2. CASE IpSetName[k] # IpSetName[j]
    <3>1. SetOf(k)' = SetOf(k)
      BY <2>2 DEF TypeOK, SetOf
    <3> QED BY <2>1, <3>1 DEF SetRead
  <2>3. CASE IpSetName[k] = IpSetName[j]
    <3>1. SetOf(k)' = new /\ SetOf(k) = SetOf(j)
      BY <2>3 DEF TypeOK, SetOf, Names
    <3>2. SetOf(k).id = job[k].id /\ new.token = SetOf(k).token + 1 /\ SetOf(k).token \in Nat
      BY <2>1, <3>1 DEF TypeOK, SetOf, Names
    <3>3. job[k].token <= SetOf(k).token
      BY <2>1, <3>2 DEF SetRead
    <3> QED BY <2>1, <3>1, <3>2, <3>3
  <2> QED BY <2>2, <2>3
<1> QED BY <1>3, <1>4, <1>5, <1>6

LEMMA UpdateSetKeeps ==
  ASSUME LockInv, NEW j \in Jobs, UpdateIpSet(j)
  PROVE  LockInv'
<1> USE JobsAssumption, BudgetAssumption DEF LockInv
<1>1. /\ UNCHANGED <<acl, created, outside>> /\ job[j].at = "updateSet" /\ Action[j] = "apply"
      /\ job[j].id # 0
  BY DEF UpdateIpSet, At, OwnSteps, HasSet
<1>2. CASE UNCHANGED ipSets /\ (Goto(j, "failed") \/ Retry(j, "getSet"))
  <2>1. UNCHANGED <<remote, outside>>
    BY <1>1, <1>2 DEF remote
  <2> QED BY <1>1, <1>2, <2>1, QuietKeeps
<1>3. ASSUME SetOf(j).id = job[j].id, SetOf(j).token = job[j].token,
             ipSets' = [ipSets EXCEPT ![IpSetName[j]] =
               [id |-> job[j].id, addrs |-> job[j].addrs \cup AddCidrs[j],
                token |-> SetOf(j).token + 1]],
             Landed(j, "getAcl", "getSet")
      PROVE  LockInv'
  <2> DEFINE new == [id |-> job[j].id, addrs |-> job[j].addrs \cup AddCidrs[j],
                     token |-> SetOf(j).token + 1]
  <2>1. new \in [id : 0..created, addrs : SUBSET Cidrs, token : Nat]
    <3>1. AddCidrs[j] \in SUBSET Cidrs
      BY DEF Cidrs
    <3>2. /\ job[j].addrs \in SUBSET Cidrs /\ job[j].id \in 0..created
          /\ SetOf(j).token + 1 \in Nat
      BY <1>3 DEF TypeOK
    <3> QED BY <3>1, <3>2
  <2>2. new.id = SetOf(j).id /\ new.token = SetOf(j).token + 1
    BY <1>3
  <2>3. ipSets' = [ipSets EXCEPT ![IpSetName[j]] = new]
    BY <1>3
  <2> HIDE DEF new
  <2> QED BY <1>1, <1>3, <2>1, <2>2, <2>3, WriteSetKeeps
<1> QED BY <1>2, <1>3 DEF UpdateIpSet

\* Reading the WebACL.
LEMMA GetAclKeeps ==
  ASSUME LockInv, NEW j \in Jobs, GetWebAcl(j) \/ GetWebAclToRemove(j)
  PROVE  LockInv'
<1> USE JobsAssumption, BudgetAssumption DEF LockInv
<1>1. /\ UNCHANGED <<remote, outside>>
      /\ \/ job[j].at = "getAcl" /\ Action[j] = "apply" /\ job[j].id # 0
         \/ job[j].at = "getAclToRemove" /\ Action[j] = "remove"
  BY DEF GetWebAcl, GetWebAclToRemove, At, OwnSteps, HasSet
<1>2. \/ Goto(j, "failed") \/ Goto(j, "ok")
      \/ Goto(j, "findToDelete") /\ Action[j] = "remove"
      \/ \E step \in {"addRule", "dropRule"} :
           /\ job' = [job EXCEPT ![j].at = step, ![j].rules = acl.rules, ![j].token = acl.token]
           /\ IF step = "addRule" THEN Action[j] = "apply" /\ job[j].id # 0 ELSE Action[j] = "remove"
  BY <1>1 DEF GetWebAcl, GetWebAclToRemove, At
<1>3. CASE Goto(j, "failed")
  BY <1>1, <1>3, QuietKeeps
<1>4. CASE Goto(j, "ok")
  BY <1>1, <1>4, QuietKeeps
<1>5. CASE Goto(j, "findToDelete") /\ Action[j] = "remove"
  BY <1>1, <1>5, QuietKeeps
<1>6. ASSUME NEW step \in {"addRule", "dropRule"},
             job' = [job EXCEPT ![j].at = step, ![j].rules = acl.rules, ![j].token = acl.token],
             IF step = "addRule" THEN Action[j] = "apply" /\ job[j].id # 0 ELSE Action[j] = "remove"
      PROVE  LockInv'
  <2>1. created' = created /\ acl.rules \in SUBSET Rules /\ acl.token \in Nat /\ step \in Steps
    BY <1>1 DEF TypeOK, remote
  <2>2. job' \in [Jobs -> JobType']
    BY <1>6, <2>1, ReadAclType
  <2>3. /\ job'[j].at = step /\ job'[j].id = job[j].id
        /\ job'[j].rules = acl.rules /\ job'[j].token = acl.token
        /\ \A k \in Jobs \ {j} : job'[k] = job[k]
    BY <1>6 DEF TypeOK
  <2>4. TypeOK'
    BY <1>1, <2>2 DEF TypeOK, JobType, remote, outside, Rules
  <2>5. OwnSteps' /\ HasSet'
    BY <1>6, <2>3 DEF OwnSteps, HasSet
  <2>6. AclRead' /\ SetRead' /\ ForeignRulesPreserved'
    BY <1>1, <2>3 DEF AclRead, SetRead, ForeignRulesPreserved, remote, outside, SetOf
  <2> QED BY <2>4, <2>5, <2>6
<1> QED BY <1>2, <1>3, <1>4, <1>5, <1>6

\* Writing the WebACL: the new token makes every older read of it stale.
LEMMA WriteAclKeeps ==
  ASSUME LockInv, NEW j \in Jobs, NEW rules \in SUBSET Rules,
         acl' = [rules |-> rules, token |-> acl.token + 1],
         {r \in rules : ~IsAllowRule(r)} = {r \in acl.rules : ~IsAllowRule(r)},
         NEW next \in Steps, NEW again \in Steps, Landed(j, next, again),
         {next, again} \cap {"addRule", "dropRule", "updateSet"} = {},
         \A s \in {next, again} : s \in {"getSet", "getAcl", "getSetToDelete", "delete"} => job[j].id # 0,
         \A s \in {next, again} : /\ s \in Apply => Action[j] = "apply"
                                  /\ s \in Remove => Action[j] = "remove",
         UNCHANGED <<ipSets, created, outside>>
  PROVE  LockInv'
<1> USE JobsAssumption, BudgetAssumption DEF LockInv
<1>1. Moved(j, {next, again, "failed"})
  BY LandedMoves
<1>2. job' \in [Jobs -> JobType']
  BY LandedType
<1>3. /\ \A k \in Jobs \ {j} : job'[k] = job[k]
      /\ job'[j].id = job[j].id /\ job'[j].at \in {next, again, "failed"}
  BY <1>1 DEF Moved
<1>4. TypeOK'
  <2>1. acl' \in [rules : SUBSET Rules', token : Nat]
    BY DEF TypeOK, Rules
  <2> QED BY <1>2, <2>1 DEF TypeOK, JobType, outside
<1>5. OwnSteps'
  <2>1. /\ job'[j].at \in Apply => Action[j] = "apply"
        /\ job'[j].at \in Remove => Action[j] = "remove"
    BY <1>3
  <2> QED BY <1>3, <2>1 DEF OwnSteps
<1>6. HasSet'
  BY <1>3 DEF HasSet
<1>7. AclRead'
  <2> SUFFICES ASSUME NEW k \in Jobs, job'[k].at \in {"addRule", "dropRule"}
               PROVE  job'[k].token < acl'.token
    BY DEF AclRead
  <2>1. job'[k] = job[k] /\ job[k].token \in Nat /\ acl.token \in Nat
    BY <1>3 DEF TypeOK
  <2>2. job[k].token <= acl.token
    BY <2>1 DEF AclRead
  <2> QED BY <2>1, <2>2
<1>8. SetRead'
  BY <1>3 DEF SetRead, SetOf
<1>9. ForeignRulesPreserved'
  BY DEF ForeignRulesPreserved, outside
<1> QED BY <1>4, <1>5, <1>6, <1>7, <1>8, <1>9

LEMMA AddRuleKeeps ==
  ASSUME LockInv, NEW j \in Jobs, AddAllowRule(j)
  PROVE  LockInv'
<1> USE JobsAssumption, BudgetAssumption DEF LockInv
<1>1. /\ UNCHANGED <<ipSets, created, outside>> /\ job[j].at = "addRule" /\ Action[j] = "apply"
      /\ job[j].id # 0
  BY DEF AddAllowRule, At, OwnSteps, HasSet
<1>2. CASE UNCHANGED acl /\ (Goto(j, "failed") \/ Retry(j, "getAcl"))
  <2>1. UNCHANGED <<remote, outside>>
    BY <1>1, <1>2 DEF remote
  <2> QED BY <1>1, <1>2, <2>1, QuietKeeps
<1>3. ASSUME acl.token = job[j].token,
             acl' = [rules |-> job[j].rules \cup {AllowRule(job[j].id)}, token |-> acl.token + 1],
             Landed(j, "ok", "getAcl")
      PROVE  LockInv'
  <2>1. job[j].rules = acl.rules
    BY <1>1, <1>3 DEF AclRead, TypeOK
  <2>2. job[j].id \in 1..created /\ acl.rules \in SUBSET Rules
    BY <1>1 DEF TypeOK
  <2>3. acl.rules \cup {AllowRule(job[j].id)} \in SUBSET Rules
    BY <2>2 DEF Rules
  <2>4. {r \in acl.rules \cup {AllowRule(job[j].id)} : ~IsAllowRule(r)} = {r \in acl.rules : ~IsAllowRule(r)}
    BY DEF AllowRule, IsAllowRule
  <2>5. acl' = [rules |-> acl.rules \cup {AllowRule(job[j].id)}, token |-> acl.token + 1]
    BY <1>3, <2>1
  <2> QED BY <1>1, <1>3, <2>3, <2>4, <2>5, WriteAclKeeps
<1> QED BY <1>2, <1>3 DEF AddAllowRule

LEMMA DropRuleKeeps ==
  ASSUME LockInv, NEW j \in Jobs, DropAllowRule(j)
  PROVE  LockInv'
<1> USE JobsAssumption, BudgetAssumption DEF LockInv
<1>1. /\ UNCHANGED <<ipSets, created, outside>> /\ job[j].at = "dropRule" /\ Action[j] = "remove"
  BY DEF DropAllowRule, At, OwnSteps
<1>2. CASE UNCHANGED acl /\ Retry(j, "getAclToRemove")
  <2>1. UNCHANGED <<remote, outside>>
    BY <1>1, <1>2 DEF remote
  <2> QED BY <1>1, <1>2, <2>1, QuietKeeps
<1>3. ASSUME acl.token = job[j].token,
             acl' = [rules |-> {r \in job[j].rules : ~IsAllowRule(r)}, token |-> acl.token + 1],
             Landed(j, "findToDelete", "getAclToRemove")
      PROVE  LockInv'
  <2> DEFINE rules == {r \in acl.rules : ~IsAllowRule(r)}
  <2>1. job[j].rules = acl.rules
    BY <1>1, <1>3 DEF AclRead, TypeOK
  <2>2. rules \in SUBSET Rules
    BY DEF TypeOK
  <2>3. {r \in rules : ~IsAllowRule(r)} = {r \in acl.rules : ~IsAllowRule(r)}
    OBVIOUS
  <2>4. acl' = [rules |-> rules, token |-> acl.token + 1]
    BY <1>3, <2>1
  <2> HIDE DEF rules
  <2> QED BY <1>1, <1>3, <2>2, <2>3, <2>4, WriteAclKeeps DEF rules
<1> QED BY <1>2, <1>3 DEF DropAllowRule

\* Deleting the set.
LEMMA DeleteKeeps ==
  ASSUME LockInv, NEW j \in Jobs, GetIpSetToDelete(j) \/ DeleteIpSet(j)
  PROVE  LockInv'
<1> USE JobsAssumption, BudgetAssumption DEF LockInv
<1>1. /\ UNCHANGED <<acl, created, outside>> /\ job[j].at \in {"getSetToDelete", "delete"}
      /\ Action[j] = "remove" /\ job[j].id # 0
  BY DEF GetIpSetToDelete, DeleteIpSet, At, OwnSteps, HasSet, remote
<1>2. CASE UNCHANGED ipSets /\ (Goto(j, "failed") \/ Goto(j, "ok") \/ Retry(j, "getSetToDelete"))
  <2>1. UNCHANGED <<remote, outside>>
    BY <1>1, <1>2 DEF remote
  <2>2. CASE Goto(j, "failed")
    BY <1>1, <2>1, <2>2, QuietKeeps
  <2>3. CASE Goto(j, "ok")
    BY <1>1, <2>1, <2>3, QuietKeeps
  <2>4. CASE Retry(j, "getSetToDelete")
    BY <1>1, <2>1, <2>4, QuietKeeps
  <2> QED BY <1>2, <2>2, <2>3, <2>4
<1>3. CASE UNCHANGED ipSets /\ job' = [job EXCEPT ![j].at = "delete", ![j].token = SetOf(j).token]
  <2>1. SetOf(j).token \in Nat
    BY DEF TypeOK, SetOf, Names
  <2>2. job' = [job EXCEPT ![j].at = "delete", ![j].addrs = job[j].addrs, ![j].token = SetOf(j).token]
    BY <1>3 DEF TypeOK
  <2>3. job[j].addrs \in SUBSET Cidrs
    BY DEF TypeOK
  <2>4. job' \in [Jobs -> JobType']
    BY <1>1, <2>1, <2>2, <2>3, ReadSetType
  <2>5. /\ job'[j].at = "delete" /\ job'[j].id = job[j].id
        /\ \A k \in Jobs \ {j} : job'[k] = job[k]
    BY <1>3 DEF TypeOK
  <2>6. TypeOK'
    BY <1>1, <1>3, <2>4 DEF TypeOK, JobType, remote, outside, Rules
  <2>7. OwnSteps' /\ HasSet'
    BY <1>1, <2>5 DEF OwnSteps, HasSet
  <2>8. AclRead' /\ SetRead' /\ ForeignRulesPreserved'
    BY <1>1, <1>3, <2>5 DEF AclRead, SetRead, ForeignRulesPreserved, outside, SetOf
  <2> QED BY <2>6, <2>7, <2>8
<1>4. CASE ipSets' = [ipSets EXCEPT ![IpSetName[j]] = NoSet] /\ Landed(j, "ok", "getSetToDelete")
  <2>1. NoSet \in [id : 0..created, addrs : SUBSET Cidrs, token : Nat] /\ NoSet.id = 0
    BY DEF TypeOK, NoSet
  <2> QED BY <1>1, <1>4, <2>1, WriteSetKeeps
<1> QED BY <1>2, <1>3, <1>4 DEF GetIpSetToDelete, DeleteIpSet, remote

LEMMA ForeignEditKeeps ==
  ASSUME LockInv, ForeignEdit
  PROVE  LockInv'
<1> USE JobsAssumption, BudgetAssumption DEF LockInv
<1> DEFINE ours == {r \in acl.rules : IsAllowRule(r)}
<1>1. /\ UNCHANGED <<deployed, ipSets, created, job>> /\ foreign' \in SUBSET Foreign
      /\ edits' \in 0..MaxEdits
      /\ acl' = [rules |-> foreign' \cup ours, token |-> acl.token + 1]
  BY DEF ForeignEdit, TypeOK
<1>2. TypeOK'
  <2>1. acl' \in [rules : SUBSET Rules', token : Nat]
    BY <1>1 DEF TypeOK, Rules
  <2> QED BY <1>1, <2>1 DEF TypeOK, Rules
<1>3. OwnSteps' /\ HasSet' /\ SetRead'
  BY <1>1 DEF OwnSteps, HasSet, SetRead, SetOf
<1>4. AclRead'
  BY <1>1 DEF AclRead, TypeOK
<1>5. ForeignRulesPreserved'
  BY <1>1, ForeignAssumption DEF ForeignRulesPreserved
<1> QED BY <1>2, <1>3, <1>4, <1>5

-----------------------------------------------------------------------------
LEMMA LockInvHolds == Spec => []LockInv
<1>1. Init => LockInv
  <2> SUFFICES ASSUME Init PROVE LockInv
    OBVIOUS
  <2>1. \A j \in Jobs : job[j] = NotStarted
    BY DEF Init
  <2>2. foreign \in SUBSET Foreign /\ created \in {0, 1} /\ edits \in 0..MaxEdits /\ deployed \in BOOLEAN
    BY BudgetAssumption DEF Init
  <2>3. \E ours \in SUBSET {AllowRule(arn) : arn \in 1..created} :
          acl = [rules |-> foreign \cup ours, token |-> 0]
    <3>1. CASE created = 0 /\ acl = [rules |-> foreign, token |-> 0]
      <4>1. {} \in SUBSET {AllowRule(arn) : arn \in 1..created} /\ foreign \cup {} = foreign
        OBVIOUS
      <4> QED BY <3>1, <4>1
    <3>2. CASE created = 1 /\ \E ours \in SUBSET {AllowRule(1)} : acl = [rules |-> foreign \cup ours, token |-> 0]
      <4>1. AllowRule(1) \in {AllowRule(arn) : arn \in 1..created}
        BY <3>2
      <4> QED BY <3>2, <4>1
    <3> QED BY <3>1, <3>2 DEF Init
  <2>4. acl \in [rules : SUBSET Rules, token : Nat]
    BY <2>2, <2>3 DEF Rules
  <2>5. ipSets \in [Names -> [id : 0..created, addrs : SUBSET Cidrs, token : Nat]]
    <3>1. CASE created = 0 /\ ipSets = [n \in Names |-> NoSet]
      BY <3>1 DEF NoSet
    <3>2. CASE /\ created = 1
               /\ \E n \in Names, addrs \in SUBSET Cidrs :
                    ipSets = [m \in Names |-> IF m = n THEN [id |-> 1, addrs |-> addrs, token |-> 0] ELSE NoSet]
      <4>1. PICK n \in Names, addrs \in SUBSET Cidrs :
               ipSets = [m \in Names |-> IF m = n THEN [id |-> 1, addrs |-> addrs, token |-> 0] ELSE NoSet]
        BY <3>2
      <4>2. /\ [id |-> 1, addrs |-> addrs, token |-> 0] \in [id : 0..created, addrs : SUBSET Cidrs, token : Nat]
            /\ NoSet \in [id : 0..created, addrs : SUBSET Cidrs, token : Nat]
        BY <3>2 DEF NoSet
      <4> QED BY <4>1, <4>2
    <3> QED BY <3>1, <3>2 DEF Init
  <2>6. job \in [Jobs -> JobType]
    BY BudgetAssumption, <2>2 DEF Init, NotStarted, JobType
  <2>7. TypeOK
    BY <2>2, <2>4, <2>5, <2>6 DEF TypeOK, JobType
  <2>8. OwnSteps /\ HasSet /\ AclRead /\ SetRead
    BY <2>1 DEF OwnSteps, HasSet, AclRead, SetRead, NotStarted
  <2>9. ForeignRulesPreserved
    BY <2>2, <2>3, ForeignAssumption DEF ForeignRulesPreserved, IsAllowRule, AllowRule
  <2> QED BY <2>7, <2>8, <2>9 DEF LockInv
<1>2. LockInv /\ [Next]_vars => LockInv'
  <2> SUFFICES ASSUME LockInv, [Next]_vars PROVE LockInv'
    OBVIOUS
  <2>1. CASE ForeignEdit
    BY <2>1, ForeignEditKeeps
  <2>2. ASSUME NEW j \in Jobs, Step(j) \/ Fails(j)
        PROVE  LockInv'
    <3>1. CASE Start(j) \/ ResolveWebAcl(j) \/ Fails(j)
      BY <3>1, ControlKeeps
    <3>2. CASE FindIpSet(j) \/ FindIpSetToDelete(j)
      BY <3>2, FindKeeps
    <3>3. CASE CreateIpSet(j)
      BY <3>3, CreateKeeps
    <3>4. CASE GetIpSet(j)
      BY <3>4, GetSetKeeps
    <3>5. CASE UpdateIpSet(j)
      BY <3>5, UpdateSetKeeps
    <3>6. CASE GetWebAcl(j) \/ GetWebAclToRemove(j)
      BY <3>6, GetAclKeeps
    <3>7. CASE AddAllowRule(j)
      BY <3>7, AddRuleKeeps
    <3>8. CASE DropAllowRule(j)
      BY <3>8, DropRuleKeeps
    <3>9. CASE GetIpSetToDelete(j) \/ DeleteIpSet(j)
      BY <3>9, DeleteKeeps
    <3> QED BY <2>2, <3>1, <3>2, <3>3, <3>4, <3>5, <3>6, <3>7, <3>8, <3>9 DEF Step
  <2>3. CASE UNCHANGED vars
    <3>1. UNCHANGED <<deployed, acl, ipSets, created, foreign, edits, job>>
      BY <2>3 DEF vars
    <3> QED BY <3>1 DEF LockInv, TypeOK, Rules, OwnSteps, HasSet, AclRead, SetRead, SetOf, ForeignRulesPreserved
  <2> QED BY <2>1, <2>2, <2>3 DEF Next
<1> QED BY <1>1, <1>2, PTL DEF Spec

\* The WebACL, the sets and what every job holds keep their types; a rule names only a
\* set that was created.
THEOREM TypeCorrect == Spec => []TypeOK
<1>1. LockInv => TypeOK
  BY DEF LockInv
<1> QED BY <1>1, LockInvHolds, PTL

\* The WebACL round-trip: whatever the jobs do, lose or retry, the rules of others are
\* exactly as their owners left them, for any number of jobs and of edits.
THEOREM OthersRulesStay == Spec => []ForeignRulesPreserved
<1>1. LockInv => ForeignRulesPreserved
  BY DEF LockInv
<1> QED BY <1>1, LockInvHolds, PTL

-----------------------------------------------------------------------------
(***************************************************************************)
(* The cleanup.  Once it runs every other job has ended, so what it read   *)
(* stays true; ended jobs take no more steps.                              *)
(***************************************************************************)

LEMMA OthersStay ==
  ASSUME TypeOK, NEW j \in Jobs, Step(j) \/ Fails(j)
  PROVE  job[j].at \notin Ended /\ \A k \in Jobs \ {j} : job'[k] = job[k]
<1> USE DEF At
<1> DEFINE Mine == \A k \in Jobs \ {j} : job'[k] = job[k]
<1>1. ASSUME NEW step, Goto(j, step) PROVE Mine
  BY <1>1, GotoMoves DEF Moved
<1>2. ASSUME NEW step, Retry(j, step) PROVE Mine
  BY <1>2, RetryMoves DEF Moved
<1>3. ASSUME NEW next, NEW again, Landed(j, next, again) PROVE Mine
  BY <1>3, LandedMoves DEF Moved
<1>4. CASE Start(j) \/ ResolveWebAcl(j) \/ Fails(j)
  BY <1>1, <1>4 DEF Start, ResolveWebAcl, Fails
<1>5. CASE FindIpSet(j) \/ FindIpSetToDelete(j)
  BY <1>5 DEF FindIpSet, FindIpSetToDelete, TypeOK
<1>6. CASE CreateIpSet(j)
  BY <1>1, <1>6 DEF CreateIpSet, TypeOK
<1>7. CASE GetIpSet(j) \/ GetIpSetToDelete(j)
  BY <1>1, <1>7 DEF GetIpSet, GetIpSetToDelete, TypeOK
<1>8. CASE UpdateIpSet(j) \/ AddAllowRule(j) \/ DropAllowRule(j) \/ DeleteIpSet(j)
  BY <1>1, <1>2, <1>3, <1>8 DEF UpdateIpSet, AddAllowRule, DropAllowRule, DeleteIpSet
<1>9. CASE GetWebAcl(j) \/ GetWebAclToRemove(j)
  BY <1>1, <1>9 DEF GetWebAcl, GetWebAclToRemove, TypeOK
<1> QED BY <1>4, <1>5, <1>6, <1>7, <1>8, <1>9 DEF Step

\* The cleanup that waited for every other job, once it runs.
Last(j) ==
  Action[j] = "remove" /\ Needs[j] = Jobs \ {j} /\ job[j].at \notin {"waiting", "skipped"}

NoAllowRule == \A r \in acl.rules : ~IsAllowRule(r)

\* A name without a set has nothing.
NoIdNoSet == \A n \in Names : ipSets[n].id = 0 => ipSets[n] = NoSet

LastAlone == \A j \in Jobs : Last(j) => \A k \in Jobs \ {j} : job[k].at \in Ended

\* How far the cleanup got.
CleanedBy(j) ==
  /\ job[j].at \in {"findToDelete", "getSetToDelete", "delete", "ok"} => NoAllowRule
  /\ job[j].at \in {"getSetToDelete", "delete"} => SetOf(j).id \in {0, job[j].id}
  /\ job[j].at = "ok" => SetOf(j).id = 0

Cleaned == \A j \in Jobs : Last(j) => CleanedBy(j)

CleanupInv == LockInv /\ NoIdNoSet /\ LastAlone /\ Cleaned

LEMMA NoIdNoSetKept ==
  ASSUME LockInv, NoIdNoSet, [Next]_vars
  PROVE  NoIdNoSet'
<1> USE DEF LockInv, NoIdNoSet
<1>1. CASE UNCHANGED ipSets
  BY <1>1
<1>2. ASSUME NEW j \in Jobs, CreateIpSet(j) PROVE NoIdNoSet'
  BY <1>2 DEF CreateIpSet, TypeOK, remote
<1>3. ASSUME NEW j \in Jobs, UpdateIpSet(j) PROVE NoIdNoSet'
  BY <1>3 DEF UpdateIpSet, TypeOK, HasSet, At
<1>4. ASSUME NEW j \in Jobs, DeleteIpSet(j) PROVE NoIdNoSet'
  BY <1>4 DEF DeleteIpSet, TypeOK
<1>5. ASSUME NEW j \in Jobs, ~(CreateIpSet(j) \/ UpdateIpSet(j) \/ DeleteIpSet(j)), Step(j) \/ Fails(j)
      PROVE  UNCHANGED ipSets
  BY <1>5 DEF Step, Start, ResolveWebAcl, Fails, FindIpSet, GetIpSet, GetWebAcl, AddAllowRule,
              GetWebAclToRemove, DropAllowRule, FindIpSetToDelete, GetIpSetToDelete, remote
<1> QED BY <1>1, <1>2, <1>3, <1>4, <1>5 DEF Next, ForeignEdit, vars

LEMMA LastAloneKept ==
  ASSUME CleanupInv, [Next]_vars
  PROVE  LastAlone'
<1> USE DEF CleanupInv, LockInv
<1> SUFFICES ASSUME NEW i \in Jobs, Last(i)', NEW k \in Jobs \ {i}
             PROVE  job'[k].at \in Ended
  BY DEF LastAlone
<1>1. CASE UNCHANGED job
  BY <1>1 DEF Last, LastAlone
<1>2. ASSUME NEW j \in Jobs, Step(j) \/ Fails(j)
      PROVE  job'[k].at \in Ended
  <2>1. job[j].at \notin Ended /\ \A q \in Jobs \ {j} : job'[q] = job[q]
    BY <1>2, OthersStay
  <2>2. CASE j # i
    <3>1. Last(i)
      BY <2>1, <2>2 DEF Last
    <3> QED BY <2>1, <2>2, <3>1 DEF LastAlone
  <2>3. CASE j = i /\ Last(i)
    BY <2>1, <2>3 DEF LastAlone
  <2>4. CASE j = i /\ ~Last(i)
    <3>1. job[i].at = "waiting" /\ Needs[i] = Jobs \ {i}
      BY <2>1, <2>4 DEF Last
    <3>2. Start(i)
      BY <1>2, <2>4, <3>1 DEF Step, Fails, ResolveWebAcl, FindIpSet, CreateIpSet, GetIpSet, UpdateIpSet,
           GetWebAcl, AddAllowRule, GetWebAclToRemove, DropAllowRule, FindIpSetToDelete,
           GetIpSetToDelete, DeleteIpSet, At
    <3> QED BY <2>1, <2>4, <3>1, <3>2 DEF Start
  <2> QED BY <2>2, <2>3, <2>4
<1> QED BY <1>1, <1>2 DEF Next, ForeignEdit, vars

LEMMA CleanupStepKeeps ==
  ASSUME LockInv, NEW i \in Jobs, Action[i] = "remove", CleanedBy(i), Step(i) \/ Fails(i)
  PROVE  CleanedBy(i)'
<1> USE JobsAssumption DEF LockInv, CleanedBy, At
<1>0. SetOf(i) \in [id : 0..created, addrs : SUBSET Cidrs, token : Nat]
  BY DEF TypeOK, SetOf, Names
<1>1. CASE Start(i) \/ ResolveWebAcl(i) \/ Fails(i)
  <2>1. PICK step \in {"resolve", "skipped", "failed", "getAclToRemove"} : Goto(i, step)
    BY <1>1 DEF Start, ResolveWebAcl, Fails
  <2>2. job'[i].at \in {"resolve", "skipped", "failed", "getAclToRemove"}
    BY <2>1, GotoMoves DEF Moved
  <2> QED BY <2>2
<1>2. CASE GetWebAclToRemove(i)
  <2>1. UNCHANGED acl
    BY <1>2 DEF GetWebAclToRemove, remote
  <2>2. CASE \E r \in acl.rules : IsAllowRule(r)
    <3>1. job'[i].at = "dropRule"
      BY <1>2, <2>2 DEF GetWebAclToRemove, TypeOK
    <3> QED BY <3>1
  <2>3. CASE NoAllowRule
    <3>1. job'[i].at = "findToDelete"
      BY <1>2, <2>3 DEF GetWebAclToRemove, TypeOK, Goto, NoAllowRule
    <3> QED BY <2>1, <2>3, <3>1 DEF NoAllowRule
  <2> QED BY <2>2, <2>3 DEF NoAllowRule
<1>3. CASE DropAllowRule(i)
  <2>1. CASE Retry(i, "getAclToRemove")
    BY <2>1, RetryMoves DEF Moved
  <2>2. CASE /\ acl' = [rules |-> {r \in job[i].rules : ~IsAllowRule(r)}, token |-> acl.token + 1]
             /\ Landed(i, "findToDelete", "getAclToRemove")
    <3>1. NoAllowRule'
      BY <2>2 DEF NoAllowRule
    <3>2. job'[i].at \in {"findToDelete", "getAclToRemove", "failed"}
      BY <2>2, LandedMoves DEF Moved
    <3> QED BY <3>1, <3>2
  <2> QED BY <1>3, <2>1, <2>2 DEF DropAllowRule
<1>4. CASE FindIpSetToDelete(i)
  <2>1. /\ job'[i].at \in {"ok", "getSetToDelete"} /\ job'[i].id = SetOf(i).id
        /\ job'[i].at = "ok" => SetOf(i).id = 0
    BY <1>4 DEF FindIpSetToDelete, TypeOK
  <2>2. SetOf(i)' = SetOf(i) /\ acl' = acl /\ NoAllowRule
    BY <1>4 DEF FindIpSetToDelete, SetOf, remote
  <2> QED BY <2>1, <2>2 DEF NoAllowRule
<1>5. CASE GetIpSetToDelete(i)
  <2>1. /\ job'[i].at \in {"ok", "delete"} /\ job'[i].id = job[i].id
        /\ job'[i].at = "ok" => SetOf(i).id # job[i].id
    BY <1>5 DEF GetIpSetToDelete, TypeOK, Goto
  <2>2. /\ SetOf(i)' = SetOf(i) /\ acl' = acl /\ NoAllowRule
        /\ SetOf(i).id \in {0, job[i].id}
    BY <1>5 DEF GetIpSetToDelete, SetOf, remote
  <2> QED BY <2>1, <2>2 DEF NoAllowRule
<1>6. CASE DeleteIpSet(i)
  <2>1. acl' = acl /\ NoAllowRule /\ SetOf(i).id \in {0, job[i].id}
    BY <1>6 DEF DeleteIpSet
  <2>2. NoAllowRule'
    BY <2>1 DEF NoAllowRule
  <2>3. CASE UNCHANGED ipSets /\ SetOf(i).id # job[i].id /\ Goto(i, "ok")
    <3>1. SetOf(i)' = SetOf(i) /\ job'[i].at = "ok"
      BY <2>3, GotoMoves DEF SetOf, Moved
    <3> QED BY <2>1, <2>2, <2>3, <3>1
  <2>4. CASE UNCHANGED ipSets /\ (Retry(i, "getSetToDelete") \/ Goto(i, "failed"))
    <3>1. SetOf(i)' = SetOf(i) /\ job'[i].at \in {"getSetToDelete", "failed"} /\ job'[i].id = job[i].id
      BY <2>4, GotoMoves, RetryMoves DEF SetOf, Moved
    <3> QED BY <2>1, <2>2, <3>1
  <2>5. CASE ipSets' = [ipSets EXCEPT ![IpSetName[i]] = NoSet] /\ Landed(i, "ok", "getSetToDelete")
    <3>1. SetOf(i)'.id = 0
      BY <2>5 DEF SetOf, TypeOK, Names, NoSet
    <3>2. job'[i].at \in {"ok", "getSetToDelete", "failed"}
      BY <2>5, LandedMoves DEF Moved
    <3> QED BY <2>2, <3>1, <3>2
  <2> QED BY <1>6, <2>3, <2>4, <2>5 DEF DeleteIpSet
<1> QED BY <1>1, <1>2, <1>3, <1>4, <1>5, <1>6
        DEF Step, OwnSteps, FindIpSet, CreateIpSet, GetIpSet, UpdateIpSet, GetWebAcl, AddAllowRule

LEMMA CleanedKept ==
  ASSUME CleanupInv, [Next]_vars
  PROVE  Cleaned'
<1> USE DEF CleanupInv, LockInv
<1> SUFFICES ASSUME NEW i \in Jobs, Last(i)'
             PROVE  CleanedBy(i)'
  BY DEF Cleaned
<1>0. Last(i) => CleanedBy(i)
  BY DEF Cleaned
<1>1. CASE UNCHANGED vars
  BY <1>0, <1>1 DEF Last, CleanedBy, NoAllowRule, SetOf, vars
<1>2. CASE ForeignEdit
  <2>1. UNCHANGED <<ipSets, job>> /\ (NoAllowRule => NoAllowRule')
    BY <1>2, ForeignAssumption DEF ForeignEdit, NoAllowRule
  <2> QED BY <1>0, <2>1 DEF Last, CleanedBy, SetOf
<1>3. ASSUME NEW j \in Jobs, Step(j) \/ Fails(j)
      PROVE  CleanedBy(i)'
  <2>1. job[j].at \notin Ended /\ \A q \in Jobs \ {j} : job'[q] = job[q]
    BY <1>3, OthersStay
  <2>2. j = i
    <3>1. CASE Last(i)
      BY <2>1, <3>1 DEF LastAlone
    <3>2. CASE ~Last(i)
      BY <2>1, <3>2 DEF Last
    <3> QED BY <3>1, <3>2
  <2>3. CleanedBy(i) /\ Action[i] = "remove"
    BY <1>0, <2>1, <2>2 DEF Last, CleanedBy
  <2> QED BY <1>3, <2>2, <2>3, CleanupStepKeeps
<1> QED BY <1>1, <1>2, <1>3 DEF Next

\* A cleanup that exited 0 after every other job had ended leaves neither the rule nor the
\* set behind, however far each of the applies got, for any workflow and any retry budget.
THEOREM CleanupIsComplete == Spec => []RemoveLeavesNothing
<1>1. Init => NoIdNoSet /\ LastAlone /\ Cleaned
  <2>1. Init => NoIdNoSet
    BY DEF Init, NoIdNoSet
  <2>2. Init => LastAlone /\ Cleaned
    BY DEF Init, LastAlone, Cleaned, Last, NotStarted
  <2> QED BY <2>1, <2>2
<1>2. CleanupInv /\ LockInv' /\ [Next]_vars => CleanupInv'
  BY NoIdNoSetKept, LastAloneKept, CleanedKept DEF CleanupInv
<1>3. CleanupInv => RemoveLeavesNothing
  <2> SUFFICES ASSUME CleanupInv, NEW j \in Jobs, Action[j] = "remove", job[j].at = "ok", Needs[j] = Jobs \ {j}
               PROVE  NoAllowRule /\ SetOf(j) = NoSet
    BY DEF RemoveLeavesNothing, NoAllowRule, At
  <2>1. Last(j)
    BY DEF Last
  <2>2. NoAllowRule /\ SetOf(j).id = 0
    BY <2>1 DEF CleanupInv, Cleaned, CleanedBy
  <2>3. IpSetName[j] \in Names
    BY DEF Names
  <2> QED BY <2>2, <2>3 DEF CleanupInv, NoIdNoSet, SetOf
<1>4. LockInv /\ NoIdNoSet /\ LastAlone /\ Cleaned <=> CleanupInv
  BY DEF CleanupInv
<1> QED BY <1>1, <1>2, <1>3, <1>4, LockInvHolds, PTL DEF Spec

-----------------------------------------------------------------------------
(***************************************************************************)
(* Parallel shards.  As long as nothing is removed the set of the lane is  *)
(* created once and only grows, and the rule refers to it.  This needs     *)
(* every job to name the same IPSet, as the jobs of perf-test.yml do: with *)
(* two names an existing rule is kept although it refers to another set.   *)
(***************************************************************************)
OneName == \A i, j \in Jobs : IpSetName[i] = IpSetName[j]

\* The ALLOW rule refers to the set of that name.
RuleIsOurs == \A r \in acl.rules, n \in Names : IsAllowRule(r) => ipSets[n].id = r.arn

\* An apply that is through with the set finds its addresses in it; one that succeeded
\* left the rule in place.
AllowedBy(j) ==
  /\ job[j].at \in {"getAcl", "addRule", "ok"} =>
       SetOf(j).id = job[j].id /\ AddCidrs[j] \subseteq SetOf(j).addrs
  /\ job[j].at = "ok" => \E r \in acl.rules : IsAllowRule(r)

Allowed == NoRemoveYet => RuleIsOurs /\ \A j \in Jobs : Action[j] = "apply" => AllowedBy(j)

\* The set is there and is the same one, and its addresses and the rule stay.
Grown ==
  /\ \A n \in Names : ipSets[n].id # 0 =>
       ipSets'[n].id = ipSets[n].id /\ ipSets[n].addrs \subseteq ipSets'[n].addrs
  /\ \A r \in acl.rules : IsAllowRule(r) => r \in acl'.rules

\* A rule refers to some set.
LEMMA RuleArn ==
  ASSUME TypeOK, NEW r \in acl.rules, IsAllowRule(r)
  PROVE  r.arn \in 1..created
<1>1. r \in Rules
  BY DEF TypeOK
<1>2. r \notin Foreign
  BY ForeignAssumption
<1> QED BY <1>1, <1>2 DEF Rules, AllowRule

\* What grew still allows a job that took no step.
LEMMA GrownAllows ==
  ASSUME LockInv, OneName, NoRemoveYet, RuleIsOurs, Grown, NEW k \in Jobs, AllowedBy(k), job'[k] = job[k]
  PROVE  AllowedBy(k)'
<1> USE DEF LockInv
<1>1. IpSetName[k] \in Names
  BY DEF Names
<1>2. job[k].at \in {"getAcl", "addRule", "ok"} => SetOf(k).id # 0
  <2>1. CASE job[k].at \in {"getAcl", "addRule"}
    BY <2>1 DEF AllowedBy, HasSet
  <2>2. CASE job[k].at = "ok"
    <3>1. PICK r \in acl.rules : IsAllowRule(r)
      BY <2>2 DEF AllowedBy
    <3>2. r.arn \in 1..created /\ SetOf(k).id = r.arn
      BY <1>1, <3>1, RuleArn DEF RuleIsOurs, SetOf
    <3>3. created \in Nat
      BY DEF TypeOK
    <3> QED BY <3>2, <3>3
  <2> QED BY <2>1, <2>2
<1> QED BY <1>1, <1>2 DEF AllowedBy, Grown, SetOf

\* A job never goes back to waiting, and is skipped only from there.
LEMMA StepForward ==
  ASSUME TypeOK, NEW j \in Jobs, Step(j) \/ Fails(j)
  PROVE  job'[j].at # "waiting" /\ (job'[j].at = "skipped" => job[j].at = "waiting")
<1> USE DEF At
<1>1. ASSUME NEW step \in Steps \ {"waiting"}, Goto(j, step) \/ Retry(j, step)
      PROVE  job'[j].at # "waiting" /\ (job'[j].at = "skipped" => step = "skipped")
  BY <1>1, GotoMoves, RetryMoves DEF Moved
<1>2. ASSUME NEW next \in Steps \ {"waiting", "skipped"}, NEW again \in Steps \ {"waiting", "skipped"},
             Landed(j, next, again)
      PROVE  job'[j].at # "waiting" /\ job'[j].at # "skipped"
  BY <1>2, LandedMoves DEF Moved
<1>3. CASE Start(j)
  BY <1>1, <1>3 DEF Start
<1>4. CASE ResolveWebAcl(j) \/ Fails(j)
  <2>1. \E step \in {"failed", "find", "getAclToRemove"} : Goto(j, step)
    BY <1>4 DEF ResolveWebAcl, Fails
  <2> QED BY <1>1, <2>1
<1>5. CASE FindIpSet(j)
  BY <1>5 DEF FindIpSet, TypeOK
<1>6. CASE FindIpSetToDelete(j)
  BY <1>6 DEF FindIpSetToDelete, TypeOK
<1>7. CASE CreateIpSet(j)
  <2>1. CASE Goto(j, "failed")
    BY <1>1, <2>1
  <2>2. CASE job' = [job EXCEPT ![j].at = "getAcl", ![j].left = LockRetries, ![j].id = created']
    BY <2>2 DEF TypeOK
  <2> QED BY <1>7, <2>1, <2>2 DEF CreateIpSet
<1>8. CASE GetIpSet(j)
  <2>1. CASE Goto(j, "failed")
    BY <1>1, <2>1
  <2>2. CASE Goto(j, "getAcl")
    BY <1>1, <2>2
  <2>3. CASE job' = [job EXCEPT ![j].at = "updateSet", ![j].addrs = SetOf(j).addrs, ![j].token = SetOf(j).token]
    BY <2>3 DEF TypeOK
  <2> QED BY <1>8, <2>1, <2>2, <2>3 DEF GetIpSet
<1>9. CASE UpdateIpSet(j)
  <2>1. Goto(j, "failed") \/ Retry(j, "getSet") \/ Landed(j, "getAcl", "getSet")
    BY <1>9 DEF UpdateIpSet
  <2> QED BY <1>1, <1>2, <2>1
<1>10. CASE GetWebAcl(j) \/ GetWebAclToRemove(j)
  <2>1. \/ Goto(j, "failed") \/ Goto(j, "ok") \/ Goto(j, "findToDelete")
        \/ \E step \in {"addRule", "dropRule"} :
             job' = [job EXCEPT ![j].at = step, ![j].rules = acl.rules, ![j].token = acl.token]
    BY <1>10 DEF GetWebAcl, GetWebAclToRemove
  <2>2. CASE Goto(j, "failed") \/ Goto(j, "ok") \/ Goto(j, "findToDelete")
    BY <1>1, <2>2
  <2>3. ASSUME NEW step \in {"addRule", "dropRule"},
               job' = [job EXCEPT ![j].at = step, ![j].rules = acl.rules, ![j].token = acl.token]
        PROVE  job'[j].at \in {"addRule", "dropRule"}
    BY <2>3 DEF TypeOK
  <2> QED BY <2>1, <2>2, <2>3
<1>11. CASE AddAllowRule(j) \/ DropAllowRule(j)
  <2>1. \/ Goto(j, "failed") \/ Retry(j, "getAcl") \/ Retry(j, "getAclToRemove")
        \/ Landed(j, "ok", "getAcl") \/ Landed(j, "findToDelete", "getAclToRemove")
    BY <1>11 DEF AddAllowRule, DropAllowRule
  <2> QED BY <1>1, <1>2, <2>1
<1>12. CASE GetIpSetToDelete(j)
  <2>1. CASE Goto(j, "ok")
    BY <1>1, <2>1
  <2>2. CASE job' = [job EXCEPT ![j].at = "delete", ![j].token = SetOf(j).token]
    BY <2>2 DEF TypeOK
  <2> QED BY <1>12, <2>1, <2>2 DEF GetIpSetToDelete
<1>13. CASE DeleteIpSet(j)
  <2>1. \/ Goto(j, "failed") \/ Goto(j, "ok") \/ Retry(j, "getSetToDelete") \/ Landed(j, "ok", "getSetToDelete")
    BY <1>13 DEF DeleteIpSet
  <2> QED BY <1>1, <1>2, <2>1
<1> QED BY <1>3, <1>4, <1>5, <1>6, <1>7, <1>8, <1>9, <1>10, <1>11, <1>12, <1>13 DEF Step

\* Nothing that is still wanted is taken away by an apply.
LEMMA ApplyGrows ==
  ASSUME LockInv, NEW j \in Jobs, Action[j] = "apply", Step(j) \/ Fails(j)
  PROVE  Grown
<1> USE DEF LockInv, At
<1>1. CASE CreateIpSet(j)
  BY <1>1 DEF CreateIpSet, Grown, TypeOK, SetOf, remote
<1>2. CASE UpdateIpSet(j)
  <2>1. acl' = acl
    BY <1>2 DEF UpdateIpSet
  <2>2. CASE UNCHANGED ipSets
    BY <2>1, <2>2 DEF Grown
  <2>3. CASE /\ SetOf(j).id = job[j].id /\ SetOf(j).token = job[j].token
             /\ ipSets' = [ipSets EXCEPT ![IpSetName[j]] =
                  [id |-> job[j].id, addrs |-> job[j].addrs \cup AddCidrs[j], token |-> SetOf(j).token + 1]]
    <3>1. job[j].addrs = SetOf(j).addrs
      BY <1>2, <2>3 DEF SetRead, UpdateIpSet, TypeOK
    <3> QED BY <2>1, <2>3, <3>1 DEF Grown, TypeOK, SetOf
  <2> QED BY <1>2, <2>2, <2>3 DEF UpdateIpSet
<1>3. CASE AddAllowRule(j)
  <2>1. ipSets' = ipSets
    BY <1>3 DEF AddAllowRule
  <2>2. CASE UNCHANGED acl
    BY <2>1, <2>2 DEF Grown
  <2>3. CASE /\ acl.token = job[j].token
             /\ acl' = [rules |-> job[j].rules \cup {AllowRule(job[j].id)}, token |-> acl.token + 1]
    <3>1. job[j].rules = acl.rules
      BY <1>3, <2>3 DEF AclRead, AddAllowRule, TypeOK
    <3> QED BY <2>1, <2>3, <3>1 DEF Grown
  <2> QED BY <1>3, <2>2, <2>3 DEF AddAllowRule
<1>4. CASE UNCHANGED remote
  BY <1>4 DEF Grown, remote
<1> QED BY <1>1, <1>2, <1>3, <1>4
     DEF Step, OwnSteps, Start, ResolveWebAcl, Fails, FindIpSet, GetIpSet, GetWebAcl,
         GetWebAclToRemove, DropAllowRule, FindIpSetToDelete, GetIpSetToDelete, DeleteIpSet

\* The rule an apply adds refers to the set the apply has just seen.
LEMMA ApplyKeepsRule ==
  ASSUME LockInv, OneName, NEW j \in Jobs, Action[j] = "apply", RuleIsOurs, Step(j) \/ Fails(j)
  PROVE  RuleIsOurs'
<1> USE JobsAssumption DEF LockInv, At
<1>1. Grown
  BY ApplyGrows
<1>2. ASSUME NEW r \in acl.rules, NEW n \in Names, IsAllowRule(r) PROVE ipSets'[n].id = r.arn
  <2>1. r.arn # 0 /\ ipSets[n].id = r.arn
    BY <1>2, RuleArn DEF RuleIsOurs, TypeOK
  <2> QED BY <1>1, <2>1 DEF Grown
<1>3. CASE acl' = acl
  BY <1>2, <1>3 DEF RuleIsOurs
<1>4. CASE AddAllowRule(j) /\ acl' # acl
  <2>1. /\ acl.token = job[j].token /\ SetOf(j).id = job[j].id /\ UNCHANGED ipSets
        /\ acl' = [rules |-> job[j].rules \cup {AllowRule(job[j].id)}, token |-> acl.token + 1]
    BY <1>4 DEF AddAllowRule
  <2>2. acl'.rules = acl.rules \cup {AllowRule(job[j].id)}
    BY <1>4, <2>1 DEF AclRead, AddAllowRule, TypeOK
  <2>3. \A n \in Names : ipSets'[n].id = AllowRule(job[j].id).arn
    BY <2>1 DEF OneName, Names, SetOf, AllowRule
  <2> QED BY <1>2, <2>2, <2>3 DEF RuleIsOurs
<1> QED BY <1>3, <1>4
     DEF Step, OwnSteps, Start, ResolveWebAcl, Fails, FindIpSet, CreateIpSet, GetIpSet, UpdateIpSet, GetWebAcl,
         GetWebAclToRemove, DropAllowRule, FindIpSetToDelete, GetIpSetToDelete, DeleteIpSet, remote

\* An apply comes past the set only with its addresses in it, and succeeds only with the
\* rule in place.
LEMMA ApplyKeepsOwn ==
  ASSUME LockInv, NEW j \in Jobs, Action[j] = "apply", AllowedBy(j), Step(j) \/ Fails(j)
  PROVE  AllowedBy(j)'
<1> USE JobsAssumption DEF LockInv, At
<1>0. IpSetName[j] \in Names
  BY DEF Names
<1>1. CASE job'[j].at \notin {"getAcl", "addRule", "ok"}
  BY <1>1 DEF AllowedBy
<1>2. CASE Start(j) \/ ResolveWebAcl(j) \/ Fails(j)
  <2>1. PICK step \in {"resolve", "skipped", "failed", "find"} : Goto(j, step)
    BY <1>2 DEF Start, ResolveWebAcl, Fails
  <2>2. job'[j].at = step
    BY <2>1, GotoMoves DEF Moved
  <2> QED BY <1>1, <2>2
<1>3. CASE FindIpSet(j)
  <2>1. /\ job'[j].at \in {"create", "getSet", "getAcl"} /\ job'[j].id = SetOf(j).id
        /\ job'[j].at = "getAcl" => AddCidrs[j] = {}
    BY <1>3 DEF FindIpSet, TypeOK
  <2>2. SetOf(j)' = SetOf(j)
    BY <1>3 DEF FindIpSet, SetOf, remote
  <2> QED BY <2>1, <2>2 DEF AllowedBy
<1>4. CASE CreateIpSet(j)
  <2>1. CASE Goto(j, "failed")
    BY <1>1, <2>1, GotoMoves DEF Moved
  <2>2. CASE /\ ipSets' = [ipSets EXCEPT ![IpSetName[j]] = [id |-> created', addrs |-> AddCidrs[j], token |-> 0]]
             /\ job' = [job EXCEPT ![j].at = "getAcl", ![j].left = LockRetries, ![j].id = created']
    <3>1. job'[j].at = "getAcl" /\ job'[j].id = created'
      BY <2>2 DEF TypeOK
    <3>2. SetOf(j)' = [id |-> created', addrs |-> AddCidrs[j], token |-> 0]
      BY <1>0, <2>2 DEF SetOf, TypeOK
    <3> QED BY <3>1, <3>2 DEF AllowedBy
  <2> QED BY <1>4, <2>1, <2>2 DEF CreateIpSet
<1>5. CASE GetIpSet(j)
  <2>1. SetOf(j)' = SetOf(j)
    BY <1>5 DEF GetIpSet, SetOf, remote
  <2>2. /\ job'[j].at \in {"failed", "getAcl", "updateSet"} /\ job'[j].id = job[j].id
        /\ job'[j].at = "getAcl" => SetOf(j).id = job[j].id /\ AddCidrs[j] \subseteq SetOf(j).addrs
    BY <1>5 DEF GetIpSet, Goto, TypeOK
  <2> QED BY <2>1, <2>2 DEF AllowedBy
<1>6. CASE UpdateIpSet(j)
  <2>1. CASE Goto(j, "failed") \/ Retry(j, "getSet")
    BY <1>1, <2>1, GotoMoves, RetryMoves DEF Moved
  <2>2. CASE /\ ipSets' = [ipSets EXCEPT ![IpSetName[j]] =
                  [id |-> job[j].id, addrs |-> job[j].addrs \cup AddCidrs[j], token |-> SetOf(j).token + 1]]
             /\ Landed(j, "getAcl", "getSet")
    <3>1. job'[j].at \in {"getAcl", "getSet", "failed"} /\ job'[j].id = job[j].id
      BY <2>2, LandedMoves DEF Moved
    <3>2. SetOf(j)' = [id |-> job[j].id, addrs |-> job[j].addrs \cup AddCidrs[j], token |-> SetOf(j).token + 1]
      BY <1>0, <2>2 DEF SetOf, TypeOK
    <3> QED BY <3>1, <3>2 DEF AllowedBy
  <2> QED BY <1>6, <2>1, <2>2 DEF UpdateIpSet
<1>7. CASE GetWebAcl(j)
  <2>1. SetOf(j)' = SetOf(j) /\ acl' = acl
    BY <1>7 DEF GetWebAcl, SetOf, remote
  <2>2. /\ job'[j].at \in {"failed", "ok", "addRule"} /\ job'[j].id = job[j].id
        /\ job'[j].at = "ok" => \E r \in acl.rules : IsAllowRule(r)
    BY <1>7 DEF GetWebAcl, Goto, TypeOK
  <2>3. job[j].at = "getAcl"
    BY <1>7 DEF GetWebAcl
  <2> QED BY <2>1, <2>2, <2>3 DEF AllowedBy
<1>8. CASE AddAllowRule(j)
  <2>1. SetOf(j)' = SetOf(j) /\ job[j].at = "addRule"
    BY <1>8 DEF AddAllowRule, SetOf
  <2>2. CASE Goto(j, "failed")
    BY <1>1, <2>2, GotoMoves DEF Moved
  <2>3. CASE Retry(j, "getAcl")
    <3>1. job'[j].at \in {"failed", "getAcl"} /\ job'[j].id = job[j].id
      BY <2>3, RetryMoves DEF Moved
    <3> QED BY <2>1, <3>1 DEF AllowedBy
  <2>4. CASE /\ acl' = [rules |-> job[j].rules \cup {AllowRule(job[j].id)}, token |-> acl.token + 1]
             /\ Landed(j, "ok", "getAcl")
    <3>1. job'[j].at \in {"failed", "ok", "getAcl"} /\ job'[j].id = job[j].id
      BY <2>4, LandedMoves DEF Moved
    <3>2. \E r \in acl'.rules : IsAllowRule(r)
      <4>1. IsAllowRule(AllowRule(job[j].id)) /\ AllowRule(job[j].id) \in acl'.rules
        BY <2>4 DEF AllowRule, IsAllowRule
      <4> QED BY <4>1
    <3> QED BY <2>1, <3>1, <3>2 DEF AllowedBy
  <2> QED BY <1>8, <2>2, <2>3, <2>4 DEF AddAllowRule
<1> QED BY <1>2, <1>3, <1>4, <1>5, <1>6, <1>7, <1>8
     DEF Step, OwnSteps, GetWebAclToRemove, DropAllowRule, FindIpSetToDelete, GetIpSetToDelete, DeleteIpSet

LEMMA AllowedKept ==
  ASSUME LockInv, OneName, Allowed, [Next]_vars
  PROVE  Allowed'
<1> USE DEF LockInv
<1>1. CASE UNCHANGED vars
  BY <1>1 DEF Allowed, NoRemoveYet, RuleIsOurs, AllowedBy, SetOf, vars
<1>2. CASE ForeignEdit
  <2>1. UNCHANGED <<ipSets, job>> /\ \A r : IsAllowRule(r) => (r \in acl'.rules <=> r \in acl.rules)
    BY <1>2, ForeignAssumption DEF ForeignEdit
  <2> QED BY <2>1 DEF Allowed, NoRemoveYet, RuleIsOurs, AllowedBy, SetOf
<1>3. ASSUME NEW j \in Jobs, Step(j) \/ Fails(j), NoRemoveYet'
      PROVE  RuleIsOurs' /\ \A k \in Jobs : Action[k] = "apply" => AllowedBy(k)'
  <2>1. \A k \in Jobs \ {j} : job'[k] = job[k]
    BY <1>3, OthersStay
  <2>2. NoRemoveYet
    BY <1>3, <2>1, StepForward DEF NoRemoveYet
  <2>3. Action[j] = "apply"
    <3> SUFFICES ASSUME Action[j] = "remove" PROVE FALSE
      BY JobsAssumption
    <3>1. job[j].at \in {"waiting", "skipped"} /\ job'[j].at \in {"waiting", "skipped"}
      BY <1>3, <2>2 DEF NoRemoveYet
    <3>2. Start(j)
      BY <1>3, <3>1 DEF Step, Fails, ResolveWebAcl, FindIpSet, CreateIpSet, GetIpSet, UpdateIpSet,
           GetWebAcl, AddAllowRule, GetWebAclToRemove, DropAllowRule, FindIpSetToDelete,
           GetIpSetToDelete, DeleteIpSet, At
    <3>3. Goto(j, "resolve")
      BY <3>2 DEF Start
    <3> QED BY <3>1, <3>3, GotoMoves DEF Moved
  <2>4. RuleIsOurs /\ \A k \in Jobs : Action[k] = "apply" => AllowedBy(k)
    BY <2>2 DEF Allowed
  <2>5. Grown
    BY <1>3, <2>3, ApplyGrows
  <2>6. RuleIsOurs'
    BY <1>3, <2>3, <2>4, ApplyKeepsRule
  <2>7. AllowedBy(j)'
    BY <1>3, <2>3, <2>4, ApplyKeepsOwn
  <2>8. ASSUME NEW k \in Jobs \ {j}, Action[k] = "apply" PROVE AllowedBy(k)'
    BY <2>1, <2>2, <2>4, <2>5, <2>8, GrownAllows
  <2> QED BY <2>6, <2>7, <2>8
<1> QED BY <1>1, <1>2, <1>3 DEF Next, Allowed

\* Parallel shards never clobber each other: when every job names the same IPSet, after an
\* apply that exited 0 and until the cleanup starts, the ALLOW rule is in place and the set
\* it refers to holds the job's addresses, for any number of shards, failures and retries.
THEOREM ShardsStayAllowed == OneName => (Spec => []AppliedStaysAllowed)
<1> SUFFICES ASSUME OneName PROVE Spec => []AppliedStaysAllowed
  OBVIOUS
<1>1. Init => Allowed
  <2> SUFFICES ASSUME Init PROVE Allowed
    OBVIOUS
  <2>1. \A j \in Jobs : job[j].at = "waiting"
    BY DEF Init, NotStarted
  <2>2. RuleIsOurs
    <3>1. CASE created = 0 /\ acl = [rules |-> foreign, token |-> 0]
      <4>1. acl.rules \subseteq Foreign
        BY <3>1 DEF Init
      <4> QED BY <4>1, ForeignAssumption DEF RuleIsOurs
    <3>2. CASE /\ \E n \in Names, addrs \in SUBSET Cidrs :
                    ipSets = [m \in Names |-> IF m = n THEN [id |-> 1, addrs |-> addrs, token |-> 0] ELSE NoSet]
               /\ \E ours \in SUBSET {AllowRule(1)} : acl = [rules |-> foreign \cup ours, token |-> 0]
      <4>1. \A m, n \in Names : m = n
        BY DEF OneName, Names
      <4>2. \A n \in Names : ipSets[n].id = 1
        BY <3>2, <4>1
      <4>3. \A r \in acl.rules : r \in Foreign \/ r = AllowRule(1)
        BY <3>2 DEF Init
      <4> QED BY <4>2, <4>3, ForeignAssumption DEF RuleIsOurs, AllowRule
    <3> QED BY <3>1, <3>2 DEF Init
  <2>3. \A j \in Jobs : AllowedBy(j)
    BY <2>1 DEF AllowedBy
  <2> QED BY <2>2, <2>3 DEF Allowed
<1>2. LockInv /\ Allowed /\ [Next]_vars => Allowed'
  BY AllowedKept
<1>3. Allowed => AppliedStaysAllowed
  <2> SUFFICES ASSUME Allowed, NoRemoveYet, NEW j \in Jobs, Action[j] = "apply", job[j].at = "ok"
               PROVE  \E r \in acl.rules, n \in Names :
                        IsAllowRule(r) /\ ipSets[n].id = r.arn /\ AddCidrs[j] \subseteq ipSets[n].addrs
    BY DEF AppliedStaysAllowed, At
  <2>1. IpSetName[j] \in Names
    BY DEF Names
  <2>2. PICK r \in acl.rules : IsAllowRule(r)
    BY DEF Allowed, AllowedBy
  <2>3. ipSets[IpSetName[j]].id = r.arn /\ AddCidrs[j] \subseteq ipSets[IpSetName[j]].addrs
    BY <2>1, <2>2 DEF Allowed, AllowedBy, RuleIsOurs, SetOf
  <2> QED BY <2>1, <2>2, <2>3
<1> QED BY <1>1, <1>2, <1>3, LockInvHolds, PTL DEF Spec
=============================================================================
