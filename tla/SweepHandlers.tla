---------------------------- MODULE SweepHandlers ----------------------------
(***************************************************************************)
(* The deletion handlers of terratest_sweep.py, call by call.  Most targets *)
(* are not deleted by one call: parts that no tag leads to have to go       *)
(* first (aliases, attachments, listeners, a domain), a distribution is     *)
(* disabled and waited for, and what a zone left in its parent goes last.   *)
(* TerratestSweep takes each of these for one step; here two sweeps are at  *)
(* work on the same targets, a call may fail, a sweep may be lost between   *)
(* two calls and the tag index lags behind.                                 *)
(***************************************************************************)
EXTENDS Integers, FiniteSets

CONSTANTS
  Sweeps,        \* sweep processes
  Resources,     \* tagged targets
  Kind,          \* Resources -> Kinds
  PartsOf,       \* Resources -> what must go before the target, a protection included
  Fixtures,      \* the targets that exist, one of these sets
  MaxFaults      \* bound: failing calls, lost sweeps, changes by others

Kinds == {"plain", "service", "cluster", "bucket", "key", "listed", "drained",
          "distribution", "zone", "acl", "pool", "no_branch", "raises"}

ASSUME HandlersAssumption ==
  /\ Kind \in [Resources -> Kinds]
  /\ \A r \in Resources : IsFiniteSet(PartsOf[r])
  /\ \A r \in Resources : Kind[r] = "service" => PartsOf[r] # {}   \* its tasks, scaled to 0
  /\ Fixtures \subseteq SUBSET Resources
  /\ MaxFaults \in Nat

VARIABLES
  fixture,     \* the targets that exist
  res,         \* each target: live, disabling, disabled, deleting or gone
  parts,       \* the parts it has
  delegated,   \* zones with an NS record in the shared parent zone
  version,     \* ETag of a distribution, lock token of a web ACL
  listed,      \* what the tag index returns
  todo,        \* resources of the pass a sweep has still to dispatch
  h,           \* the handler a sweep is in
  faults

vars == <<fixture, res, parts, delegated, version, listed, todo, h, faults>>

Steps == {"idle", "name", "list", "parts", "disable", "deploy", "refresh", "target",
          "schedule", "parent", "probe", "answered"}

\* left: the parts its listing returned.  named: the zone's name is known.
\* met: another sweep was in a handler of the same target meanwhile.
\* blind: an error was taken for an answer.
Idle == [step |-> "idle", r |-> "none", left |-> {}, tok |-> 0, named |-> TRUE,
         met |-> FALSE, blind |-> FALSE, how |-> "none", mode |-> "delete"]

Outcomes == {"none", "deleted", "scheduled", "already-deleted", "failed", "found", "excluded"}

TypeOK ==
  /\ fixture \in Fixtures
  /\ res \in [Resources -> {"live", "disabling", "disabled", "deleting", "gone"}]
  /\ \A r \in Resources : parts[r] \subseteq PartsOf[r]
  /\ delegated \subseteq Resources /\ listed \subseteq fixture
  /\ version \in [Resources -> Nat] /\ todo \in [Sweeps -> SUBSET Resources]
  /\ faults \in 0..MaxFaults
  /\ \A s \in Sweeps :
       /\ h[s].step \in Steps /\ h[s].how \in Outcomes /\ h[s].mode \in {"delete", "check"}
       /\ h[s].step # "idle" => h[s].r \in fixture
       /\ h[s].left # {} <=> h[s].step = "parts"

\* What a cancelled run left behind: a zone with or without the record in the parent zone.
Init ==
  /\ fixture \in Fixtures
  /\ res = [r \in Resources |-> IF r \in fixture THEN "live" ELSE "gone"]
  /\ parts = [r \in Resources |-> IF r \in fixture THEN PartsOf[r] ELSE {}]
  /\ delegated \in SUBSET {r \in fixture : Kind[r] = "zone"}
  /\ version = [r \in Resources |-> 0]
  /\ listed = fixture
  /\ todo = [s \in Sweeps |-> {}]
  /\ h = [s \in Sweeps |-> Idle]
  /\ faults = 0

account == <<fixture, res, parts, delegated, version, listed>>

Busy(s) == h[s].step \notin {"idle", "answered"}
At(s, step) == h[s].step = step
Target(s) == h[s].r
KindAt(s) == Kind[h[s].r]
Gone(s) == res[h[s].r] = "gone"

Go(s, step) == h' = [h EXCEPT ![s].step = step]
Answer(s, how) == h' = [h EXCEPT ![s].step = "answered", ![s].left = {}, ![s].how = how]

\* The removal of the parts a listing returned, or what follows it when it returned none.
GoParts(s, left, tok) ==
  h' = [h EXCEPT ![s].step = IF left = {} THEN "target" ELSE "parts", ![s].left = left, ![s].tok = tok]

-----------------------------------------------------------------------------
(***************************************************************************)
(* A pass of a sweep.                                                      *)
(***************************************************************************)

Enumerate(s) ==
  /\ At(s, "idle") /\ todo[s] = {} /\ listed # {}
  /\ todo' = [todo EXCEPT ![s] = listed]
  /\ \E mode \in {"delete", "check"} : h' = [h EXCEPT ![s].mode = mode]
  /\ UNCHANGED <<account, faults>>

\* The first step of the handler of a kind.  IAM, ELB and Athena answer deleted for a type
\* they have no branch for, the other services raise.
FirstStep(k) ==
  CASE k \in {"plain", "cluster"} -> "target"
    [] k = "service" -> "parts"
    [] k = "zone"    -> "name"
    [] OTHER         -> "list"

\* _dispatch_delete, or the probes of check mode.
Dispatch(s, r) ==
  /\ At(s, "idle") /\ r \in todo[s]
  /\ todo' = [todo EXCEPT ![s] = @ \ {r}]
  /\ LET others == {q \in Sweeps \ {s} : Busy(q) /\ h[q].r = r}
         new    == [Idle EXCEPT !.r = r, !.met = others # {}, !.mode = h[s].mode]
         mine   == IF h[s].mode = "check" THEN [new EXCEPT !.step = "probe"]
                   ELSE IF Kind[r] = "no_branch" THEN [new EXCEPT !.step = "answered", !.how = "deleted"]
                   ELSE IF Kind[r] = "raises" THEN [new EXCEPT !.step = "answered", !.how = "failed"]
                   ELSE [new EXCEPT !.step = FirstStep(Kind[r]),
                                    !.left = IF Kind[r] = "service" THEN PartsOf[r] ELSE {}]
     IN  h' = [q \in Sweeps |-> IF q = s THEN mine
                                ELSE IF q \in others THEN [h[q] EXCEPT !.met = TRUE] ELSE h[q]]
  /\ UNCHANGED <<account, faults>>

\* The entry is recorded and the pass goes on, until it has dispatched everything.
Record(s) ==
  /\ At(s, "answered")
  /\ h' = [h EXCEPT ![s] = IF todo[s] = {} THEN Idle ELSE [Idle EXCEPT !.mode = h[s].mode]]
  /\ UNCHANGED <<account, todo, faults>>

-----------------------------------------------------------------------------
(***************************************************************************)
(* The calls of delete.                                                    *)
(***************************************************************************)

\* _is_benign_not_found: an error that is taken for the proof that the target is gone.
\* Route 53 has a code of its own, NoSuchHostedZone, which is not among them.
NotFound(s) == Answer(s, IF KindAt(s) = "zone" THEN "failed" ELSE "already-deleted")

\* _zone_name: a zone that cannot be read has no name.
ZoneName(s) ==
  /\ At(s, "name")
  /\ h' = [h EXCEPT ![s].step = "list", ![s].named = ~Gone(s)]
  /\ UNCHANGED <<account, todo, faults>>

\* What a listing returns goes first: attachments, listeners, tables, objects, aliases,
\* the records of a zone.
ListParts(s) ==
  /\ At(s, "list") /\ KindAt(s) \in {"listed", "bucket", "key", "zone"}
  /\ IF Gone(s) THEN NotFound(s) ELSE GoParts(s, parts[Target(s)], 0)
  /\ UNCHANGED <<account, todo, faults>>

\* NAT gateways and endpoints: one that is on its way out is left alone.
DescribeState(s) ==
  /\ At(s, "list") /\ KindAt(s) = "drained"
  /\ IF Gone(s) THEN NotFound(s)
     ELSE IF res[Target(s)] = "deleting" THEN Answer(s, "deleted")
     ELSE Go(s, "target")
  /\ UNCHANGED <<account, todo, faults>>

\* get_web_acl, for the lock token of the delete.
GetWebAcl(s) ==
  /\ At(s, "list") /\ KindAt(s) = "acl"
  /\ IF Gone(s) THEN NotFound(s) ELSE GoParts(s, {}, version[Target(s)])
  /\ UNCHANGED <<account, todo, faults>>

\* The protection and the domain the pool has.
DescribeUserPool(s) ==
  /\ At(s, "list") /\ KindAt(s) = "pool"
  /\ IF Gone(s) THEN NotFound(s) ELSE GoParts(s, parts[Target(s)], 0)
  /\ UNCHANGED <<account, todo, faults>>

\* Mutant of GetDistributionConfig: the distribution is not disabled.
GetDistributionConfigEnabled(s) ==
  /\ At(s, "list") /\ KindAt(s) = "distribution"
  /\ IF Gone(s) THEN NotFound(s) ELSE GoParts(s, {}, version[Target(s)])
  /\ UNCHANGED <<account, todo, faults>>

\* get_distribution_config: the ETag, and whether it is enabled.
GetDistributionConfig(s) ==
  /\ At(s, "list") /\ KindAt(s) = "distribution"
  /\ IF Gone(s) THEN NotFound(s)
     ELSE h' = [h EXCEPT ![s].step = IF res[Target(s)] = "live" THEN "disable" ELSE "target",
                         ![s].tok = version[Target(s)]]
  /\ UNCHANGED <<account, todo, faults>>

\* Kinds whose handler goes on when a part is gone already.
Tolerant(k) == k \in {"key", "pool", "bucket", "service"}

\* The call for a part does not find it, or not the target.
PartMissing(s, p) ==
  \/ p \notin parts[Target(s)] /\ ~Tolerant(KindAt(s))
  \/ Gone(s) /\ KindAt(s) \in {"bucket", "service"}

\* One round of the loop over what the listing returned: detach, delete_alias, ...
RemovePart(s, p) ==
  /\ At(s, "parts") /\ p \in h[s].left
  /\ IF PartMissing(s, p) THEN NotFound(s) /\ UNCHANGED parts
     ELSE /\ parts' = [parts EXCEPT ![Target(s)] = @ \ {p}]
          /\ GoParts(s, h[s].left \ {p}, h[s].tok)
  /\ UNCHANGED <<fixture, res, delegated, version, listed, todo, faults>>

\* update_distribution, with the ETag of the read.
Disable(s) ==
  /\ At(s, "disable")
  /\ IF Gone(s) THEN NotFound(s) /\ UNCHANGED <<res, version>>
     ELSE IF h[s].tok # version[Target(s)] THEN Answer(s, "failed") /\ UNCHANGED <<res, version>>
     ELSE /\ res' = [res EXCEPT ![Target(s)] = "disabling"]
          /\ version' = [version EXCEPT ![Target(s)] = @ + 1]
          /\ Go(s, "deploy")
  /\ UNCHANGED <<fixture, parts, delegated, listed, todo, faults>>

\* The waiter sees Deployed, or runs out of attempts.
Wait(s) ==
  /\ At(s, "deploy")
  /\ \/ res[Target(s)] = "disabled" /\ Go(s, "refresh")
     \/ Answer(s, "failed")
  /\ UNCHANGED <<account, todo, faults>>

RefreshETag(s) ==
  /\ At(s, "refresh")
  /\ IF Gone(s) THEN NotFound(s)
     ELSE h' = [h EXCEPT ![s].step = "target", ![s].tok = version[Target(s)]]
  /\ UNCHANGED <<account, todo, faults>>

\* describe_key: a key that is pending deletion is left alone.
DescribeKey(s) ==
  /\ At(s, "target") /\ KindAt(s) = "key"
  /\ IF res[Target(s)] = "deleting" THEN Answer(s, "scheduled") ELSE Go(s, "schedule")
  /\ UNCHANGED <<account, todo, faults>>

\* AWS refuses: parts are left, the distribution is enabled, the token is stale, the key is
\* pending already.
Refused(s) ==
  \/ parts[Target(s)] # {}
  \/ KindAt(s) = "distribution" /\ res[Target(s)] # "disabled"
  \/ KindAt(s) \in {"distribution", "acl"} /\ h[s].tok # version[Target(s)]
  \/ KindAt(s) = "key" /\ res[Target(s)] = "deleting"

\* A target that a zone's name in the parent zone outlives.
Delegating(s) == KindAt(s) = "zone" /\ h[s].named

\* Mutant of DeleteTarget: a refusal is taken for a target that is gone.
DeleteTargetAnyError(s) ==
  /\ At(s, "schedule") \/ (At(s, "target") /\ KindAt(s) # "key")
  /\ IF Gone(s) \/ Refused(s) THEN NotFound(s) /\ UNCHANGED res
     ELSE /\ res' = [res EXCEPT ![Target(s)] = IF KindAt(s) \in {"key", "drained"} THEN "deleting" ELSE "gone"]
          /\ IF Delegating(s) THEN Go(s, "parent")
             ELSE Answer(s, IF KindAt(s) = "key" THEN "scheduled" ELSE "deleted")
  /\ UNCHANGED <<fixture, parts, delegated, version, listed, todo, faults>>

\* Mutant of DeleteTarget: the delegation is forgotten.
DeleteTargetOnly(s) ==
  /\ At(s, "schedule") \/ (At(s, "target") /\ KindAt(s) # "key")
  /\ IF Gone(s) THEN NotFound(s) /\ UNCHANGED res
     ELSE IF Refused(s) THEN Answer(s, "failed") /\ UNCHANGED res
     ELSE /\ res' = [res EXCEPT ![Target(s)] = IF KindAt(s) \in {"key", "drained"} THEN "deleting" ELSE "gone"]
          /\ Answer(s, IF KindAt(s) = "key" THEN "scheduled" ELSE "deleted")
  /\ UNCHANGED <<fixture, parts, delegated, version, listed, todo, faults>>

\* The call for the target itself.
DeleteTarget(s) ==
  /\ At(s, "schedule") \/ (At(s, "target") /\ KindAt(s) # "key")
  /\ IF Gone(s) THEN NotFound(s) /\ UNCHANGED res
     ELSE IF Refused(s) THEN Answer(s, "failed") /\ UNCHANGED res
     ELSE /\ res' = [res EXCEPT ![Target(s)] = IF KindAt(s) \in {"key", "drained"} THEN "deleting" ELSE "gone"]
          /\ IF Delegating(s) THEN Go(s, "parent")
             ELSE Answer(s, IF KindAt(s) = "key" THEN "scheduled" ELSE "deleted")
  /\ UNCHANGED <<fixture, parts, delegated, version, listed, todo, faults>>

\* The record that a listing of one record from the zone's name on returns: its own, or
\* the next one.
FirstRecords(r) == IF r \in delegated THEN {r} ELSE delegated

\* Mutant of Delegation: the name of the record is not compared.
DelegationAnyName(r) == FirstRecords(r)

\* rrs.get("Name") == zone_name
Delegation(r) == {q \in FirstRecords(r) : q = r}

\* _delete_parent_delegation, after the zone is gone.
DeleteParentDelegation(s) ==
  /\ At(s, "parent")
  /\ \/ \E q \in Delegation(Target(s)) : delegated' = delegated \ {q}
     \/ Delegation(Target(s)) = {} /\ UNCHANGED delegated
  /\ Answer(s, "deleted")
  /\ UNCHANGED <<fixture, res, parts, version, listed, todo, faults>>

-----------------------------------------------------------------------------
(***************************************************************************)
(* Check mode.                                                             *)
(***************************************************************************)

\* The probes of NAT gateways, endpoints and groups: deleted, deleting or not found.
PastDeletion(r) == Kind[r] = "drained" /\ res[r] \in {"deleting", "gone"}

\* _is_kms_key_in_pending_deletion; a key that is not found is counted.
PendingDeletion(r) == Kind[r] = "key" /\ res[r] = "deleting"

\* ECSHandler.is_live: any state but ACTIVE, or none.
Inactive(r) == Kind[r] \in {"cluster", "service"} /\ res[r] # "live"

\* CloudFrontHandler.is_live and CognitoIdpHandler.is_live: only a target that is not found.
NoSuch(r) == Kind[r] \in {"distribution", "pool"} /\ res[r] = "gone"

\* What is left out of the count; without a probe a tag is enough to be counted.
ProvenGone(r) == PastDeletion(r) \/ PendingDeletion(r) \/ Inactive(r) \/ NoSuch(r)

\* The probes of main's check mode and is_live.
Probe(s) ==
  /\ At(s, "probe")
  /\ Answer(s, IF ProvenGone(Target(s)) THEN "excluded" ELSE "found")
  /\ UNCHANGED <<account, todo, faults>>

-----------------------------------------------------------------------------
(***************************************************************************)
(* What goes wrong, and AWS.                                               *)
(***************************************************************************)

Fault == faults < MaxFaults /\ faults' = faults + 1

\* The call the handler is about to make fails for another reason.  A name that cannot be
\* read is skipped, the state of a key that cannot be read counts as none, and ECS takes
\* any error of its describe calls for gone; the probes of EC2 and KMS fail closed, those
\* of CloudFront and Cognito raise.
CallFails(s) ==
  /\ Busy(s) /\ Fault
  /\ CASE At(s, "name") -> h' = [h EXCEPT ![s].step = "list", ![s].named = FALSE]
       [] At(s, "target") /\ KindAt(s) = "key" -> Go(s, "schedule")
       [] At(s, "probe") /\ KindAt(s) \in {"cluster", "service"} ->
            h' = [h EXCEPT ![s].step = "answered", ![s].how = "excluded", ![s].blind = TRUE]
       [] At(s, "probe") /\ KindAt(s) \notin {"cluster", "service", "distribution", "pool"} ->
            Answer(s, "found")
       [] OTHER -> Answer(s, "failed")
  /\ UNCHANGED <<account, todo>>

\* The sweep's process is gone.
Lost(s) ==
  /\ ~At(s, "idle") /\ Fault
  /\ h' = [h EXCEPT ![s] = Idle] /\ todo' = [todo EXCEPT ![s] = {}]
  /\ UNCHANGED account

\* Somebody else changes the web ACL, or an object arrives in the bucket.
Others(r) ==
  /\ res[r] = "live" /\ Fault
  /\ \/ Kind[r] = "acl" /\ version' = [version EXCEPT ![r] = @ + 1] /\ UNCHANGED parts
     \/ Kind[r] = "bucket" /\ parts' = [parts EXCEPT ![r] = PartsOf[r]] /\ UNCHANGED version
  /\ UNCHANGED <<fixture, res, delegated, listed, todo, h>>

\* A change is deployed, a deletion finishes, a key waits out its window.
Aws(r) ==
  /\ \/ res[r] = "disabling" /\ res' = [res EXCEPT ![r] = "disabled"]
     \/ res[r] = "deleting" /\ res' = [res EXCEPT ![r] = "gone"]
  /\ UNCHANGED <<fixture, parts, delegated, version, listed, todo, h, faults>>

Deindex(r) ==
  /\ r \in listed /\ res[r] = "gone"
  /\ listed' = listed \ {r}
  /\ UNCHANGED <<fixture, res, parts, delegated, version, todo, h, faults>>

Handler(s) ==
  \/ ZoneName(s) \/ ListParts(s) \/ DescribeState(s) \/ GetWebAcl(s) \/ DescribeUserPool(s)
  \/ GetDistributionConfig(s) \/ Disable(s) \/ Wait(s) \/ RefreshETag(s) \/ DescribeKey(s)
  \/ \E p \in h[s].left : RemovePart(s, p)
  \/ DeleteTarget(s) \/ DeleteParentDelegation(s) \/ Probe(s)

Sweep(s) == Enumerate(s) \/ (\E r \in todo[s] : Dispatch(s, r)) \/ Handler(s) \/ Record(s)

Next ==
  \/ \E s \in Sweeps : Sweep(s) \/ CallFails(s) \/ Lost(s)
  \/ \E r \in Resources : Others(r) \/ Aws(r) \/ Deindex(r)

Spec == Init /\ [][Next]_vars

\* Sweeps keep coming and keep running, now and then in delete mode, and AWS gets round to
\* what it accepted.
FairSpec ==
  /\ Spec
  /\ \A s \in Sweeps : WF_vars(Sweep(s))
  /\ \A s \in Sweeps : SF_vars(Enumerate(s) /\ h'[s].mode = "delete")
  /\ \A r \in Resources : WF_vars(Aws(r))

-----------------------------------------------------------------------------
(***************************************************************************)
(* Properties.                                                             *)
(***************************************************************************)

Answered(s, hows) == At(s, "answered") /\ h[s].how \in hows

\* A handler that answers deleted or scheduled has left nothing that no tag leads to: the
\* target is on its way out, its parts are gone, and so is the delegation of a zone whose
\* name could be read.
SuccessIsWhole ==
  \A s \in Sweeps : Answered(s, {"deleted", "scheduled"}) =>
    \/ KindAt(s) = "no_branch"
    \/ /\ res[Target(s)] \in {"deleting", "gone"} /\ parts[Target(s)] = {}
       /\ h[s].named => Target(s) \notin delegated

\* A sweep takes a target for gone only when it is. A delete does so on the error of any of
\* the handler's calls (_is_benign_not_found), which is right unless two sweeps are in
\* handlers of one target at once; the check leaves out of its count only what is past
\* deletion, ECS excepted, where every error passes for that.
TakenForGoneIsGone ==
  \A s \in Sweeps :
    /\ Answered(s, {"already-deleted"}) => Gone(s) \/ h[s].met
    /\ Answered(s, {"excluded"}) => res[Target(s)] \in {"deleting", "gone"} \/ h[s].blind

\* What the docstring of _is_benign_not_found says, without a condition. The code does not
\* satisfy it: a part that the other sweep removed passes for the target.
AlreadyDeletedIsGone ==
  \A s \in Sweeps : Answered(s, {"already-deleted"}) => Gone(s)

\* _delete_parent_delegation matches exactly: a record of the shared parent zone goes only
\* when its own zone is gone.
DelegationsOfOthersStay == [][\A r \in delegated \ delegated' : res[r] = "gone"]_vars

\* However calls fail, sweeps are lost and meet, each target that has a branch goes in the
\* end: no handler leaves a target in a state it cannot get on from.
TargetsGo ==
  <>[](\A r \in fixture : Kind[r] \notin {"no_branch", "raises"} => res[r] \in {"deleting", "gone"})
=============================================================================
