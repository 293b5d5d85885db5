----------------------------- MODULE ScopeGates -----------------------------
(***************************************************************************)
(* What decides that a pull request may land on main: scope detection      *)
(* (scripts/detect_scope.py, scripts/ci_detect_scope.py), the override     *)
(* label and its authorization (scripts/check_scope_override.py,           *)
(* scripts/check_merged_pr_override.py), the shared validations, and the   *)
(* aggregate (scripts/aggregate_required_checks.py), as run by             *)
(* .github/workflows/pr-validation.yml on a pull request and again on its  *)
(* entry in the merge queue, and the scope detection of the push that      *)
(* follows (.github/workflows/main-validation.yml).                        *)
(*                                                                         *)
(* Labels, roles and contents change while the runs work; a pull request's *)
(* run knows the labels of the event that started it, the other two ask    *)
(* for them when they get there.                                           *)
(***************************************************************************)
EXTENDS Integers, Sequences, FiniteSets, SequencesExt

CONSTANTS
  PullRequests,
  Files,         \* paths of the repository
  ModuleOf,      \* the module leaf a path is under, or "none"
  Terragrunt,    \* the paths under terragrunt_root
  Docs,          \* the paths that end in .md
  VersionFiles,  \* the paths named VERSION
  AllModules,    \* the leaves with a main.tf (discover_all_modules)
  Changes,       \* what a pull request may contain
  MaxBuild,      \* max_entries_to_build of the merge queue
  MaxEdits,      \* bound: pushes to pull requests, label and role changes
  MaxMoves       \* bound: pushes to main past the queue

ASSUME PathsAssumption ==
  /\ IsFiniteSet(Files) /\ ModuleOf \in [Files -> STRING]
  /\ Terragrunt \subseteq Files /\ Docs \subseteq Files /\ VersionFiles \subseteq Files
  /\ \A f \in Terragrunt : ModuleOf[f] = "none"
  /\ "none" \notin AllModules
\* listed: the paths git diff --name-only prints.  moved: the old paths of files
\* that git takes for renamed, which it does not print.
ASSUME ChangesAssumption == Changes \subseteq [listed : SUBSET Files, moved : SUBSET Files]
ASSUME BoundsAssumption == MaxBuild \in Nat \ {0} /\ MaxEdits \in Nat /\ MaxMoves \in Nat

VARIABLES
  content,   \* what each pull request changes; NoChange before it is opened
  label,     \* those with (or to be opened with) the label detect-scope-override
  admins,    \* those whose author is an admin of the organization
  event,     \* the newest pull_request event of each that has no run yet
  run,       \* its newest run of pr-validation, see Idle
  gate,      \* the required-checks result of its head, and the modules that passed
             \* terratest in some run for this head
  queue,     \* the merge queue
  group,     \* the merge_group run of each entry
  main,      \* the changes that landed
  edits,     \* how many edits there were
  moves      \* ... and pushes past the queue

vars == <<content, label, admins, event, run, gate, queue, group, main, edits, moves>>

NoChange == [listed |-> {}, moved |-> {}]
NoScope  == [scope |-> "", modules |-> {}, version_only |-> FALSE]
NoEvent  == [due |-> FALSE, label |-> FALSE]
NoGate   == [green |-> FALSE, tested |-> {}]

\* phase: what the run is about to do.  result: what scope-detection found.  auth:
\* whether the label was there and its author an admin when the override was resolved.
Idle == [phase |-> "idle", label |-> FALSE, result |-> NoScope, override |-> "",
         auth |-> FALSE]

Jobs    == {"pr-title-check", "scope-detection", "quality", "validations"}
Phases  == {"idle", "scope", "validate", "approval", "green"}
Modules == {ModuleOf[f] : f \in Files} \cup AllModules
Scopes  == {"", "module", "terragrunt", "config", "multi-module", "mixed", "all"}
ScopeResults == [scope : Scopes, modules : SUBSET Modules, version_only : BOOLEAN]
Overrides    == {"", "true", "false", "error"}

RunType == [phase : Phases, label : BOOLEAN, result : ScopeResults, override : Overrides,
            auth : BOOLEAN]

Landed == [pr : PullRequests, change : Changes, auth : BOOLEAN,
           override : Overrides, tested : SUBSET Modules,
           push : [override : Overrides, result : ScopeResults]]

TypeOK ==
  /\ content \in [PullRequests -> Changes \cup {NoChange}]
  /\ label \subseteq PullRequests /\ admins \subseteq PullRequests
  /\ event \in [PullRequests -> [due : BOOLEAN, label : BOOLEAN]]
  /\ run \in [PullRequests -> RunType] /\ group \in [PullRequests -> RunType]
  /\ gate \in [PullRequests -> [green : BOOLEAN, tested : SUBSET Modules]]
  /\ queue \in Seq(PullRequests) /\ IsInjective(queue)
  /\ \A p \in PullRequests : group[p].phase # "idle" =>
       \E i \in DOMAIN queue : i <= MaxBuild /\ queue[i] = p
  /\ main \in Seq(Landed)
  /\ edits \in 0..MaxEdits /\ moves \in 0..MaxMoves

Init ==
  /\ content = [p \in PullRequests |-> NoChange]
  /\ label \in SUBSET PullRequests /\ admins \in SUBSET PullRequests
  /\ event = [p \in PullRequests |-> NoEvent]
  /\ run = [p \in PullRequests |-> Idle] /\ group = [p \in PullRequests |-> Idle]
  /\ gate = [p \in PullRequests |-> NoGate]
  /\ queue = <<>> /\ main = <<>> /\ edits = 0 /\ moves = 0

-----------------------------------------------------------------------------
(***************************************************************************)
(* Scope detection.                                                        *)
(***************************************************************************)

\* The live tree's paths that count: its documentation does not.
TerragruntFiles(files) == (files \cap Terragrunt) \ Docs

\* _find_module_path: a path directly under a module root is a leaf by itself.
ModulePaths(files) == {ModuleOf[f] : f \in files} \ {"none"}

ConfigFiles(files) == {f \in files \ Terragrunt : ModuleOf[f] = "none"}

\* detect_scope: the decision table.
DetectScope(files) ==
  LET modules == ModulePaths(files)
      tg      == TerragruntFiles(files) # {}
      config  == ConfigFiles(files) # {}
  IN  CASE Cardinality(modules) >= 2 -> "multi-module"
        [] Cardinality(modules) = 1  -> IF tg \/ config THEN "mixed" ELSE "module"
        [] OTHER -> IF tg /\ config THEN "mixed" ELSE IF tg THEN "terragrunt" ELSE "config"

Valid(scope) == scope \in {"module", "terragrunt", "config", "all"}

\* run_ci_detect_scope; the scope "" is a failure to detect one (D43).
RunCiDetectScope(files, override) ==
  IF override
  THEN IF AllModules = {} THEN NoScope
       ELSE [scope |-> "all", modules |-> AllModules, version_only |-> FALSE]
  ELSE LET scope == DetectScope(files)
       IN  [scope |-> scope,
            modules |-> IF scope = "module" THEN ModulePaths(files) ELSE {},
            version_only |-> scope = "module" /\ files \subseteq VersionFiles]

\* Mutant of IsAdminMember: the role that comes back is not compared.
IsAdminMemberAny(p) == {"true", "error"}

\* is_admin_member and what its callers make of it: refuse, or fail closed.
IsAdminMember(p) == IF p \in admins THEN {"true", "error"} ELSE {"error"}

\* check_scope_override, on the labels of the event.
CheckScopeOverride(p, labelled) == IF labelled THEN IsAdminMember(p) ELSE {"false"}

\* fetch_pr_by_number, fetch_merged_pr: a look-up that fails is no answer.
LookUp == {"found", "error"}

\* _authorize_pr_scope_override, on the labels of now.
Authorize(p, found) ==
  IF found = "error" THEN {"error"} ELSE IF p \in label THEN IsAdminMember(p) ELSE {"false"}

\* resolve_merge_group_scope_override, for the number in the ref.
MergeGroupOverride(p) == UNION {Authorize(p, found) : found \in LookUp}

\* resolve_push_scope_override, for the pull request of the commit; a commit that GitHub
\* associates with none is no override.
PushOverride(p) == {"false"} \cup UNION {Authorize(p, found) : found \in LookUp}

-----------------------------------------------------------------------------
(***************************************************************************)
(* The jobs a run of pr-validation has after scope-detection.              *)
(***************************************************************************)

\* Mutant of TerratestDue: the merge queue tests again.
TerratestDueAlways(r, mergeGroup) ==
  r.result.scope \in {"module", "all"} /\ ~r.result.version_only

\* Mutant of TerratestDue: a batch of modules is not tested.
TerratestDueOneModule(r, mergeGroup) ==
  r.result.scope = "module" /\ ~r.result.version_only /\ ~mergeGroup

\* tf-test: module code, on the pull request only.
TerratestDue(r, mergeGroup) ==
  r.result.scope \in {"module", "all"} /\ ~r.result.version_only /\ ~mergeGroup

\* simulate-merge: clean, in conflict with main, or a git failure.
SimulateMerge == {"success", "failure"}

\* check-version-immutability: unchanged or unpublished, or a published version.
CheckVersionImmutability == {"success", "failure"}

\* module-validate and the guards run after both, and decide with them.
Guards(merge, version) ==
  IF merge = "success" /\ version = "success" THEN {"success", "failure"} ELSE {"failure"}

Validations == UNION {Guards(m, v) : m \in SimulateMerge, v \in CheckVersionImmutability}

\* The jobs that required-checks needs.
Needs == Jobs

\* aggregate_results: anything but success and skipped fails the gate.
AggregateResults(ok) == \A j \in Needs : ok[j] \in {"success", "skipped"}

\* The run after scope-detection with this answer of the override step.
AfterScope(r, files, override, auth) ==
  [r EXCEPT !.phase = "validate", !.override = override, !.auth = auth,
            !.result = IF override = "error" THEN NoScope
                       ELSE RunCiDetectScope(files, override = "true")]

\* The validations need scope-detection.
ValidationResults(r) == IF Valid(r.result.scope) THEN Validations ELSE {"skipped"}

\* Whether the gate is green, with these results of the jobs whose result depends on
\* nothing that changes.
Gate(r, validations, title, quality) ==
  AggregateResults([j \in Jobs |->
    CASE j = "pr-title-check"  -> title
      [] j = "scope-detection" -> IF Valid(r.result.scope) THEN "success" ELSE "failure"
      [] j = "quality"         -> quality
      [] j = "validations"     -> validations])

-----------------------------------------------------------------------------
(***************************************************************************)
(* People.                                                                 *)
(***************************************************************************)

InQueue(p) == p \in ToSet(queue)
HasLanded(p) == \E i \in DOMAIN main : main[i].pr = p

Position(p) == CHOOSE i \in DOMAIN queue : queue[i] = p
Ahead(p) == {queue[i] : i \in 1..(Position(p) - 1)}

\* The queue without p: the entries behind it are built anew.
Leave(p) ==
  /\ queue' = RemoveAt(queue, Position(p))
  /\ group' = [q \in PullRequests |->
                 IF InQueue(q) /\ (q = p \/ p \in Ahead(q)) THEN Idle ELSE group[q]]

Edit == edits < MaxEdits /\ edits' = edits + 1

\* opened or synchronize: the checks of the new head are still to come, and GitHub
\* takes the pull request out of the queue.
Push(p, c) ==
  /\ ~HasLanded(p) /\ content[p] # c
  /\ IF content[p] = NoChange THEN UNCHANGED edits ELSE Edit
  /\ content' = [content EXCEPT ![p] = c]
  /\ event' = [event EXCEPT ![p] = [due |-> TRUE, label |-> p \in label]]
  /\ gate' = [gate EXCEPT ![p] = NoGate]
  /\ run' = [run EXCEPT ![p] = Idle]
  /\ IF InQueue(p) THEN Leave(p) ELSE UNCHANGED <<queue, group>>
  /\ UNCHANGED <<label, admins, main, moves>>

\* labeled and unlabeled, at any time; an event of a merged one starts nothing that counts.
Label(p) ==
  /\ content[p] # NoChange /\ Edit
  /\ label' = IF p \in label THEN label \ {p} ELSE label \cup {p}
  /\ event' = IF HasLanded(p) THEN event
              ELSE [event EXCEPT ![p] = [due |-> TRUE, label |-> p \notin label]]
  /\ UNCHANGED <<content, admins, run, gate, queue, group, main, moves>>

\* The author becomes an admin or ceases to be one.
ChangeRole(p) ==
  /\ Edit
  /\ admins' = IF p \in admins THEN admins \ {p} ELSE admins \cup {p}
  /\ UNCHANGED <<content, label, event, run, gate, queue, group, main, moves>>

\* The release bot or an admin pushes to main past the queue, which is built anew
\* on it.  (What becomes of such a push is ReleaseLane's.)
MainMoves ==
  /\ moves < MaxMoves /\ moves' = moves + 1
  /\ group' = [p \in PullRequests |-> Idle]
  /\ UNCHANGED <<content, label, admins, event, run, gate, queue, main, edits>>

-----------------------------------------------------------------------------
(***************************************************************************)
(* pr-validation on a pull request.                                        *)
(***************************************************************************)

SetRun(p, r) ==
  /\ run' = [run EXCEPT ![p] = r]
  /\ UNCHANGED <<content, label, admins, event, queue, group, main, edits, moves>>

\* The event's run cancels the one before it and takes the check's place.
StartRun(p) ==
  /\ event[p].due
  /\ event' = [event EXCEPT ![p] = NoEvent]
  /\ run' = [run EXCEPT ![p] = [Idle EXCEPT !.phase = "scope", !.label = event[p].label]]
  /\ gate' = [gate EXCEPT ![p].green = FALSE]
  /\ UNCHANGED <<content, label, admins, queue, group, main, edits, moves>>

\* The merge ref's own diff: what the pull request changes.
DetectScopeOfPull(p) ==
  /\ run[p].phase = "scope"
  /\ \E o \in CheckScopeOverride(p, run[p].label) :
       SetRun(p, AfterScope(run[p], content[p].listed, o, FALSE))
  /\ UNCHANGED gate

\* required-checks of the run, which is over; tested are the modules it tested.
Report(p, validations, tested) ==
  /\ \E title, quality \in {"success", "failure"} :
       gate' = [gate EXCEPT ![p] = [green |-> Gate(run[p], validations, title, quality),
                                    tested |-> @.tested \cup tested]]
  /\ SetRun(p, Idle)

\* The validations, up to the environment that asks for an approval.
ValidatePull(p) ==
  /\ run[p].phase = "validate"
  /\ \E how \in ValidationResults(run[p]) :
       IF how = "success" /\ TerratestDue(run[p], FALSE)
       THEN SetRun(p, [run[p] EXCEPT !.phase = "approval"]) /\ UNCHANGED gate
       ELSE Report(p, how, {})

\* Somebody approves, and terratest passes for every module or fails; or rejects.
Terratest(p) ==
  /\ run[p].phase = "approval"
  /\ Report(p, "success", run[p].result.modules) \/ Report(p, "failure", {})

-----------------------------------------------------------------------------
(***************************************************************************)
(* The merge queue, and pr-validation on its entries.                      *)
(***************************************************************************)

SetGroup(p, r) ==
  /\ group' = [group EXCEPT ![p] = r]
  /\ UNCHANGED <<content, label, admins, event, run, gate, queue, main, edits, moves>>

Enqueue(p) ==
  /\ gate[p].green /\ ~InQueue(p) /\ ~HasLanded(p)
  /\ queue' = Append(queue, p)
  /\ UNCHANGED <<content, label, admins, event, run, gate, group, main, edits, moves>>

\* The ref of p is built on those of the entries ahead of it.
BuildGroup(p) ==
  /\ InQueue(p) /\ Position(p) <= MaxBuild /\ group[p].phase = "idle"
  /\ \A q \in Ahead(p) : group[q].phase # "idle"
  /\ SetGroup(p, [Idle EXCEPT !.phase = "scope"])

\* git diff --name-only origin/main...HEAD in the ref of p: with the changes of
\* the entries ahead of it that are not on main yet.
GroupDiff(p) == UNION {content[q].listed : q \in Ahead(p) \cup {p}}

DetectScopeOfGroup(p) ==
  /\ group[p].phase = "scope"
  /\ \E o \in MergeGroupOverride(p) :
       SetGroup(p, AfterScope(group[p], GroupDiff(p), o, p \in label /\ p \in admins))

\* The validations and the aggregate, which keeps the entry or removes it.
ValidateGroup(p) ==
  /\ group[p].phase = "validate"
  /\ \E how \in ValidationResults(group[p]), quality \in {"success", "failure"} :
       IF how = "success" /\ TerratestDue(group[p], TRUE)
       THEN SetGroup(p, [group[p] EXCEPT !.phase = "approval"])
       ELSE IF Gate(group[p], how, "skipped", quality)
       THEN SetGroup(p, [group[p] EXCEPT !.phase = "green"])
       ELSE /\ Leave(p)
            /\ UNCHANGED <<content, label, admins, event, run, gate, main, edits, moves>>

\* One entry per push, the first one, once its check is green.
Land(p) ==
  /\ queue # <<>> /\ Head(queue) = p /\ group[p].phase = "green"
  /\ main' = Append(main, [pr |-> p, change |-> content[p], auth |-> group[p].auth,
                           override |-> group[p].override, tested |-> gate[p].tested,
                           push |-> [override |-> "", result |-> NoScope]])
  /\ queue' = Tail(queue)
  /\ group' = [group EXCEPT ![p] = Idle]
  /\ event' = [event EXCEPT ![p] = NoEvent] /\ run' = [run EXCEPT ![p] = Idle]
  /\ gate' = [gate EXCEPT ![p] = NoGate]
  /\ UNCHANGED <<content, label, admins, edits, moves>>

\* Mutant of DetectScopeOfPush: the override is resolved and not passed on.
DetectScopeOfPushPlain(i) ==
  /\ main[i].push.override = ""
  /\ \E o \in PushOverride(main[i].pr) :
       main' = [main EXCEPT ![i].push =
         [override |-> o,
          result |-> IF o = "error" THEN NoScope
                     ELSE RunCiDetectScope(main[i].change.listed, FALSE)]]
  /\ UNCHANGED <<content, label, admins, event, run, gate, queue, group, edits, moves>>

\* scope-detection of main-validation: the push's own diff, the label as it is now.
DetectScopeOfPush(i) ==
  /\ main[i].push.override = ""
  /\ \E o \in PushOverride(main[i].pr) :
       main' = [main EXCEPT ![i].push =
         [override |-> o,
          result |-> IF o = "error" THEN NoScope
                     ELSE RunCiDetectScope(main[i].change.listed, o = "true")]]
  /\ UNCHANGED <<content, label, admins, event, run, gate, queue, group, edits, moves>>

-----------------------------------------------------------------------------
PullRun(p)  == DetectScopeOfPull(p) \/ ValidatePull(p)
GroupRun(p) == BuildGroup(p) \/ DetectScopeOfGroup(p) \/ ValidateGroup(p)

Next ==
  \/ \E p \in PullRequests :
       \/ \E c \in Changes : Push(p, c)
       \/ Label(p) \/ ChangeRole(p) \/ Enqueue(p)
       \/ StartRun(p) \/ PullRun(p) \/ Terratest(p)
       \/ GroupRun(p) \/ Land(p)
  \/ MainMoves
  \/ \E i \in DOMAIN main : DetectScopeOfPush(i)

Spec == Init /\ [][Next]_vars

\* GitHub builds, runs and merges; nobody has to approve, queue or push.
FairSpec == Spec /\ \A p \in PullRequests : WF_vars(GroupRun(p)) /\ WF_vars(Land(p))

-----------------------------------------------------------------------------
(***************************************************************************)
(* Properties.                                                             *)
(***************************************************************************)

Touched(c) == c.listed \cup c.moved

\* What a change is about, without the decision table: each module leaf, the live
\* tree, the rest of the repository.
About(f) == IF f \in Terragrunt THEN IF f \in Docs THEN {} ELSE {"terragrunt"}
            ELSE IF ModuleOf[f] = "none" THEN {"config"} ELSE {ModuleOf[f]}
Subjects(files) == UNION {About(f) : f \in files}

\* What git prints of the change is about one thing, and only the old paths of files that
\* moved, which it does not print, make it more (ci_detect_scope.py,
\* _changed_files_from_diff_range).
HiddenByAMove(c) == Cardinality(Subjects(c.listed)) <= 1 /\ Cardinality(Subjects(Touched(c))) > 1

\* What lands through the queue touches one thing, or it carried the label of an
\* admin's pull request when its entry was checked, or what it touches besides is
\* hidden by a move: labels, roles and contents that changed since the pull request's
\* own check cannot carry more past the gate.  (check_merged_pr_override.py,
\* detect_scope.py, whose "exactly one scope", AC-15, has no such exception.)
LandedIsOneScope ==
  \A i \in DOMAIN main :
    LET c == main[i].change
    IN  Cardinality(Subjects(Touched(c))) > 1 => main[i].auth \/ HiddenByAMove(c)

\* The modules whose code a change lists; a directory of a module root without a main.tf
\* is none (discover_all_modules).
CodeModules(c) == ModulePaths(c.listed \ VersionFiles) \cap AllModules

\* The queue does not test: every module whose code lands through it, other than by
\* a move out of it, passed terratest in a run of the pull request for this very
\* content (validations.yml, run_terratest).
LandedWasTested ==
  \A i \in DOMAIN main : CodeModules(main[i].change) \subseteq main[i].tested

\* The push of an entry is refused by scope detection only when the answer about the
\* label is another one than the queue had, or none: what the queue let in can be
\* released (main-validation.yml, scope-detection).
PushAgreesWithQueue ==
  \A i \in DOMAIN main :
    (main[i].push.override # "" /\ main[i].push.override = main[i].override)
      => Valid(main[i].push.result.scope)

\* Every entry of the queue lands or leaves: no check of the queue waits for anybody.
QueueDrains == \A p \in PullRequests : InQueue(p) ~> ~InQueue(p)

\* As the comment on the diff range says: what the queue's check classifies is the
\* change of its pull request (pr-validation.yml, scope-detection). The code does not
\* satisfy it: an entry built on another one is diffed against main.
GroupSeesItsPull ==
  \A p \in PullRequests :
    group[p].phase = "validate" /\ group[p].override = "false"
      => group[p].result.scope = DetectScope(content[p].listed)
=============================================================================
