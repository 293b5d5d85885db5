-------------------------- MODULE ScopeGatesProofs --------------------------
(***************************************************************************)
(* TLAPS proofs about ScopeGates, for every tree of paths, any number of   *)
(* pull requests, every set of changes and any number of edits.            *)
(***************************************************************************)
EXTENDS ScopeGates, FiniteSetTheorems, SequenceTheorems, TLAPS

\* What the decision table lets pass, without counting: one module and nothing else, or
\* no module and not both the live tree and the rest of the repository.
NoMix(files) ==
  /\ \A m, n \in ModulePaths(files) : m = n
  /\ ModulePaths(files) # {} => TerragruntFiles(files) = {} /\ ConfigFiles(files) = {}
  /\ TerragruntFiles(files) = {} \/ ConfigFiles(files) = {}

\* What a change and the answer about its label must be for a check to let it pass.
MayPass(override, auth, c) ==
  \/ override = "true" /\ auth /\ AllModules # {}
  \/ override = "false" /\ NoMix(c.listed)

\* What scope-detection finds with this answer of the override step.
Found(files, o) == IF o = "error" THEN NoScope ELSE RunCiDetectScope(files, o = "true")

\* Only a pull request that was opened has an event, a run, a green gate or a place in
\* the queue.
Opened ==
  \A p \in PullRequests :
    event[p].due \/ run[p].phase # "idle" \/ gate[p].green \/ InQueue(p) => content[p] \in Changes

\* The check of an entry passes for what its pull request changes, whatever else is in
\* its diff.
GroupSees ==
  \A p \in PullRequests :
    /\ group[p].phase \in {"validate", "green"} /\ Valid(group[p].result.scope)
         => MayPass(group[p].override, group[p].auth, content[p])
    /\ group[p].phase = "green" => Valid(group[p].result.scope)

\* A run that can pass has chosen every module its head makes due.
RunSees ==
  \A p \in PullRequests :
    /\ run[p].phase \in {"validate", "approval"} /\ Valid(run[p].result.scope) =>
         IF TerratestDue(run[p], FALSE) THEN CodeModules(content[p]) \subseteq run[p].result.modules
         ELSE CodeModules(content[p]) = {}
    /\ run[p].phase = "approval" => TerratestDue(run[p], FALSE)

\* A green gate is a tested head, and stays one in the queue, where a new run may take
\* the check's place.
HeadTested ==
  \A p \in PullRequests :
    gate[p].green \/ InQueue(p) => CodeModules(content[p]) \subseteq gate[p].tested

MainSees(m) ==
  /\ MayPass(m.override, m.auth, m.change)
  /\ CodeModules(m.change) \subseteq m.tested
  /\ m.push.override \in {"true", "false"} =>
       m.push.result = RunCiDetectScope(m.change.listed, m.push.override = "true")

GateInv ==
  /\ TypeOK /\ Opened /\ GroupSees /\ RunSees /\ HeadTested
  /\ \A i \in DOMAIN main : MainSees(main[i])

-----------------------------------------------------------------------------
(***************************************************************************)
(* Scope detection.                                                        *)
(***************************************************************************)

LEMMA ModulePathsFinite ==
  ASSUME NEW files \in SUBSET Files
  PROVE  IsFiniteSet(ModulePaths(files)) /\ ModulePaths(files) \subseteq Modules
<1> DEFINE leaves == {ModuleOf[f] : f \in files}
<1>1. [f \in files |-> ModuleOf[f]] \in Surjection(files, leaves)
  BY DEF Surjection
<1>2. IsFiniteSet(files)
  BY PathsAssumption, FS_Subset
<1>3. IsFiniteSet(leaves)
  <2> HIDE DEF leaves
  <2> QED BY <1>1, <1>2, FS_Surjection
<1>4. ModulePaths(files) \in SUBSET leaves
  BY DEF ModulePaths
<1>5. leaves \subseteq Modules
  BY DEF Modules
<1>6. IsFiniteSet(ModulePaths(files))
  <2> HIDE DEF leaves
  <2> QED BY <1>3, <1>4, FS_Subset
<1> QED BY <1>4, <1>5, <1>6

\* The table decides by the number of modules; what it lets pass can be said without.
LEMMA ValidScope ==
  ASSUME NEW files \in SUBSET Files
  PROVE  /\ DetectScope(files) \in Scopes /\ DetectScope(files) # "all" /\ DetectScope(files) # ""
         /\ Valid(DetectScope(files)) <=> NoMix(files)
         /\ Valid(DetectScope(files)) => (DetectScope(files) = "module" <=> ModulePaths(files) # {})
<1> DEFINE M == ModulePaths(files)
           n == Cardinality(M)
<1>1. IsFiniteSet(M)
  BY ModulePathsFinite
<1>2. n \in Nat
  BY <1>1, FS_CardinalityType
<1>3. n = 0 <=> M = {}
  BY <1>1, FS_EmptySet
<1>4. n = 1 <=> \E x : M = {x}
  BY <1>1, FS_Singleton
<1>5. CASE n >= 2
  <2>1. M # {} /\ ~ \E x : M = {x}
    BY <1>2, <1>3, <1>4, <1>5
  <2>2. ~ \A x, y \in M : x = y
    <3> HIDE DEF M
    <3> QED BY <2>1
  <2>3. DetectScope(files) = "multi-module"
    <3>1. Cardinality(ModulePaths(files)) >= 2 /\ Cardinality(ModulePaths(files)) # 1
      BY <1>2, <1>5
    <3> QED BY <3>1 DEF DetectScope
  <2> QED BY <2>2, <2>3 DEF Valid, NoMix, Scopes
<1>6. CASE n = 1
  <2>1. M # {} /\ \A x, y \in M : x = y
    BY <1>4, <1>6
  <2>2. DetectScope(files) = IF TerragruntFiles(files) # {} \/ ConfigFiles(files) # {} THEN "mixed" ELSE "module"
    <3>1. ~(Cardinality(ModulePaths(files)) >= 2) /\ Cardinality(ModulePaths(files)) = 1
      BY <1>6
    <3> QED BY <3>1 DEF DetectScope
  <2> QED BY <2>1, <2>2 DEF Valid, NoMix, Scopes
<1>7. CASE n = 0
  <2>1. M = {}
    BY <1>3, <1>7
  <2>2. DetectScope(files) = IF TerragruntFiles(files) # {} /\ ConfigFiles(files) # {} THEN "mixed"
                             ELSE IF TerragruntFiles(files) # {} THEN "terragrunt" ELSE "config"
    <3>1. ~(Cardinality(ModulePaths(files)) >= 2) /\ ~(Cardinality(ModulePaths(files)) = 1)
      BY <1>7
    <3> QED BY <3>1 DEF DetectScope
  <2> QED BY <2>1, <2>2 DEF Valid, NoMix, Scopes
<1>8. n >= 2 \/ n = 1 \/ n = 0
  BY <1>2
<1> HIDE DEF n
<1> QED BY <1>5, <1>6, <1>7, <1>8

\* The part of a change that is let pass is let pass.
LEMMA NoMixOfPart ==
  ASSUME NEW files, NEW part \in SUBSET files, NoMix(files)
  PROVE  NoMix(part)
<1>1. ModulePaths(part) \subseteq ModulePaths(files)
  BY DEF ModulePaths
<1>2. TerragruntFiles(part) \subseteq TerragruntFiles(files)
  BY DEF TerragruntFiles
<1>3. ConfigFiles(part) \subseteq ConfigFiles(files)
  BY DEF ConfigFiles
<1> QED BY <1>1, <1>2, <1>3 DEF NoMix

\* What is let pass is about one thing.
LEMMA OneSubject ==
  ASSUME NEW files \in SUBSET Files, NoMix(files)
  PROVE  Cardinality(Subjects(files)) <= 1
<1> DEFINE S == Subjects(files)
<1>1. ASSUME NEW x \in S PROVE \/ x = "terragrunt" /\ TerragruntFiles(files) # {}
                               \/ x = "config" /\ ConfigFiles(files) # {}
                               \/ x \in ModulePaths(files)
  <2>1. PICK f \in files : x \in About(f)
    BY <1>1 DEF Subjects
  <2>2. CASE f \in Terragrunt
    <3>1. f \notin Docs /\ x = "terragrunt"
      BY <2>1, <2>2 DEF About
    <3>2. f \in TerragruntFiles(files)
      BY <2>2, <3>1 DEF TerragruntFiles
    <3> QED BY <3>1, <3>2
  <2>3. CASE f \notin Terragrunt /\ ModuleOf[f] = "none"
    <3>1. f \in ConfigFiles(files) /\ x = "config"
      BY <2>1, <2>3 DEF About, ConfigFiles
    <3> QED BY <3>1
  <2>4. CASE f \notin Terragrunt /\ ModuleOf[f] # "none"
    <3>1. x = ModuleOf[f]
      BY <2>1, <2>4 DEF About
    <3> QED BY <2>4, <3>1 DEF ModulePaths
  <2> QED BY <2>2, <2>3, <2>4
<1>2. \A x, y \in S : x = y
  <2> HIDE DEF S
  <2> QED BY <1>1 DEF NoMix
<1>3. S = {} \/ \E x : S = {x}
  <2> HIDE DEF S
  <2> QED BY <1>2
<1>4. Cardinality(S) = 0 \/ Cardinality(S) = 1
  <2> HIDE DEF S
  <2> QED BY <1>3, FS_EmptySet, FS_Singleton
<1>5. \A n \in {0, 1} : n <= 1
  OBVIOUS
<1>6. Cardinality(Subjects(files)) \in {0, 1}
  BY <1>4
<1> QED BY <1>5, <1>6, Zenon

LEMMA DetectionType ==
  ASSUME NEW files \in SUBSET Files, NEW o \in BOOLEAN
  PROVE  RunCiDetectScope(files, o) \in ScopeResults /\ NoScope \in ScopeResults
<1>1. DetectScope(files) \in Scopes /\ ModulePaths(files) \subseteq Modules
  BY ValidScope, ModulePathsFinite
<1>2. AllModules \subseteq Modules /\ "all" \in Scopes /\ "" \in Scopes
  BY DEF Modules, Scopes
<1>3. NoScope \in ScopeResults
  BY <1>2 DEF NoScope, ScopeResults
<1>4. CASE o
  BY <1>2, <1>3, <1>4 DEF RunCiDetectScope, ScopeResults
<1>5. CASE ~o
  BY <1>1, <1>3, <1>5 DEF RunCiDetectScope, ScopeResults
<1> QED BY <1>3, <1>4, <1>5

\* What scope detection accepts is all the modules or one thing.
LEMMA Accepted ==
  ASSUME NEW files \in SUBSET Files, NEW o \in BOOLEAN
  PROVE  Valid(RunCiDetectScope(files, o).scope) <=> IF o THEN AllModules # {} ELSE NoMix(files)
<1>1. CASE o
  BY <1>1 DEF RunCiDetectScope, NoScope, Valid
<1>2. CASE ~o
  <2>1. RunCiDetectScope(files, o).scope = DetectScope(files)
    BY <1>2 DEF RunCiDetectScope
  <2> QED BY <1>2, <2>1, ValidScope
<1> QED BY <1>1, <1>2

\* Scope detection hands on every module whose code changes.
LEMMA Selected ==
  ASSUME NEW c \in [listed : SUBSET Files, moved : SUBSET Files], NEW o \in BOOLEAN, NEW r,
         r.result = RunCiDetectScope(c.listed, o), Valid(r.result.scope)
  PROVE  IF TerratestDue(r, FALSE) THEN CodeModules(c) \subseteq r.result.modules
         ELSE CodeModules(c) = {}
<1> DEFINE F == c.listed
<1>1. F \in SUBSET Files
  OBVIOUS
<1>2. CodeModules(c) \subseteq ModulePaths(F) /\ CodeModules(c) \subseteq AllModules
  BY DEF CodeModules, ModulePaths
<1>3. CASE o
  <2>1. AllModules # {}
    BY <1>1, <1>3, Accepted
  <2>2. r.result.scope = "all" /\ r.result.modules = AllModules /\ r.result.version_only = FALSE
    BY <1>3, <2>1 DEF RunCiDetectScope
  <2> QED BY <1>2, <2>2 DEF TerratestDue
<1>4. CASE ~o
  <2>1. r.result.scope = DetectScope(F) /\ r.result.version_only = (DetectScope(F) = "module" /\ F \subseteq VersionFiles)
        /\ r.result.modules = (IF DetectScope(F) = "module" THEN ModulePaths(F) ELSE {})
    BY <1>4 DEF RunCiDetectScope
  <2>2. CASE ModulePaths(F) = {}
    BY <1>2, <2>2
  <2>3. CASE ModulePaths(F) # {} /\ F \subseteq VersionFiles
    <3>1. F \ VersionFiles = {}
      BY <2>3
    <3>2. CodeModules(c) = {}
      BY <3>1 DEF CodeModules, ModulePaths
    <3> QED BY <3>2
  <2>4. CASE ModulePaths(F) # {} /\ ~(F \subseteq VersionFiles)
    <3>1. DetectScope(F) = "module"
      BY <1>1, <2>1, <2>4, ValidScope
    <3> QED BY <1>2, <2>1, <2>4, <3>1 DEF TerratestDue
  <2> QED BY <2>2, <2>3, <2>4
<1> QED BY <1>3, <1>4

-----------------------------------------------------------------------------
(***************************************************************************)
(* Runs, gates and the queue.                                              *)
(***************************************************************************)

LEMMA ContentFacts ==
  ASSUME TypeOK, NEW p \in PullRequests
  PROVE  /\ content[p] \in [listed : SUBSET Files, moved : SUBSET Files]
         /\ content[p].listed \in SUBSET Files
<1>1. NoChange \in [listed : SUBSET Files, moved : SUBSET Files]
  BY DEF NoChange
<1>2. content[p] \in Changes \cup {NoChange}
  BY DEF TypeOK
<1>3. content[p] \in [listed : SUBSET Files, moved : SUBSET Files]
  BY <1>1, <1>2, ChangesAssumption
<1> QED BY <1>3

LEMMA IdleType == Idle \in RunType /\ Idle.phase = "idle"
<1>1. NoScope \in ScopeResults
  BY DEF NoScope, ScopeResults, Scopes
<1> QED BY <1>1 DEF Idle, RunType, Phases, Overrides

LEMMA PhaseSet ==
  ASSUME NEW r \in RunType, NEW ph \in Phases
  PROVE  /\ [r EXCEPT !.phase = ph] \in RunType
         /\ [r EXCEPT !.phase = ph].phase = ph
         /\ [r EXCEPT !.phase = ph].result = r.result
         /\ [r EXCEPT !.phase = ph].override = r.override
         /\ [r EXCEPT !.phase = ph].auth = r.auth
  BY DEF RunType

LEMMA FoundType ==
  ASSUME NEW files \in SUBSET Files, NEW o \in {"true", "false", "error"}
  PROVE  Found(files, o) \in ScopeResults
  BY DetectionType DEF Found

LEMMA Answers ==
  ASSUME NEW p
  PROVE  /\ \A l : CheckScopeOverride(p, l) \subseteq {"true", "false", "error"}
         /\ MergeGroupOverride(p) \subseteq {"true", "false", "error"}
         /\ PushOverride(p) \subseteq {"true", "false", "error"}
         /\ "true" \in MergeGroupOverride(p) => p \in label /\ p \in admins
<1>1. \A found : /\ Authorize(p, found) \subseteq {"true", "false", "error"}
                 /\ "true" \in Authorize(p, found) => p \in label /\ p \in admins
  BY DEF Authorize, IsAdminMember
<1>2. \A l : CheckScopeOverride(p, l) \subseteq {"true", "false", "error"}
  BY DEF CheckScopeOverride, IsAdminMember
<1> QED BY <1>1, <1>2 DEF MergeGroupOverride, PushOverride

\* The gate is green only when the scope was accepted and the validations passed.
LEMMA GateNeeds ==
  ASSUME NEW r, NEW how, NEW title, NEW quality, Gate(r, how, title, quality)
  PROVE  Valid(r.result.scope) /\ how \in {"success", "skipped"}
<1> DEFINE ok == [j \in Jobs |->
             CASE j = "pr-title-check"  -> title
               [] j = "scope-detection" -> IF Valid(r.result.scope) THEN "success" ELSE "failure"
               [] j = "quality"         -> quality
               [] j = "validations"     -> how]
<1>1. \A j \in Jobs : ok[j] \in {"success", "skipped"}
  BY DEF Gate, AggregateResults, Needs
<1>2. "scope-detection" \in Jobs /\ "validations" \in Jobs
  BY DEF Jobs
<1>3. ok["scope-detection"] = IF Valid(r.result.scope) THEN "success" ELSE "failure"
  BY <1>2
<1>4. ok["validations"] = how
  BY <1>2
<1> HIDE DEF ok
<1> QED BY <1>1, <1>2, <1>3, <1>4

LEMMA GateType ==
  ASSUME NEW r, NEW how, NEW title, NEW quality
  PROVE  Gate(r, how, title, quality) \in BOOLEAN
  BY DEF Gate, AggregateResults

LEMMA Judged ==
  ASSUME NEW r, NEW how \in ValidationResults(r), Valid(r.result.scope)
  PROVE  how \in {"success", "failure"}
  BY DEF ValidationResults, Validations, Guards

-----------------------------------------------------------------------------
LEMMA PositionOf ==
  ASSUME TypeOK, NEW p \in PullRequests, InQueue(p)
  PROVE  /\ Position(p) \in 1..Len(queue) /\ queue[Position(p)] = p
         /\ \A i \in 1..Len(queue) : queue[i] = p => i = Position(p)
<1>1. DOMAIN queue = 1..Len(queue) /\ Len(queue) \in Nat
  BY DEF TypeOK
<1>2. \E i \in DOMAIN queue : queue[i] = p
  BY DEF InQueue, ToSet
<1>3. Position(p) \in DOMAIN queue /\ queue[Position(p)] = p
  BY <1>2 DEF Position
<1> QED BY <1>1, <1>3 DEF TypeOK, IsInjective

LEMMA Removed ==
  ASSUME NEW S, NEW s \in Seq(S), NEW k \in 1..Len(s)
  PROVE  /\ RemoveAt(s, k) \in Seq(S) /\ DOMAIN RemoveAt(s, k) = 1..(Len(s) - 1)
         /\ \A i \in 1..(Len(s) - 1) : RemoveAt(s, k)[i] = IF i < k THEN s[i] ELSE s[i + 1]
<1> DEFINE n == Len(s)
           a == SubSeq(s, 1, k - 1)
           b == SubSeq(s, k + 1, n)
<1>1. n \in Nat /\ k \in 1..n /\ \A i \in 1..n : s[i] \in S
  OBVIOUS
<1>2. RemoveAt(s, k) = a \o b
  BY DEF RemoveAt
<1> HIDE DEF n
<1>3. a \in Seq(S) /\ Len(a) = k - 1 /\ \A i \in 1..(k - 1) : a[i] = s[i]
  <2>1. k - 1 \in Int /\ \A i \in 1..(k - 1) : s[i] \in S
    BY <1>1
  <2>2. /\ a \in Seq(S) /\ Len(a) = IF 1 <= k - 1 THEN k - 1 - 1 + 1 ELSE 0
        /\ \A i \in 1..(k - 1 - 1 + 1) : a[i] = s[1 + i - 1]
    BY <2>1, SubSeqProperties
  <2> HIDE DEF a
  <2> QED BY <1>1, <2>2
<1>4. b \in Seq(S) /\ Len(b) = n - k /\ \A i \in 1..(n - k) : b[i] = s[k + i]
  <2>1. k + 1 \in Int /\ n \in Int /\ \A i \in (k + 1)..n : s[i] \in S
    BY <1>1
  <2>2. /\ b \in Seq(S) /\ Len(b) = IF k + 1 <= n THEN n - (k + 1) + 1 ELSE 0
        /\ \A i \in 1..(n - (k + 1) + 1) : b[i] = s[k + 1 + i - 1]
    BY <2>1, SubSeqProperties
  <2> HIDE DEF b
  <2>3. n - (k + 1) + 1 = n - k /\ \A i \in Int : k + 1 + i - 1 = k + i
    BY <1>1
  <2> QED BY <1>1, <2>2, <2>3
<1> HIDE DEF a, b
<1>5. /\ a \o b \in Seq(S) /\ Len(a \o b) = n - 1
      /\ \A i \in 1..(n - 1) : (a \o b)[i] = IF i <= k - 1 THEN a[i] ELSE b[i - (k - 1)]
  <2>1. /\ a \o b \in Seq(S) /\ Len(a \o b) = Len(a) + Len(b)
        /\ \A i \in 1..Len(a) + Len(b) : (a \o b)[i] = IF i <= Len(a) THEN a[i] ELSE b[i - Len(a)]
    BY <1>3, <1>4, ConcatProperties
  <2>2. Len(a) + Len(b) = n - 1
    BY <1>1, <1>3, <1>4
  <2>3. Len(a) = k - 1
    BY <1>3
  <2> QED BY <2>1, <2>2, <2>3
<1>7. ASSUME NEW i \in 1..(n - 1) PROVE (a \o b)[i] = IF i < k THEN s[i] ELSE s[i + 1]
  <2>1. (a \o b)[i] = IF i <= k - 1 THEN a[i] ELSE b[i - (k - 1)]
    BY <1>5
  <2>2. CASE i < k
    <3>1. i \in 1..(k - 1) /\ i <= k - 1
      BY <1>1, <2>2
    <3> QED BY <1>3, <2>1, <2>2, <3>1
  <2>3. CASE ~(i < k)
    <3>1. i - (k - 1) \in 1..(n - k) /\ ~(i <= k - 1)
      BY <1>1, <2>3
    <3>2. k + (i - (k - 1)) = i + 1
      BY <1>1
    <3>3. b[i - (k - 1)] = s[i + 1]
      BY <1>4, <3>1, <3>2
    <3> QED BY <2>1, <2>3, <3>1, <3>3
  <2> QED BY <2>2, <2>3
<1>8. a \o b \in Seq(S) /\ DOMAIN (a \o b) = 1..(n - 1)
  BY <1>5
<1> QED BY <1>2, <1>7, <1>8 DEF n

\* An entry that leaves takes the checks behind it with it.
LEMMA Left ==
  ASSUME TypeOK, NEW p \in PullRequests, InQueue(p), Leave(p)
  PROVE  /\ queue' \in Seq(PullRequests) /\ IsInjective(queue')
         /\ group' \in [PullRequests -> RunType] /\ group'[p] = Idle
         /\ \A q \in PullRequests : group'[q] = Idle \/ group'[q] = group[q]
         /\ \A q \in PullRequests : group'[q].phase # "idle" =>
              \E i \in DOMAIN queue' : i <= MaxBuild /\ queue'[i] = q
         /\ \A q : InQueue(q)' => InQueue(q) /\ q # p
<1> DEFINE k == Position(p)
           n == Len(queue)
<1>1. queue \in Seq(PullRequests) /\ n \in Nat /\ DOMAIN queue = 1..n /\ IsInjective(queue)
      /\ group \in [PullRequests -> RunType] /\ MaxBuild \in Nat
  BY BoundsAssumption DEF TypeOK
<1>2. k \in 1..n /\ queue[k] = p /\ \A i \in 1..n : queue[i] = p => i = k
  BY PositionOf
<1>3. queue' = RemoveAt(queue, k)
  BY DEF Leave
<1> HIDE DEF k
<1>6. /\ queue' \in Seq(PullRequests) /\ DOMAIN queue' = 1..(n - 1)
      /\ \A i \in 1..(n - 1) : queue'[i] = IF i < k THEN queue[i] ELSE queue[i + 1]
  BY <1>1, <1>2, <1>3, Removed
<1> HIDE DEF n
<1>7. IsInjective(queue')
  <2> SUFFICES ASSUME NEW i \in 1..(n - 1), NEW j \in 1..(n - 1), queue'[i] = queue'[j] PROVE i = j
    BY <1>6 DEF IsInjective
  <2> DEFINE at(x) == IF x < k THEN x ELSE x + 1
  <2>1. at(i) \in 1..n /\ at(j) \in 1..n
    BY <1>1
  <2>2. queue'[i] = queue[at(i)] /\ queue'[j] = queue[at(j)]
    BY <1>6
  <2>3. at(i) = at(j)
    <3> HIDE DEF at
    <3> QED BY <1>1, <2>1, <2>2 DEF IsInjective
  <2> QED BY <1>1, <1>2, <2>3
<1>8. group' = [q \in PullRequests |->
                  IF InQueue(q) /\ (q = p \/ p \in Ahead(q)) THEN Idle ELSE group[q]]
  BY DEF Leave
<1>9. group' \in [PullRequests -> RunType] /\ group'[p] = Idle
      /\ \A q \in PullRequests : group'[q] = Idle \/ group'[q] = group[q]
  BY <1>1, <1>8, IdleType
<1>10. ASSUME NEW q \in PullRequests, group'[q].phase # "idle"
       PROVE  \E i \in DOMAIN queue' : i <= MaxBuild /\ queue'[i] = q
  <2>1. group[q].phase # "idle" /\ q # p /\ ~(InQueue(q) /\ p \in Ahead(q))
    BY <1>8, <1>10, IdleType
  <2>2. PICK i \in 1..n : i <= MaxBuild /\ queue[i] = q
    BY <1>1, <2>1 DEF TypeOK
  <2>3. InQueue(q)
    BY <1>1, <2>2 DEF InQueue, ToSet
  <2>4. i = Position(q)
    BY <2>2, <2>3, PositionOf DEF n
  <2>5. i < k
    <3> SUFFICES ASSUME ~(i < k) PROVE FALSE
      OBVIOUS
    <3>1. k \in 1..(i - 1)
      BY <1>1, <1>2, <2>1, <2>2
    <3>2. p \in Ahead(q)
      BY <1>2, <2>4, <3>1 DEF Ahead
    <3> QED BY <2>1, <2>3, <3>2
  <2>6. i \in 1..(n - 1) /\ queue'[i] = q
    BY <1>1, <1>2, <1>6, <2>2, <2>5
  <2> QED BY <1>6, <2>2, <2>6
<1>11. ASSUME NEW q, InQueue(q)' PROVE InQueue(q) /\ q # p
  <2>1. PICK i \in DOMAIN queue' : queue'[i] = q
    BY <1>11 DEF InQueue, ToSet
  <2>2. i \in 1..(n - 1)
    BY <1>6, <2>1
  <2>3. PICK j \in 1..n : queue[j] = q /\ j # k
    <3>1. CASE i < k
      BY <1>1, <1>2, <1>6, <2>1, <2>2, <3>1
    <3>2. CASE ~(i < k)
      <4>1. i + 1 \in 1..n /\ i + 1 # k
        BY <1>1, <1>2, <2>2, <3>2
      <4> QED BY <1>6, <2>1, <2>2, <3>2, <4>1
    <3> QED BY <3>1, <3>2
  <2> QED BY <1>1, <1>2, <2>3 DEF InQueue, ToSet
<1> QED BY <1>6, <1>7, <1>9, <1>10, <1>11

-----------------------------------------------------------------------------
(***************************************************************************)
(* The inductive invariant.                                                *)
(***************************************************************************)

\* What no action of a run, of the queue or of people changes in an entry of main.
LEMMA MainKept ==
  ASSUME GateInv, main' = main
  PROVE  \A i \in DOMAIN main' : MainSees(main'[i])
  BY DEF GateInv

\* The change of one run of a pull request.
LEMMA RunChanged ==
  ASSUME GateInv, NEW p \in PullRequests, NEW r \in RunType, SetRun(p, r), gate' = gate,
         r.phase # "idle" => content[p] \in Changes,
         /\ r.phase \in {"validate", "approval"} /\ Valid(r.result.scope) =>
              IF TerratestDue(r, FALSE) THEN CodeModules(content[p]) \subseteq r.result.modules
              ELSE CodeModules(content[p]) = {}
         /\ r.phase = "approval" => TerratestDue(r, FALSE)
  PROVE  GateInv'
<1> USE DEF SetRun
<1>1. run \in [PullRequests -> RunType]
  BY DEF GateInv, TypeOK
<1>2. run' \in [PullRequests -> RunType] /\ run'[p] = r /\ \A q \in PullRequests \ {p} : run'[q] = run[q]
  BY <1>1
<1>3. TypeOK'
  BY <1>2 DEF GateInv, TypeOK
<1>4. Opened'
  BY <1>2 DEF GateInv, Opened, InQueue
<1>5. GroupSees'
  BY DEF GateInv, GroupSees
<1>6. RunSees'
  <2> SUFFICES ASSUME NEW q \in PullRequests
               PROVE  /\ run'[q].phase \in {"validate", "approval"} /\ Valid(run'[q].result.scope) =>
                           IF TerratestDue(run'[q], FALSE)
                           THEN CodeModules(content[q]) \subseteq run'[q].result.modules
                           ELSE CodeModules(content[q]) = {}
                      /\ run'[q].phase = "approval" => TerratestDue(run'[q], FALSE)
    BY DEF RunSees
  <2>1. CASE q = p
    BY <1>2, <2>1
  <2>2. CASE q # p
    <3>1. run'[q] = run[q]
      BY <1>2, <2>2
    <3> QED BY <3>1 DEF GateInv, RunSees
  <2> QED BY <2>1, <2>2
<1>7. HeadTested'
  BY DEF GateInv, HeadTested, InQueue
<1> QED BY <1>3, <1>4, <1>5, <1>6, <1>7, MainKept DEF GateInv

\* The end of a run, which may turn the gate green.
LEMMA Reported ==
  ASSUME GateInv, NEW p \in PullRequests, NEW how, NEW tested \in SUBSET Modules,
         run[p].phase # "idle", Report(p, how, tested),
         \A title, quality : Gate(run[p], how, title, quality) =>
           CodeModules(content[p]) \subseteq gate[p].tested \cup tested
  PROVE  GateInv'
<1> USE DEF SetRun
<1>1. PICK title, quality \in {"success", "failure"} :
        gate' = [gate EXCEPT ![p] = [green |-> Gate(run[p], how, title, quality),
                                     tested |-> @.tested \cup tested]]
  BY DEF Report
<1> DEFINE g == [green |-> Gate(run[p], how, title, quality), tested |-> gate[p].tested \cup tested]
<1>2. /\ UNCHANGED <<content, label, admins, event, queue, group, main, edits, moves>>
      /\ run' = [run EXCEPT ![p] = Idle]
  BY DEF Report
<1>3. run \in [PullRequests -> RunType] /\ gate \in [PullRequests -> [green : BOOLEAN, tested : SUBSET Modules]]
  BY DEF GateInv, TypeOK
<1>4. run' \in [PullRequests -> RunType] /\ run'[p] = Idle /\ \A q \in PullRequests \ {p} : run'[q] = run[q]
  BY <1>2, <1>3, IdleType
<1>5. g \in [green : BOOLEAN, tested : SUBSET Modules]
  BY <1>3, GateType
<1>6. gate' = [gate EXCEPT ![p] = g]
  BY <1>1
<1>7. g.green => CodeModules(content[p]) \subseteq g.tested
  OBVIOUS
<1>8. gate[p].tested \subseteq g.tested
  OBVIOUS
<1> HIDE DEF g
<1>9. gate' \in [PullRequests -> [green : BOOLEAN, tested : SUBSET Modules]] /\ gate'[p] = g
      /\ \A q \in PullRequests \ {p} : gate'[q] = gate[q]
  BY <1>3, <1>5, <1>6
<1>10. TypeOK'
  BY <1>2, <1>4, <1>9 DEF GateInv, TypeOK
<1>11. Opened'
  <2>1. content[p] \in Changes
    BY DEF GateInv, Opened
  <2> QED BY <1>2, <1>4, <1>9, <2>1 DEF GateInv, Opened, InQueue
<1>12. GroupSees'
  BY <1>2 DEF GateInv, GroupSees
<1>13. RunSees'
  <2> SUFFICES ASSUME NEW q \in PullRequests, run'[q].phase \in {"validate", "approval"}
               PROVE  run'[q] = run[q]
    BY <1>2 DEF GateInv, RunSees
  <2> QED BY <1>4, IdleType
<1>14. HeadTested'
  <2> SUFFICES ASSUME NEW q \in PullRequests, gate'[q].green \/ InQueue(q)'
               PROVE  CodeModules(content[q]) \subseteq gate'[q].tested
    BY <1>2 DEF HeadTested
  <2>1. InQueue(q)' = InQueue(q)
    BY <1>2 DEF InQueue
  <2>2. CASE q = p
    <3>1. CASE g.green
      BY <1>7, <1>9, <2>2, <3>1
    <3>2. CASE ~g.green
      <4>1. CodeModules(content[p]) \subseteq gate[p].tested
        BY <1>9, <2>1, <2>2, <3>2 DEF GateInv, HeadTested
      <4> QED BY <1>8, <1>9, <2>2, <4>1
    <3> QED BY <3>1, <3>2
  <2>3. CASE q # p
    BY <1>9, <2>1, <2>3 DEF GateInv, HeadTested
  <2> QED BY <2>2, <2>3
<1> QED BY <1>2, <1>10, <1>11, <1>12, <1>13, <1>14, MainKept DEF GateInv

LEMMA NoScopeFails == ~Valid(NoScope.scope)
  BY DEF NoScope, Valid

LEMMA DetectScopeOfPullKeeps ==
  ASSUME GateInv, NEW p \in PullRequests, DetectScopeOfPull(p)
  PROVE  GateInv'
<1>1. PICK o \in CheckScopeOverride(p, run[p].label) :
        SetRun(p, AfterScope(run[p], content[p].listed, o, FALSE))
  BY DEF DetectScopeOfPull
<1> DEFINE r == AfterScope(run[p], content[p].listed, o, FALSE)
<1>2. run[p] \in RunType /\ o \in {"true", "false", "error"} /\ content[p].listed \in SUBSET Files
      /\ content[p] \in [listed : SUBSET Files, moved : SUBSET Files]
  <2>1. TypeOK
    BY DEF GateInv
  <2>2. run[p] \in RunType
    BY <2>1 DEF TypeOK
  <2>3. o \in {"true", "false", "error"}
    <3>1. CheckScopeOverride(p, run[p].label) \subseteq {"true", "false", "error"}
      BY Answers
    <3> QED BY <1>1, <3>1
  <2> QED BY <2>1, <2>2, <2>3, ContentFacts
<1>3. r \in RunType /\ r.phase = "validate"
      /\ r.result = Found(content[p].listed, o)
  <2>1. r = [run[p] EXCEPT !.phase = "validate", !.override = o, !.auth = FALSE,
                           !.result = Found(content[p].listed, o)]
    BY DEF AfterScope, Found
  <2>2. Found(content[p].listed, o) \in ScopeResults
    BY <1>2, FoundType
  <2> HIDE DEF r
  <2> QED BY <1>2, <2>1, <2>2 DEF RunType, Phases, Overrides
<1>4. SetRun(p, r) /\ gate' = gate /\ content[p] \in Changes
  BY <1>1 DEF DetectScopeOfPull, GateInv, Opened
<1> HIDE DEF r
<1>5. ASSUME Valid(r.result.scope)
      PROVE  IF TerratestDue(r, FALSE) THEN CodeModules(content[p]) \subseteq r.result.modules
             ELSE CodeModules(content[p]) = {}
  <2>1. o # "error"
    BY <1>3, <1>5, NoScopeFails DEF Found
  <2>2. r.result = RunCiDetectScope(content[p].listed, o = "true")
    BY <1>3, <2>1 DEF Found
  <2> QED BY <1>2, <1>5, <2>2, Selected
<1> QED BY <1>3, <1>4, <1>5, RunChanged

LEMMA ValidatePullKeeps ==
  ASSUME GateInv, NEW p \in PullRequests, ValidatePull(p)
  PROVE  GateInv'
<1>1. PICK how \in ValidationResults(run[p]) :
        IF how = "success" /\ TerratestDue(run[p], FALSE)
        THEN SetRun(p, [run[p] EXCEPT !.phase = "approval"]) /\ UNCHANGED gate
        ELSE Report(p, how, {})
  BY DEF ValidatePull
<1>2. run[p] \in RunType /\ run[p].phase = "validate" /\ content[p] \in Changes
  BY DEF ValidatePull, GateInv, TypeOK, Opened
<1>3. CASE how = "success" /\ TerratestDue(run[p], FALSE)
  <2> DEFINE r == [run[p] EXCEPT !.phase = "approval"]
  <2>1. r \in RunType /\ r.phase = "approval" /\ r.result = run[p].result
    BY <1>2, PhaseSet DEF Phases
  <2>2. SetRun(p, r) /\ gate' = gate
    BY <1>1, <1>3
  <2> HIDE DEF r
  <2>3. TerratestDue(r, FALSE)
    BY <1>3, <2>1 DEF TerratestDue
  <2>4. Valid(run[p].result.scope) => CodeModules(content[p]) \subseteq run[p].result.modules
    BY <1>2, <1>3 DEF GateInv, RunSees
  <2> QED BY <1>2, <2>1, <2>2, <2>3, <2>4, RunChanged
<1>4. CASE ~(how = "success" /\ TerratestDue(run[p], FALSE))
  <2>1. Report(p, how, {})
    BY <1>1, <1>4
  <2>2. ASSUME NEW title, NEW quality, Gate(run[p], how, title, quality)
        PROVE  CodeModules(content[p]) = {}
    <3>1. Valid(run[p].result.scope) /\ how \in {"success", "skipped"}
      BY <2>2, GateNeeds
    <3>2. how = "success"
      BY <3>1, Judged
    <3> QED BY <1>2, <1>4, <3>1, <3>2 DEF GateInv, RunSees
  <2> QED BY <1>2, <2>1, <2>2, Reported
<1> QED BY <1>3, <1>4

LEMMA TerratestKeeps ==
  ASSUME GateInv, NEW p \in PullRequests, Terratest(p)
  PROVE  GateInv'
<1>1. run[p] \in RunType /\ run[p].phase = "approval" /\ TerratestDue(run[p], FALSE)
  BY DEF Terratest, GateInv, TypeOK, RunSees
<1>2. run[p].result.modules \in SUBSET Modules
  BY <1>1 DEF RunType, ScopeResults
<1>3. CASE Report(p, "success", run[p].result.modules)
  <2>1. CodeModules(content[p]) \subseteq run[p].result.modules
    <3>1. Valid(run[p].result.scope)
      BY <1>1 DEF TerratestDue, Valid
    <3> QED BY <1>1, <3>1 DEF GateInv, RunSees
  <2> QED BY <1>1, <1>2, <1>3, <2>1, Reported
<1>4. CASE Report(p, "failure", {})
  <2>1. \A title, quality : ~Gate(run[p], "failure", title, quality)
    BY GateNeeds
  <2> QED BY <1>1, <1>4, <2>1, Reported
<1> QED BY <1>3, <1>4 DEF Terratest

-----------------------------------------------------------------------------
\* The change of the check of one entry.
LEMMA GroupChanged ==
  ASSUME GateInv, NEW p \in PullRequests, NEW r \in RunType, SetGroup(p, r),
         \E i \in DOMAIN queue : i <= MaxBuild /\ queue[i] = p,
         r.phase \in {"validate", "green"} /\ Valid(r.result.scope)
           => MayPass(r.override, r.auth, content[p]),
         r.phase = "green" => Valid(r.result.scope)
  PROVE  GateInv'
<1> USE DEF SetGroup
<1>1. group \in [PullRequests -> RunType]
  BY DEF GateInv, TypeOK
<1>2. group' \in [PullRequests -> RunType] /\ group'[p] = r
      /\ \A q \in PullRequests \ {p} : group'[q] = group[q]
  BY <1>1
<1>3. TypeOK'
  BY <1>2 DEF GateInv, TypeOK
<1>4. Opened' /\ RunSees' /\ HeadTested'
  BY DEF GateInv, Opened, RunSees, HeadTested, InQueue
<1>5. GroupSees'
  <2> SUFFICES ASSUME NEW q \in PullRequests
               PROVE  /\ group'[q].phase \in {"validate", "green"} /\ Valid(group'[q].result.scope)
                           => MayPass(group'[q].override, group'[q].auth, content[q])
                      /\ group'[q].phase = "green" => Valid(group'[q].result.scope)
    BY DEF GroupSees
  <2>1. CASE q = p
    BY <1>2, <2>1
  <2>2. CASE q # p
    <3>1. group'[q] = group[q]
      BY <1>2, <2>2
    <3> QED BY <3>1 DEF GateInv, GroupSees
  <2> QED BY <2>1, <2>2
<1> QED BY <1>3, <1>4, <1>5, MainKept DEF GateInv

\* The checks that an entry which leaves, or a push to main, leaves standing stay good.
LEMMA GroupSeesStill ==
  ASSUME GateInv, NEW S \in SUBSET PullRequests,
         \A q \in PullRequests : group'[q].phase = "idle" \/ (group'[q] = group[q] /\ q \notin S),
         \A q \in PullRequests \ S : content'[q] = content[q]
  PROVE  GroupSees'
<1> SUFFICES ASSUME NEW q \in PullRequests
             PROVE  /\ group'[q].phase \in {"validate", "green"} /\ Valid(group'[q].result.scope)
                         => MayPass(group'[q].override, group'[q].auth, content'[q])
                    /\ group'[q].phase = "green" => Valid(group'[q].result.scope)
  BY DEF GroupSees
<1>1. CASE group'[q].phase = "idle"
  BY <1>1
<1>2. CASE group'[q] = group[q] /\ content'[q] = content[q]
  BY <1>2 DEF GateInv, GroupSees
<1> QED BY <1>1, <1>2

LEMMA BuildGroupKeeps ==
  ASSUME GateInv, NEW p \in PullRequests, BuildGroup(p)
  PROVE  GateInv'
<1> DEFINE r == [Idle EXCEPT !.phase = "scope"]
<1>1. r \in RunType /\ r.phase = "scope"
  BY IdleType, PhaseSet DEF Phases
<1>2. SetGroup(p, r)
  BY DEF BuildGroup
<1> HIDE DEF r
<1>3. Position(p) \in DOMAIN queue /\ Position(p) <= MaxBuild /\ queue[Position(p)] = p
  BY PositionOf DEF BuildGroup, GateInv, TypeOK
<1> QED BY <1>1, <1>2, <1>3, GroupChanged

LEMMA DetectScopeOfGroupKeeps ==
  ASSUME GateInv, NEW p \in PullRequests, DetectScopeOfGroup(p)
  PROVE  GateInv'
<1> DEFINE auth == p \in label /\ p \in admins
<1>1. PICK o \in MergeGroupOverride(p) : SetGroup(p, AfterScope(group[p], GroupDiff(p), o, auth))
  BY DEF DetectScopeOfGroup
<1> DEFINE r == AfterScope(group[p], GroupDiff(p), o, auth)
<1>2. group[p] \in RunType /\ o \in {"true", "false", "error"} /\ (o = "true" => auth) /\ auth \in BOOLEAN
  <2>1. group[p] \in RunType
    BY DEF GateInv, TypeOK
  <2>2. o \in {"true", "false", "error"} /\ (o = "true" => p \in label /\ p \in admins)
    <3>1. /\ MergeGroupOverride(p) \subseteq {"true", "false", "error"}
          /\ "true" \in MergeGroupOverride(p) => p \in label /\ p \in admins
      BY Answers
    <3> QED BY <1>1, <3>1
  <2> QED BY <2>1, <2>2
<1>3. \E i \in DOMAIN queue : i <= MaxBuild /\ queue[i] = p
  BY DEF DetectScopeOfGroup, GateInv, TypeOK
<1>4. GroupDiff(p) \in SUBSET Files /\ content[p].listed \in SUBSET GroupDiff(p)
  <2>1. InQueue(p)
    BY <1>3, Zenon DEF InQueue, ToSet
  <2>2. Position(p) \in 1..Len(queue) /\ queue \in Seq(PullRequests)
    BY <2>1, PositionOf DEF GateInv, TypeOK
  <2>3. Ahead(p) \subseteq PullRequests
    BY <2>2 DEF Ahead
  <2>4. \A q \in PullRequests : content[q].listed \in SUBSET Files
    BY ContentFacts DEF GateInv
  <2> QED BY <2>3, <2>4 DEF GroupDiff
<1>5. r \in RunType /\ r.phase = "validate" /\ r.override = o /\ r.auth = auth
      /\ r.result = Found(GroupDiff(p), o)
  <2>1. r = [group[p] EXCEPT !.phase = "validate", !.override = o, !.auth = auth,
                             !.result = Found(GroupDiff(p), o)]
    BY DEF AfterScope, Found
  <2>2. Found(GroupDiff(p), o) \in ScopeResults
    BY <1>2, <1>4, FoundType
  <2> HIDE DEF r, auth
  <2> QED BY <1>2, <2>1, <2>2 DEF RunType, Phases, Overrides
<1>6. SetGroup(p, r)
  BY <1>1
<1> HIDE DEF r, auth
<1>7. ASSUME Valid(r.result.scope) PROVE MayPass(r.override, r.auth, content[p])
  <2>1. o # "error"
    BY <1>5, <1>7, NoScopeFails DEF Found
  <2>2. r.result = RunCiDetectScope(GroupDiff(p), o = "true")
    BY <1>5, <2>1 DEF Found
  <2>3. IF o = "true" THEN AllModules # {} ELSE NoMix(GroupDiff(p))
    BY <1>4, <1>7, <2>2, Accepted
  <2>4. CASE o = "true"
    BY <1>2, <1>5, <2>3, <2>4 DEF MayPass
  <2>5. CASE o = "false"
    <3>1. NoMix(content[p].listed)
      BY <1>4, <2>3, <2>5, NoMixOfPart
    <3> QED BY <1>5, <2>5, <3>1 DEF MayPass
  <2> QED BY <1>2, <2>1, <2>4, <2>5
<1> QED BY <1>3, <1>5, <1>6, <1>7, GroupChanged

LEMMA ValidateGroupKeeps ==
  ASSUME GateInv, NEW p \in PullRequests, ValidateGroup(p)
  PROVE  GateInv'
<1>1. PICK how \in ValidationResults(group[p]), quality \in {"success", "failure"} :
        IF how = "success" /\ TerratestDue(group[p], TRUE)
        THEN SetGroup(p, [group[p] EXCEPT !.phase = "approval"])
        ELSE IF Gate(group[p], how, "skipped", quality)
        THEN SetGroup(p, [group[p] EXCEPT !.phase = "green"])
        ELSE /\ Leave(p)
             /\ UNCHANGED <<content, label, admins, event, run, gate, main, edits, moves>>
  BY DEF ValidateGroup
<1>2. group[p] \in RunType /\ group[p].phase = "validate"
      /\ \E i \in DOMAIN queue : i <= MaxBuild /\ queue[i] = p
  BY DEF ValidateGroup, GateInv, TypeOK
<1>3. ~TerratestDue(group[p], TRUE)
  BY DEF TerratestDue
<1>4. CASE Gate(group[p], how, "skipped", quality)
  <2> DEFINE r == [group[p] EXCEPT !.phase = "green"]
  <2>1. r \in RunType /\ r.phase = "green" /\ r.result = group[p].result
        /\ r.override = group[p].override /\ r.auth = group[p].auth
    BY <1>2, PhaseSet DEF Phases
  <2>2. SetGroup(p, r)
    BY <1>1, <1>3, <1>4
  <2> HIDE DEF r
  <2>3. Valid(group[p].result.scope)
    BY <1>4, GateNeeds
  <2>4. MayPass(group[p].override, group[p].auth, content[p])
    BY <1>2, <2>3 DEF GateInv, GroupSees
  <2> QED BY <1>2, <2>1, <2>2, <2>3, <2>4, GroupChanged
<1>5. CASE ~Gate(group[p], how, "skipped", quality)
  <2>1. Leave(p) /\ UNCHANGED <<content, label, admins, event, run, gate, main, edits, moves>>
    BY <1>1, <1>3, <1>5
  <2>2. InQueue(p)
    BY <1>2, Zenon DEF InQueue, ToSet
  <2>3. /\ queue' \in Seq(PullRequests) /\ IsInjective(queue')
        /\ group' \in [PullRequests -> RunType]
        /\ \A q \in PullRequests : group'[q] = Idle \/ group'[q] = group[q]
        /\ \A q \in PullRequests : group'[q].phase # "idle" =>
             \E i \in DOMAIN queue' : i <= MaxBuild /\ queue'[i] = q
        /\ \A q : InQueue(q)' => InQueue(q)
    BY <2>1, <2>2, Left DEF GateInv
  <2>4. TypeOK'
    BY <2>1, <2>3 DEF GateInv, TypeOK
  <2>5. Opened' /\ RunSees' /\ HeadTested'
    BY <2>1, <2>3 DEF GateInv, Opened, RunSees, HeadTested
  <2>6. GroupSees'
    <3>1. /\ {} \in SUBSET PullRequests
          /\ \A q \in PullRequests : group'[q].phase = "idle" \/ (group'[q] = group[q] /\ q \notin {})
          /\ \A q \in PullRequests \ {} : content'[q] = content[q]
      BY <2>1, <2>3, IdleType
    <3> QED BY <3>1, GroupSeesStill
  <2> QED BY <2>1, <2>4, <2>5, <2>6, MainKept DEF GateInv
<1> QED BY <1>4, <1>5

-----------------------------------------------------------------------------
LEMMA PushKeeps ==
  ASSUME GateInv, NEW p \in PullRequests, NEW c \in Changes, Push(p, c)
  PROVE  GateInv'
<1>1. /\ content' = [content EXCEPT ![p] = c]
      /\ event' = [event EXCEPT ![p] = [due |-> TRUE, label |-> p \in label]]
      /\ gate' = [gate EXCEPT ![p] = NoGate] /\ run' = [run EXCEPT ![p] = Idle]
      /\ UNCHANGED <<label, admins, main, moves>>
  BY DEF Push
<1>2. TypeOK
  BY DEF GateInv
<1>3. /\ queue' \in Seq(PullRequests) /\ IsInjective(queue')
      /\ group' \in [PullRequests -> RunType]
      /\ \A q \in PullRequests : group'[q].phase = "idle" \/ (group'[q] = group[q] /\ q \notin {p})
      /\ \A q \in PullRequests : group'[q].phase # "idle" =>
           \E i \in DOMAIN queue' : i <= MaxBuild /\ queue'[i] = q
      /\ \A q : InQueue(q)' => InQueue(q) /\ q # p
  <2>1. CASE InQueue(p)
    <3>1. Leave(p)
      BY <2>1 DEF Push
    <3> QED BY <1>2, <2>1, <3>1, Left, IdleType
  <2>2. CASE ~InQueue(p)
    <3>1. queue' = queue /\ group' = group
      BY <2>2 DEF Push
    <3>2. \A q \in PullRequests : group[q].phase # "idle" => q # p
      BY <1>2, <2>2, Zenon DEF TypeOK, InQueue, ToSet
    <3> QED BY <1>2, <2>2, <3>1, <3>2 DEF TypeOK, InQueue
  <2> QED BY <2>1, <2>2
<1>4. /\ content' \in [PullRequests -> Changes \cup {NoChange}]
      /\ content'[p] = c /\ \A q \in PullRequests \ {p} : content'[q] = content[q]
  BY <1>1, <1>2 DEF TypeOK
<1>5. /\ event' \in [PullRequests -> [due : BOOLEAN, label : BOOLEAN]]
      /\ \A q \in PullRequests \ {p} : event'[q] = event[q]
  BY <1>1, <1>2 DEF TypeOK
<1>6. /\ gate' \in [PullRequests -> [green : BOOLEAN, tested : SUBSET Modules]]
      /\ gate'[p].green = FALSE /\ \A q \in PullRequests \ {p} : gate'[q] = gate[q]
  BY <1>1, <1>2 DEF TypeOK, NoGate
<1>7. /\ run' \in [PullRequests -> RunType]
      /\ run'[p] = Idle /\ \A q \in PullRequests \ {p} : run'[q] = run[q]
  BY <1>1, <1>2, IdleType DEF TypeOK
<1>8. edits' \in 0..MaxEdits
  BY <1>2, BoundsAssumption DEF Push, Edit, TypeOK
<1>9. TypeOK'
  BY <1>1, <1>2, <1>3, <1>4, <1>5, <1>6, <1>7, <1>8 DEF TypeOK
<1>10. Opened'
  BY <1>3, <1>4, <1>5, <1>6, <1>7 DEF GateInv, Opened
<1>11. GroupSees'
  <2>1. {p} \in SUBSET PullRequests
    OBVIOUS
  <2> QED BY <1>3, <1>4, <2>1, GroupSeesStill
<1>12. RunSees'
  <2> SUFFICES ASSUME NEW q \in PullRequests, run'[q].phase \in {"validate", "approval"}
               PROVE  run'[q] = run[q] /\ content'[q] = content[q]
    BY DEF GateInv, RunSees
  <2>1. q # p
    BY <1>7, IdleType
  <2> QED BY <1>4, <1>7, <2>1
<1>13. HeadTested'
  <2> SUFFICES ASSUME NEW q \in PullRequests, gate'[q].green \/ InQueue(q)'
               PROVE  CodeModules(content'[q]) \subseteq gate'[q].tested
    BY DEF HeadTested
  <2>1. q # p
    BY <1>3, <1>6
  <2> QED BY <1>3, <1>4, <1>6, <2>1 DEF GateInv, HeadTested
<1> QED BY <1>1, <1>9, <1>10, <1>11, <1>12, <1>13, MainKept DEF GateInv

LEMMA LabelKeeps ==
  ASSUME GateInv, NEW p \in PullRequests, Label(p)
  PROVE  GateInv'
<1>1. UNCHANGED <<content, admins, run, gate, queue, group, main, moves>> /\ label' \subseteq PullRequests
  BY DEF Label, GateInv, TypeOK
<1>2. event' = event \/ event' = [event EXCEPT ![p] = [due |-> TRUE, label |-> p \notin label]]
  BY DEF Label
<1>3. /\ event' \in [PullRequests -> [due : BOOLEAN, label : BOOLEAN]]
      /\ \A q \in PullRequests \ {p} : event'[q] = event[q]
  <2>1. event \in [PullRequests -> [due : BOOLEAN, label : BOOLEAN]]
    BY DEF GateInv, TypeOK
  <2>2. [due |-> TRUE, label |-> p \notin label] \in [due : BOOLEAN, label : BOOLEAN]
    OBVIOUS
  <2> QED BY <1>2, <2>1, <2>2
<1>4. content[p] \in Changes
  BY DEF Label, GateInv, TypeOK
<1>5. edits' \in 0..MaxEdits
  BY BoundsAssumption DEF Label, Edit, GateInv, TypeOK
<1>6. TypeOK'
  BY <1>1, <1>3, <1>5 DEF GateInv, TypeOK
<1>7. Opened'
  BY <1>1, <1>3, <1>4 DEF GateInv, Opened, InQueue
<1>8. GroupSees' /\ RunSees' /\ HeadTested'
  BY <1>1 DEF GateInv, GroupSees, RunSees, HeadTested, InQueue
<1> QED BY <1>1, <1>6, <1>7, <1>8, MainKept DEF GateInv

LEMMA ChangeRoleKeeps ==
  ASSUME GateInv, NEW p \in PullRequests, ChangeRole(p)
  PROVE  GateInv'
<1>1. UNCHANGED <<content, label, event, run, gate, queue, group, main, moves>> /\ admins' \subseteq PullRequests
  BY DEF ChangeRole, GateInv, TypeOK
<1>2. edits' \in 0..MaxEdits
  BY BoundsAssumption DEF ChangeRole, Edit, GateInv, TypeOK
<1>3. TypeOK'
  BY <1>1, <1>2 DEF GateInv, TypeOK
<1>4. Opened' /\ GroupSees' /\ RunSees' /\ HeadTested'
  BY <1>1 DEF GateInv, Opened, GroupSees, RunSees, HeadTested, InQueue
<1> QED BY <1>1, <1>3, <1>4, MainKept DEF GateInv

LEMMA MainMovesKeeps ==
  ASSUME GateInv, MainMoves
  PROVE  GateInv'
<1>1. UNCHANGED <<content, label, admins, event, run, gate, queue, main, edits>>
      /\ group' = [q \in PullRequests |-> Idle]
  BY DEF MainMoves
<1>2. moves' \in 0..MaxMoves
  BY BoundsAssumption DEF MainMoves, GateInv, TypeOK
<1>3. TypeOK'
  BY <1>1, <1>2, IdleType DEF GateInv, TypeOK
<1>4. Opened' /\ RunSees' /\ HeadTested'
  BY <1>1 DEF GateInv, Opened, RunSees, HeadTested, InQueue
<1>5. GroupSees'
  BY <1>1, IdleType DEF GroupSees
<1> QED BY <1>1, <1>3, <1>4, <1>5, MainKept DEF GateInv

LEMMA EnqueueKeeps ==
  ASSUME GateInv, NEW p \in PullRequests, Enqueue(p)
  PROVE  GateInv'
<1>1. UNCHANGED <<content, label, admins, event, run, gate, group, main, edits, moves>>
      /\ queue' = Append(queue, p) /\ gate[p].green /\ ~InQueue(p)
  BY DEF Enqueue
<1>2. queue \in Seq(PullRequests) /\ DOMAIN queue = 1..Len(queue) /\ Len(queue) \in Nat /\ IsInjective(queue)
  BY DEF GateInv, TypeOK
<1>3. queue' \in Seq(PullRequests) /\ DOMAIN queue' = 1..(Len(queue) + 1) /\ queue'[Len(queue) + 1] = p
      /\ \A i \in 1..Len(queue) : queue'[i] = queue[i]
  BY <1>1, <1>2
<1>4. \A i \in 1..Len(queue) : queue[i] # p
  BY <1>1, <1>2, Zenon DEF InQueue, ToSet
<1>5. IsInjective(queue')
  <2> SUFFICES ASSUME NEW i \in DOMAIN queue', NEW j \in DOMAIN queue', queue'[i] = queue'[j]
               PROVE  i = j
    BY DEF IsInjective
  <2>1. CASE i = Len(queue) + 1
    BY <1>2, <1>3, <1>4, <2>1
  <2>2. CASE j = Len(queue) + 1
    BY <1>2, <1>3, <1>4, <2>2
  <2>3. CASE i \in 1..Len(queue) /\ j \in 1..Len(queue)
    BY <1>2, <1>3, <2>3 DEF IsInjective
  <2> QED BY <1>2, <1>3, <2>1, <2>2, <2>3
<1>6. \A q \in PullRequests : group'[q].phase # "idle" =>
        \E i \in DOMAIN queue' : i <= MaxBuild /\ queue'[i] = q
  <2> SUFFICES ASSUME NEW q \in PullRequests, group[q].phase # "idle"
               PROVE  \E i \in DOMAIN queue' : i <= MaxBuild /\ queue'[i] = q
    BY <1>1
  <2>1. PICK i \in DOMAIN queue : i <= MaxBuild /\ queue[i] = q
    BY DEF GateInv, TypeOK
  <2>2. i \in DOMAIN queue' /\ queue'[i] = q
    BY <1>2, <1>3, <2>1
  <2> QED BY <2>1, <2>2
<1>7. TypeOK'
  BY <1>1, <1>3, <1>5, <1>6 DEF GateInv, TypeOK
<1>8. \A q : InQueue(q)' => InQueue(q) \/ q = p
  <2> SUFFICES ASSUME NEW q, InQueue(q)' PROVE InQueue(q) \/ q = p
    OBVIOUS
  <2>1. PICK i \in 1..(Len(queue) + 1) : queue'[i] = q
    BY <1>3 DEF InQueue, ToSet
  <2>2. CASE i = Len(queue) + 1
    BY <1>3, <2>1, <2>2
  <2>3. CASE i \in 1..Len(queue)
    BY <1>2, <1>3, <2>1, <2>3 DEF InQueue, ToSet
  <2> QED BY <1>2, <2>2, <2>3
<1>9. Opened' /\ HeadTested'
  BY <1>1, <1>8 DEF GateInv, Opened, HeadTested
<1>10. GroupSees' /\ RunSees'
  BY <1>1 DEF GateInv, GroupSees, RunSees
<1> QED BY <1>1, <1>7, <1>9, <1>10, MainKept DEF GateInv

LEMMA StartRunKeeps ==
  ASSUME GateInv, NEW p \in PullRequests, StartRun(p)
  PROVE  GateInv'
<1> DEFINE r == [Idle EXCEPT !.phase = "scope", !.label = event[p].label]
<1>1. /\ event' = [event EXCEPT ![p] = NoEvent] /\ run' = [run EXCEPT ![p] = r]
      /\ gate' = [gate EXCEPT ![p].green = FALSE]
      /\ UNCHANGED <<content, label, admins, queue, group, main, edits, moves>>
  BY DEF StartRun
<1>2. event[p] \in [due : BOOLEAN, label : BOOLEAN] /\ content[p] \in Changes
  BY DEF StartRun, GateInv, TypeOK, Opened
<1>3. r \in RunType /\ r.phase = "scope"
  <2>1. event[p].label \in BOOLEAN
    BY <1>2
  <2> QED BY <2>1, IdleType DEF RunType, Phases
<1> HIDE DEF r
<1>4. /\ run' \in [PullRequests -> RunType]
      /\ run'[p].phase = "scope" /\ \A q \in PullRequests \ {p} : run'[q] = run[q]
  BY <1>1, <1>3 DEF GateInv, TypeOK
<1>5. /\ event' \in [PullRequests -> [due : BOOLEAN, label : BOOLEAN]]
      /\ \A q \in PullRequests \ {p} : event'[q] = event[q]
  BY <1>1 DEF GateInv, TypeOK, NoEvent
<1>6. gate \in [PullRequests -> [green : BOOLEAN, tested : SUBSET Modules]]
  BY DEF GateInv, TypeOK
<1>7. /\ gate' \in [PullRequests -> [green : BOOLEAN, tested : SUBSET Modules]]
      /\ gate'[p].green = FALSE /\ gate'[p].tested = gate[p].tested
      /\ \A q \in PullRequests \ {p} : gate'[q] = gate[q]
  BY <1>1, <1>6
<1>8. TypeOK'
  <2>1. UNCHANGED <<content, label, admins, queue, group, main, edits, moves>>
    BY <1>1
  <2> QED BY <1>4, <1>5, <1>7, <2>1 DEF GateInv, TypeOK
<1>9. Opened'
  BY <1>1, <1>2, <1>4, <1>5, <1>7 DEF GateInv, Opened, InQueue
<1>10. GroupSees'
  BY <1>1 DEF GateInv, GroupSees
<1>11. RunSees'
  <2> SUFFICES ASSUME NEW q \in PullRequests, run'[q].phase \in {"validate", "approval"}
               PROVE  run'[q] = run[q] /\ content'[q] = content[q]
    BY DEF GateInv, RunSees
  <2> QED BY <1>1, <1>4
<1>12. HeadTested'
  <2> SUFFICES ASSUME NEW q \in PullRequests, gate'[q].green \/ InQueue(q)'
               PROVE  CodeModules(content[q]) \subseteq gate'[q].tested
    BY <1>1 DEF HeadTested
  <2>1. InQueue(q)' = InQueue(q)
    BY <1>1 DEF InQueue
  <2> QED BY <1>7, <2>1 DEF GateInv, HeadTested
<1> QED BY <1>1, <1>8, <1>9, <1>10, <1>11, <1>12, MainKept DEF GateInv

-----------------------------------------------------------------------------
LEMMA LandKeeps ==
  ASSUME GateInv, NEW p \in PullRequests, Land(p)
  PROVE  GateInv'
<1> DEFINE m == [pr |-> p, change |-> content[p], auth |-> group[p].auth,
                 override |-> group[p].override, tested |-> gate[p].tested,
                 push |-> [override |-> "", result |-> NoScope]]
<1>1. /\ queue # <<>> /\ Head(queue) = p /\ group[p].phase = "green"
      /\ main' = Append(main, m) /\ queue' = Tail(queue) /\ group' = [group EXCEPT ![p] = Idle]
      /\ event' = [event EXCEPT ![p] = NoEvent] /\ run' = [run EXCEPT ![p] = Idle]
      /\ gate' = [gate EXCEPT ![p] = NoGate]
      /\ UNCHANGED <<content, label, admins, edits, moves>>
  BY DEF Land
<1>2. TypeOK
  BY DEF GateInv
<1>3. /\ queue \in Seq(PullRequests) /\ Len(queue) \in Nat /\ DOMAIN queue = 1..Len(queue)
      /\ IsInjective(queue) /\ Len(queue) >= 1 /\ queue[1] = p
  <2>1. queue \in Seq(PullRequests) /\ IsInjective(queue) /\ queue # <<>>
    BY <1>1, <1>2 DEF TypeOK
  <2>2. Head(queue) = queue[1] /\ Len(queue) # 0
    BY <2>1, HeadTailProperties, EmptySeq
  <2>3. Len(queue) \in Nat /\ DOMAIN queue = 1..Len(queue)
    BY <2>1
  <2>4. Len(queue) >= 1
    BY <2>2, <2>3
  <2>5. queue[1] = p
    BY <1>1, <2>2
  <2> QED BY <2>1, <2>3, <2>4, <2>5
<1>4. /\ queue' \in Seq(PullRequests) /\ DOMAIN queue' = 1..(Len(queue) - 1)
      /\ \A i \in 1..(Len(queue) - 1) : queue'[i] = queue[i + 1]
  <2>1. queue # <<>> /\ queue' = Tail(queue)
    BY <1>1
  <2>2. Tail(queue) \in Seq(PullRequests) /\ Len(Tail(queue)) = Len(queue) - 1
        /\ \A i \in 1..Len(Tail(queue)) : Tail(queue)[i] = queue[i + 1]
    BY <1>3, <2>1, HeadTailProperties
  <2> QED BY <1>3, <2>1, <2>2
<1>5. InQueue(p)
  <2>1. 1 \in DOMAIN queue
    BY <1>3
  <2> QED BY <1>3, <2>1, Zenon DEF InQueue, ToSet
<1>6. ASSUME NEW q, InQueue(q)' PROVE InQueue(q) /\ q # p
  <2>1. PICK i \in 1..(Len(queue) - 1) : queue'[i] = q
    BY <1>4, <1>6 DEF InQueue, ToSet
  <2>2. i + 1 \in DOMAIN queue /\ 1 \in DOMAIN queue /\ queue[i + 1] = q /\ i + 1 # 1
    BY <1>3, <1>4, <2>1
  <2>3. q # p
    BY <1>3, <2>2 DEF IsInjective
  <2>4. InQueue(q)
    BY <2>2 DEF InQueue, ToSet
  <2> QED BY <2>3, <2>4
<1>7. IsInjective(queue')
  <2> SUFFICES ASSUME NEW i \in 1..(Len(queue) - 1), NEW j \in 1..(Len(queue) - 1), queue'[i] = queue'[j]
               PROVE  i = j
    BY <1>4 DEF IsInjective
  <2>1. i + 1 \in DOMAIN queue /\ j + 1 \in DOMAIN queue /\ queue[i + 1] = queue[j + 1]
    BY <1>3, <1>4
  <2>2. i + 1 = j + 1
    BY <1>3, <2>1 DEF IsInjective
  <2> QED BY <1>3, <2>2
<1>8. /\ group' \in [PullRequests -> RunType] /\ group'[p] = Idle
      /\ \A q \in PullRequests \ {p} : group'[q] = group[q]
  BY <1>1, <1>2, IdleType DEF TypeOK
<1>9. ASSUME NEW q \in PullRequests, group'[q].phase # "idle"
      PROVE  \E i \in DOMAIN queue' : i <= MaxBuild /\ queue'[i] = q
  <2>1. q # p
    BY <1>8, <1>9, IdleType
  <2>2. PICK i \in 1..Len(queue) : i <= MaxBuild /\ queue[i] = q
    BY <1>2, <1>3, <1>8, <1>9, <2>1 DEF TypeOK
  <2>3. i - 1 \in 1..(Len(queue) - 1) /\ (i - 1) + 1 = i
    BY <1>3, <2>1, <2>2
  <2>4. queue'[i - 1] = q
    BY <1>4, <2>2, <2>3
  <2>5. i - 1 <= MaxBuild
    BY <2>2, BoundsAssumption
  <2> QED BY <1>4, <2>3, <2>4, <2>5
<1>10. /\ event' \in [PullRequests -> [due : BOOLEAN, label : BOOLEAN]]
       /\ event'[p].due = FALSE /\ \A q \in PullRequests \ {p} : event'[q] = event[q]
  BY <1>1, <1>2 DEF TypeOK, NoEvent
<1>11. /\ run' \in [PullRequests -> RunType]
       /\ run'[p] = Idle /\ \A q \in PullRequests \ {p} : run'[q] = run[q]
  BY <1>1, <1>2, IdleType DEF TypeOK
<1>12. gate \in [PullRequests -> [green : BOOLEAN, tested : SUBSET Modules]]
  BY <1>2 DEF TypeOK
<1>13. /\ gate' \in [PullRequests -> [green : BOOLEAN, tested : SUBSET Modules]]
       /\ gate'[p].green = FALSE /\ \A q \in PullRequests \ {p} : gate'[q] = gate[q]
  BY <1>1, <1>12 DEF NoGate
<1>14. content[p] \in Changes
  BY <1>5 DEF GateInv, Opened
<1>15. m \in Landed
  <2>1. group[p] \in RunType
    BY <1>2 DEF TypeOK
  <2>2. group[p].auth \in BOOLEAN /\ group[p].override \in Overrides
    BY <2>1 DEF RunType
  <2>3. gate[p].tested \in SUBSET Modules
    BY <1>12
  <2>4. [override |-> "", result |-> NoScope] \in [override : Overrides, result : ScopeResults]
    BY DEF Overrides, NoScope, ScopeResults, Scopes
  <2> HIDE DEF Overrides, ScopeResults, Modules
  <2> QED BY <1>14, <2>2, <2>3, <2>4 DEF Landed
<1>16. MainSees(m)
  <2>1. MayPass(group[p].override, group[p].auth, content[p])
    BY <1>1 DEF GateInv, GroupSees
  <2>2. CodeModules(content[p]) \subseteq gate[p].tested
    BY <1>5 DEF GateInv, HeadTested
  <2> QED BY <2>1, <2>2 DEF MainSees
<1> HIDE DEF m
<1>17. main \in Seq(Landed)
  BY <1>2 DEF TypeOK
<1>18. main' \in Seq(Landed) /\ \A i \in DOMAIN main' : MainSees(main'[i])
  <2>1. main' \in Seq(Landed) /\ DOMAIN main' = 1..(Len(main) + 1) /\ main'[Len(main) + 1] = m
        /\ \A i \in 1..Len(main) : main'[i] = main[i]
    BY <1>1, <1>15, <1>17
  <2>2. \A i \in 1..Len(main) : MainSees(main[i])
    BY <1>17 DEF GateInv
  <2>3. ASSUME NEW i \in 1..(Len(main) + 1) PROVE MainSees(main'[i])
    <3>1. Len(main) \in Nat
      BY <1>17
    <3>2. CASE i = Len(main) + 1
      BY <1>16, <2>1, <3>2
    <3>3. CASE i \in 1..Len(main)
      BY <2>1, <2>2, <3>3
    <3> QED BY <3>1, <3>2, <3>3
  <2> QED BY <2>1, <2>3
<1>19. TypeOK'
  <2>1. UNCHANGED <<content, label, admins, edits, moves>>
    BY <1>1
  <2> QED BY <1>2, <1>4, <1>7, <1>8, <1>9, <1>10, <1>11, <1>13, <1>18, <2>1 DEF TypeOK
<1>20. Opened'
  <2>1. content' = content
    BY <1>1
  <2> QED BY <1>6, <1>10, <1>11, <1>13, <1>14, <2>1 DEF GateInv, Opened
<1>21. GroupSees'
  <2>1. {p} \in SUBSET PullRequests /\ content' = content
    BY <1>1
  <2>2. \A q \in PullRequests : group'[q].phase = "idle" \/ (group'[q] = group[q] /\ q \notin {p})
    BY <1>8, IdleType
  <2> QED BY <2>1, <2>2, GroupSeesStill
<1>22. RunSees'
  <2> SUFFICES ASSUME NEW q \in PullRequests, run'[q].phase \in {"validate", "approval"}
               PROVE  run'[q] = run[q] /\ content'[q] = content[q]
    BY DEF GateInv, RunSees
  <2>1. q # p
    BY <1>11, IdleType
  <2> QED BY <1>1, <1>11, <2>1
<1>23. HeadTested'
  <2> SUFFICES ASSUME NEW q \in PullRequests, gate'[q].green \/ InQueue(q)'
               PROVE  CodeModules(content[q]) \subseteq gate'[q].tested
    BY <1>1 DEF HeadTested
  <2>1. q # p
    BY <1>6, <1>13
  <2> QED BY <1>6, <1>13, <2>1 DEF GateInv, HeadTested
<1> QED BY <1>18, <1>19, <1>20, <1>21, <1>22, <1>23 DEF GateInv

LEMMA DetectScopeOfPushKeeps ==
  ASSUME GateInv, NEW i \in DOMAIN main, DetectScopeOfPush(i)
  PROVE  GateInv'
<1>1. PICK o \in PushOverride(main[i].pr) :
        main' = [main EXCEPT ![i].push =
          [override |-> o,
           result |-> IF o = "error" THEN NoScope
                      ELSE RunCiDetectScope(main[i].change.listed, o = "true")]]
  BY DEF DetectScopeOfPush
<1> DEFINE m == [main[i] EXCEPT !.push = [override |-> o, result |-> Found(main[i].change.listed, o)]]
<1>2. UNCHANGED <<content, label, admins, event, run, gate, queue, group, edits, moves>>
  BY DEF DetectScopeOfPush
<1>3. main \in Seq(Landed) /\ i \in 1..Len(main)
  BY DEF GateInv, TypeOK
<1>4. main[i] \in Landed
  BY <1>3
<1>5. main[i].change.listed \in SUBSET Files
  BY <1>4, ChangesAssumption DEF Landed
<1>6. o \in {"true", "false", "error"}
  <2>1. PushOverride(main[i].pr) \subseteq {"true", "false", "error"}
    BY Answers
  <2> QED BY <1>1, <2>1
<1>7. Found(main[i].change.listed, o) \in ScopeResults
  BY <1>5, <1>6, FoundType
<1>8. main' = [main EXCEPT ![i] = m]
  BY <1>1 DEF Found
<1>9. /\ m \in Landed /\ m.override = main[i].override /\ m.auth = main[i].auth /\ m.change = main[i].change
      /\ m.tested = main[i].tested /\ m.push.override = o /\ m.push.result = Found(main[i].change.listed, o)
  BY <1>4, <1>6, <1>7 DEF Landed, Overrides
<1> HIDE DEF m
<1>10. MainSees(m)
  <2>1. MainSees(main[i])
    BY DEF GateInv
  <2>2. o \in {"true", "false"} => Found(main[i].change.listed, o) = RunCiDetectScope(main[i].change.listed, o = "true")
    BY DEF Found
  <2> QED BY <1>9, <2>1, <2>2 DEF MainSees
<1>11. main' \in Seq(Landed) /\ \A j \in DOMAIN main' : MainSees(main'[j])
  <2>1. main' \in Seq(Landed)
    BY <1>3, <1>8, <1>9
  <2>2. DOMAIN main' = DOMAIN main /\ main'[i] = m /\ \A j \in DOMAIN main \ {i} : main'[j] = main[j]
    BY <1>3, <1>8
  <2>3. ASSUME NEW j \in DOMAIN main PROVE MainSees(main'[j])
    <3>1. CASE j = i
      BY <1>10, <2>2, <3>1
    <3>2. CASE j # i
      <4>1. main'[j] = main[j]
        BY <2>2, <3>2
      <4> QED BY <4>1 DEF GateInv
    <3> QED BY <3>1, <3>2
  <2> QED BY <2>1, <2>2, <2>3
<1>12. TypeOK'
  BY <1>2, <1>11 DEF GateInv, TypeOK
<1>13. Opened' /\ GroupSees' /\ RunSees' /\ HeadTested'
  BY <1>2 DEF GateInv, Opened, GroupSees, RunSees, HeadTested, InQueue
<1> QED BY <1>11, <1>12, <1>13 DEF GateInv

-----------------------------------------------------------------------------
LEMMA InitGates == Init => GateInv
<1> SUFFICES ASSUME Init PROVE GateInv
  OBVIOUS
<1> USE DEF Init
<1>1. TypeOK
  <2>1. NoEvent \in [due : BOOLEAN, label : BOOLEAN] /\ NoGate \in [green : BOOLEAN, tested : SUBSET Modules]
    BY DEF NoEvent, NoGate
  <2>2. queue \in Seq(PullRequests) /\ IsInjective(queue) /\ main \in Seq(Landed)
    BY DEF IsInjective
  <2>3. edits \in 0..MaxEdits /\ moves \in 0..MaxMoves
    BY BoundsAssumption
  <2> QED BY <2>1, <2>2, <2>3, IdleType DEF TypeOK
<1>2. \A p : ~InQueue(p)
  BY DEF InQueue, ToSet
<1>3. \A p \in PullRequests : ~event[p].due /\ run[p].phase = "idle" /\ group[p].phase = "idle" /\ ~gate[p].green
  BY IdleType DEF NoEvent, NoGate
<1>4. Opened /\ GroupSees /\ RunSees /\ HeadTested
  BY <1>2, <1>3 DEF Opened, GroupSees, RunSees, HeadTested
<1>5. DOMAIN main = {}
  OBVIOUS
<1> QED BY <1>1, <1>4, <1>5 DEF GateInv

LEMMA NextGates == GateInv /\ [Next]_vars => GateInv'
<1> SUFFICES ASSUME GateInv, [Next]_vars PROVE GateInv'
  OBVIOUS
<1>1. CASE UNCHANGED vars
  BY <1>1 DEF vars, GateInv, TypeOK, Opened, GroupSees, RunSees, HeadTested, InQueue
<1>2. ASSUME NEW p \in PullRequests, NEW c \in Changes, Push(p, c) PROVE GateInv'
  BY <1>2, PushKeeps
<1>3. ASSUME NEW p \in PullRequests,
             \/ Label(p) \/ ChangeRole(p) \/ Enqueue(p)
             \/ StartRun(p) \/ PullRun(p) \/ Terratest(p)
             \/ GroupRun(p) \/ Land(p)
      PROVE  GateInv'
  BY <1>3, LabelKeeps, ChangeRoleKeeps, EnqueueKeeps, StartRunKeeps, DetectScopeOfPullKeeps,
     ValidatePullKeeps, TerratestKeeps, BuildGroupKeeps, DetectScopeOfGroupKeeps,
     ValidateGroupKeeps, LandKeeps DEF PullRun, GroupRun
<1>4. ASSUME NEW i \in DOMAIN main, DetectScopeOfPush(i) PROVE GateInv'
  BY <1>4, DetectScopeOfPushKeeps
<1>5. CASE MainMoves
  BY <1>5, MainMovesKeeps
<1> QED BY <1>1, <1>2, <1>3, <1>4, <1>5 DEF Next

LEMMA LandedFiles ==
  ASSUME GateInv, NEW i \in DOMAIN main
  PROVE  main[i].change.listed \in SUBSET Files
<1>1. main \in Seq(Landed)
  BY DEF GateInv, TypeOK
<1>2. main[i] \in Landed
  BY <1>1
<1> QED BY <1>2, ChangesAssumption DEF Landed

LEMMA Gates == Spec => []GateInv
<1>1. Init => GateInv
  BY InitGates
<1>2. GateInv /\ [Next]_vars => GateInv'
  BY NextGates
<1> QED BY <1>1, <1>2, PTL DEF Spec

\* Every variable keeps its type, no pull request is twice in the queue, and only the entries
\* at its front have a check (pr-validation.yml on the merge queue).
THEOREM TypeCorrect == Spec => []TypeOK
<1>1. GateInv => TypeOK
  BY DEF GateInv
<1> QED BY <1>1, Gates, PTL

\* Whatever labels, roles and contents do between the checks, what lands through the queue
\* touches one thing, was authorized when its entry was checked, or touches more only where a
\* move hides it (check_merged_pr_override.py, detect_scope.py).
THEOREM NothingMixedLands == Spec => []LandedIsOneScope
<1>1. GateInv => LandedIsOneScope
  <2> SUFFICES ASSUME GateInv, NEW i \in DOMAIN main, ~main[i].auth,
                      Cardinality(Subjects(Touched(main[i].change))) > 1
               PROVE  HiddenByAMove(main[i].change)
    BY DEF LandedIsOneScope
  <2>1. main[i].change.listed \in SUBSET Files
    BY LandedFiles
  <2>2. NoMix(main[i].change.listed)
    BY DEF GateInv, MainSees, MayPass
  <2>3. Cardinality(Subjects(main[i].change.listed)) <= 1
    BY <2>1, <2>2, OneSubject
  <2> QED BY <2>3 DEF HiddenByAMove
<1> QED BY <1>1, Gates, PTL

\* The push of an entry is accepted when the answer about its label is the one the queue had,
\* although the queue classified a larger diff (main-validation.yml, scope-detection).
THEOREM PushIsAccepted == Spec => []PushAgreesWithQueue
<1>1. GateInv => PushAgreesWithQueue
  <2> SUFFICES ASSUME GateInv, NEW i \in DOMAIN main, main[i].push.override # "",
                      main[i].push.override = main[i].override
               PROVE  Valid(main[i].push.result.scope)
    BY DEF PushAgreesWithQueue
  <2> DEFINE F == main[i].change.listed
             o == main[i].override
  <2>1. F \in SUBSET Files
    BY LandedFiles
  <2>2. /\ MayPass(o, main[i].auth, main[i].change) /\ o \in {"true", "false"}
        /\ main[i].push.result = RunCiDetectScope(F, o = "true")
    BY DEF GateInv, MainSees, MayPass
  <2>3. IF o = "true" THEN AllModules # {} ELSE NoMix(F)
    BY <2>2 DEF MayPass
  <2> HIDE DEF F, o
  <2>4. Valid(RunCiDetectScope(F, o = "true").scope)
    <3>1. CASE o = "true"
      BY <2>3, <3>1 DEF RunCiDetectScope, Valid
    <3>2. CASE o # "true"
      <4>1. RunCiDetectScope(F, o = "true").scope = DetectScope(F)
        BY <3>2 DEF RunCiDetectScope
      <4> QED BY <2>1, <2>3, <3>2, <4>1, ValidScope
    <3> QED BY <3>1, <3>2
  <2> QED BY <2>2, <2>4
<1> QED BY <1>1, Gates, PTL

\* The queue does not test and need not: every module of the tree whose code lands passed
\* terratest for this very content, whatever runs took each other's place (validations.yml,
\* run_terratest.py).
THEOREM DiscoveredWereTested == Spec => []LandedWasTested
<1>1. GateInv => LandedWasTested
  BY DEF GateInv, MainSees, LandedWasTested
<1> QED BY <1>1, Gates, PTL
=============================================================================
