------------------------ MODULE TerratestSweepProofs ------------------------
(***************************************************************************)
(* TLAPS proofs about TerratestSweep, for any number of runs and           *)
(* resources, every order of their tiers and needs, every age guard that   *)
(* exceeds the test timeout and any number of passes and faults.           *)
(***************************************************************************)
EXTENDS TerratestSweep, FiniteSetTheorems, TLAPS

\* The exit status of a check is the number of matches as the shell sees it, modulo 256.
FitsStatus == Cardinality(Resources) < 256

Stages   == {"new", "testing", "retry", "reported", "ended", "lost", "idle"} \cup Checking \cup Deleting
States   == {"none", "live", "deleting", "gone"}
Working  == {"probe", "pass", "ce"}
Commands == [step : {"start", "probe", "pass", "ce", "exit"}, pass : 0..MaxPasses,
             todo : SUBSET Resources, pending : SUBSET Resources,
             bad : SUBSET Resources, seen : SUBSET Resources, missed : SUBSET Resources,
             young : SUBSET Runs, code : Nat]

\* TypeOK, with names for its sets.
Types ==
  /\ fixture \in Fixtures /\ account \in {"swept", "denied", "other"}
  /\ res \in [Resources -> States]
  /\ index \subseteq Resources /\ \A r \in index : ~Untagged(r) /\ res[r] # "none"
  /\ age \in [Runs -> 0..MinAge]
  /\ stage \in [Callers -> Stages] /\ red \in [Runs -> BOOLEAN]
  /\ cmd \in [Callers -> Commands]
  /\ faults \in 0..MaxFaults

\* go test is over before the age guard ends.
InTime ==
  \A u \in Runs : /\ stage[u] = "new" => age[u] = 0
                  /\ stage[u] = "testing" => age[u] <= GoTimeout

\* A command works in its mode, in an account it may sweep, and defers while it may.
InMode(s) ==
  /\ cmd[s].step \in {"pass", "ce"} => stage[s] \in Deleting
  /\ cmd[s].step = "probe" => stage[s] \in Checking
  /\ cmd[s].step \in Working => account = "swept"
  /\ cmd[s].step = "ce" => cmd[s].pending = {}
  /\ cmd[s].pending # {} => cmd[s].pass # MaxPasses

\* What a command has enumerated and is still live is enumerated again, ...
Remembers(s) ==
  /\ \A r \in cmd[s].seen : res[r] # "none"
  /\ cmd[s].step = "probe" => cmd[s].seen \subseteq cmd[s].todo
  /\ cmd[s].step = "pass" =>
       \A r \in cmd[s].seen : res[r] = "live" => r \in index /\ (s # "global" => RunOf[r] = s)

\* ... and is to be deleted, deferred or bad, or passes for deleted or gone.
Accounts(s) ==
  cmd[s].step \in {"pass", "ce"} =>
    \A r \in cmd[s].seen : res[r] = "live" =>
      r \in cmd[s].todo \cup cmd[s].pending \cup cmd[s].bad \cup cmd[s].missed \/ Unreported(r)

\* The daily sweep works on what is past the age guard.
OldEnough ==
  cmd["global"].step \in Working =>
    /\ \A u \in AutoId \ cmd["global"].young : age[u] = MinAge
    /\ \A r \in cmd["global"].todo \cup cmd["global"].seen :
         RunOf[r] \in AutoId /\ Kind[r] # "undated" => age[RunOf[r]] = MinAge

\* A count that fits stays one when the shell has taken it modulo 256.
CodeFits(s) == FitsStatus => cmd[s].code < 256

\* The properties, for one caller; the status of a check is a count that must fit.
ExitIsTrue(s) ==
  /\ stage[s] \in Checking \cup Deleting /\ cmd[s].step = "exit" /\ cmd[s].code = 0
  /\ s = "global" => FitsStatus
  => /\ account = "swept"
     /\ \A r \in cmd[s].seen \ cmd[s].missed :
          res[r] = "live" => stage[s] \in Deleting /\ Unreported(r)
GreenIsTrue(s) ==
  s \in Runs /\ stage[s] = "reported" /\ ~red[s] /\ FitsStatus =>
    account = "swept" /\ \A r \in cmd[s].seen \ cmd[s].missed : res[r] # "live"

Held(s) == InMode(s) /\ Remembers(s) /\ Accounts(s) /\ CodeFits(s) /\ ExitIsTrue(s) /\ GreenIsTrue(s)

SweepInv == Types /\ InTime /\ OldEnough /\ \A s \in Callers : Held(s)

-----------------------------------------------------------------------------
(***************************************************************************)
(* What a caller knows stays true whatever the others do.                  *)
(***************************************************************************)

\* Resources are created once and are live once; what the index shows stays
\* there while it is live.
Forward ==
  /\ account' = account
  /\ \A r \in Resources :
       /\ res[r] # "none" => res'[r] # "none"
       /\ res'[r] = "live" /\ res[r] # "none" => res[r] = "live"
       /\ r \in index /\ res'[r] = "live" => r \in index'

\* A caller that does nothing keeps what it knows.
LEMMA HeldIsKept ==
  ASSUME SweepInv, Forward, NEW s \in Callers,
         cmd'[s] = cmd[s], stage'[s] = stage[s], s \in Runs => red'[s] = red[s]
  PROVE  Held(s)'
<1>1. Held(s) /\ cmd[s] \in Commands /\ cmd[s].seen \subseteq Resources
  BY DEF SweepInv, Types, Commands
<1>2. InMode(s)'
  BY <1>1 DEF Held, InMode, Forward
<1>3. Remembers(s)'
  BY <1>1 DEF Held, Remembers, Forward
<1>4. Accounts(s)'
  BY <1>1 DEF Held, Remembers, Accounts, Forward, Unreported
<1>5. ExitIsTrue(s)'
  BY <1>1 DEF Held, Remembers, ExitIsTrue, Forward, Unreported, FitsStatus
<1>6. GreenIsTrue(s)'
  BY <1>1 DEF Held, Remembers, GreenIsTrue, Forward, FitsStatus
<1>7. CodeFits(s)'
  BY <1>1 DEF Held, CodeFits, FitsStatus
<1> QED BY <1>2, <1>3, <1>4, <1>5, <1>6, <1>7 DEF Held

\* The account changes and no caller moves.
LEMMA AccountMoves ==
  ASSUME SweepInv, Forward, UNCHANGED <<fixture, age, stage, red, cmd, faults>>,
         res' \in [Resources -> States],
         index' \subseteq Resources, \A r \in index' : ~Untagged(r) /\ res'[r] # "none"
  PROVE  SweepInv'
<1>1. Types'
  BY DEF SweepInv, Types, Forward, Untagged
<1>2. InTime' /\ OldEnough'
  BY DEF SweepInv, InTime, OldEnough
<1>3. ASSUME NEW s \in Callers PROVE Held(s)'
  BY HeldIsKept
<1> QED BY <1>1, <1>2, <1>3 DEF SweepInv

\* A caller enters a stage; a runner that does not end here enters none as reported.
LEMMA EnterMoves ==
  ASSUME SweepInv, NEW s \in Callers, NEW to \in Stages, Enter(s, to), to # "new",
         UNCHANGED <<fixture, account, res, index, age>>,
         red' \in [Runs -> BOOLEAN], \A u \in Runs \ {s} : red'[u] = red[u],
         s \in Runs /\ to = "reported" => red'[s],
         s \in Runs /\ to = "testing" => age[s] = 0,
         faults' \in 0..MaxFaults
  PROVE  SweepInv'
<1>1. /\ NoCmd \in Commands /\ NoCmd.step = "start" /\ NoCmd.seen = {} /\ NoCmd.pending = {}
      /\ NoCmd.code = 0 /\ Types
  BY BudgetAssumption DEF NoCmd, Commands, SweepInv
<1>2. /\ cmd' = [cmd EXCEPT ![s] = NoCmd] /\ stage' = [stage EXCEPT ![s] = to]
      /\ cmd \in [Callers -> Commands] /\ stage \in [Callers -> Stages]
  BY <1>1 DEF Enter, Types
<1> HIDE DEF NoCmd, Commands, Stages
<1>3. /\ cmd' \in [Callers -> Commands] /\ stage' \in [Callers -> Stages]
      /\ cmd'[s] = NoCmd /\ stage'[s] = to
      /\ \A q \in Callers \ {s} : cmd'[q] = cmd[q] /\ stage'[q] = stage[q]
  BY <1>1, <1>2
<1>4. Types'
  BY <1>1, <1>3 DEF Types, Untagged
<1>5. InTime'
  <2> SUFFICES ASSUME NEW u \in Runs
               PROVE  (stage'[u] = "new" => age[u] = 0) /\ (stage'[u] = "testing" => age[u] <= GoTimeout)
    BY DEF InTime
  <2>1. CASE u = s
    BY <2>1, <1>3, TimesAssumption
  <2>2. CASE u # s
    BY <2>2, <1>3 DEF SweepInv, InTime, Callers
  <2> QED BY <2>1, <2>2
<1>6. OldEnough'
  <2>1. CASE s = "global"
    BY <2>1, <1>1, <1>3 DEF OldEnough, Working
  <2>2. CASE s # "global"
    <3>1. "global" \in Callers /\ cmd'["global"] = cmd["global"]
      BY <2>2, <1>3 DEF Callers
    <3> QED BY <3>1 DEF SweepInv, OldEnough
  <2> QED BY <2>1, <2>2
<1>7. Held(s)'
  BY <1>1, <1>3 DEF Held, InMode, Remembers, Accounts, CodeFits, ExitIsTrue, GreenIsTrue, Working
<1>8. Forward
  BY DEF Forward
<1>9. ASSUME NEW q \in Callers PROVE Held(q)'
  <2>1. CASE q = s
    BY <2>1, <1>7
  <2>2. CASE q # s
    BY <2>2, <1>3, <1>8, HeldIsKept
  <2> QED BY <2>1, <2>2
<1> QED BY <1>4, <1>5, <1>6, <1>9 DEF SweepInv

-----------------------------------------------------------------------------
(***************************************************************************)
(* The sweep command: every step of it that leaves a sound command behind  *)
(* keeps the invariant.                                                    *)
(***************************************************************************)

\* What Held and OldEnough ask of the command c that s goes on with.
Sound(s, c) ==
  /\ c.step \in {"pass", "ce"} => stage[s] \in Deleting
  /\ c.step = "probe" => stage[s] \in Checking
  /\ c.step \in Working => account = "swept"
  /\ c.step = "ce" => c.pending = {}
  /\ c.pending # {} => c.pass # MaxPasses
  /\ c.step = "exit" /\ c.code = 0 => account = "swept"
  /\ FitsStatus => c.code < 256
  /\ \A r \in c.seen : res'[r] = "live" =>
       /\ c.step = "probe" => r \in c.todo
       /\ c.step = "pass" => r \in index /\ (s # "global" => RunOf[r] = s)
       /\ c.step \in {"pass", "ce"} =>
            r \in c.todo \cup c.pending \cup c.bad \cup c.missed \/ Unreported(r)
       /\ c.step = "exit" /\ c.code = 0 /\ (s = "global" => FitsStatus) /\ r \notin c.missed =>
            stage[s] \in Deleting /\ Unreported(r)
  /\ s = "global" /\ c.step \in Working =>
       /\ \A u \in AutoId \ c.young : age[u] = MinAge
       /\ \A r \in c.todo \cup c.seen :
            RunOf[r] \in AutoId /\ Kind[r] # "undated" => age[RunOf[r]] = MinAge

\* The fields of the command after Set.
LEMMA SetMoves ==
  ASSUME cmd \in [Callers -> Commands], NEW s \in Callers, NEW c \in Commands, Set(s, c)
  PROVE  /\ cmd' \in [Callers -> Commands]
         /\ cmd'[s].step = c.step /\ cmd'[s].pass = c.pass /\ cmd'[s].todo = c.todo
         /\ cmd'[s].pending = c.pending /\ cmd'[s].bad = c.bad
         /\ cmd'[s].young = c.young /\ cmd'[s].code = c.code
         /\ cmd'[s].seen = {r \in c.seen : res'[r] = "live"}
         /\ cmd'[s].missed = {r \in c.missed : res'[r] = "live"}
         /\ \A q \in Callers \ {s} : cmd'[q] = cmd[q]
<1> DEFINE new == [c EXCEPT !.seen   = {r \in c.seen : res'[r] = "live"},
                           !.missed = {r \in c.missed : res'[r] = "live"}]
<1>1. /\ new \in Commands
      /\ new.step = c.step /\ new.pass = c.pass /\ new.todo = c.todo
      /\ new.pending = c.pending /\ new.bad = c.bad
      /\ new.young = c.young /\ new.code = c.code
      /\ new.seen = {r \in c.seen : res'[r] = "live"}
      /\ new.missed = {r \in c.missed : res'[r] = "live"}
  BY DEF Commands
<1>2. cmd' = [cmd EXCEPT ![s] = new]
  BY DEF Set
<1> HIDE DEF new, Commands
<1>3. cmd' \in [Callers -> Commands] /\ cmd'[s] = new /\ \A q \in Callers \ {s} : cmd'[q] = cmd[q]
  BY <1>1, <1>2
<1> QED BY <1>1, <1>3

\* What a step of a command may do to the account: it takes away.
TakesAway ==
  /\ res' \in [Resources -> States]
  /\ \A r \in Resources : /\ res[r] # "none" => res'[r] # "none"
                          /\ res'[r] = "live" => res[r] = "live"

LEMMA CommandMoves ==
  ASSUME SweepInv, NEW s \in Callers, stage[s] \in Checking \cup Deleting,
         NEW c \in Commands, Set(s, c), Sound(s, c), TakesAway,
         UNCHANGED <<fixture, account, index, age, stage, red>>, faults' \in 0..MaxFaults
  PROVE  SweepInv'
<1>1. /\ cmd' \in [Callers -> Commands]
      /\ cmd'[s].step = c.step /\ cmd'[s].pass = c.pass /\ cmd'[s].todo = c.todo
      /\ cmd'[s].pending = c.pending /\ cmd'[s].bad = c.bad
      /\ cmd'[s].young = c.young /\ cmd'[s].code = c.code
      /\ cmd'[s].seen = {r \in c.seen : res'[r] = "live"}
      /\ cmd'[s].missed = {r \in c.missed : res'[r] = "live"}
      /\ \A q \in Callers \ {s} : cmd'[q] = cmd[q]
  BY SetMoves DEF SweepInv, Types
<1> HIDE DEF Commands
<1>2. Types'
  BY <1>1 DEF SweepInv, Types, TakesAway, Untagged
<1>3. InTime'
  BY DEF SweepInv, InTime
<1>4. OldEnough'
  <2>1. CASE s = "global"
    BY <2>1, <1>1 DEF Sound, OldEnough
  <2>2. CASE s # "global"
    <3>1. "global" \in Callers /\ cmd'["global"] = cmd["global"]
      BY <2>2, <1>1 DEF Callers
    <3> QED BY <3>1 DEF SweepInv, OldEnough
  <2> QED BY <2>1, <2>2
<1>5. Held(s)'
  <2>1. InMode(s)'
    BY <1>1 DEF Sound, InMode
  <2>2. Remembers(s)'
    BY <1>1 DEF Sound, Remembers
  <2>3. Accounts(s)'
    BY <1>1 DEF Sound, Accounts, Unreported
  <2>4. ExitIsTrue(s)'
    BY <1>1 DEF Sound, ExitIsTrue, Unreported, FitsStatus
  <2>5. GreenIsTrue(s)'
    BY DEF GreenIsTrue, Checking, Deleting
  <2>6. CodeFits(s)'
    BY <1>1 DEF Sound, CodeFits, FitsStatus
  <2> QED BY <2>1, <2>2, <2>3, <2>4, <2>5, <2>6 DEF Held
<1>6. Forward
  BY DEF TakesAway, Forward
<1>7. ASSUME NEW q \in Callers PROVE Held(q)'
  <2>1. CASE q = s
    BY <2>1, <1>5
  <2>2. CASE q # s
    BY <2>2, <1>1, <1>6, HeldIsKept
  <2> QED BY <2>1, <2>2
<1> QED BY <1>2, <1>3, <1>4, <1>7 DEF SweepInv

LEMMA NoCmdIs ==
  /\ NoCmd \in Commands
  /\ NoCmd.step = "start" /\ NoCmd.pass = 0 /\ NoCmd.todo = {} /\ NoCmd.pending = {}
  /\ NoCmd.bad = {} /\ NoCmd.seen = {} /\ NoCmd.missed = {} /\ NoCmd.young = {} /\ NoCmd.code = 0
BY BudgetAssumption DEF NoCmd, Commands

\* A command that exits is sound if status 0 is justified.
LEMMA ExitMoves ==
  ASSUME SweepInv, NEW s \in Callers, stage[s] \in Checking \cup Deleting,
         NEW status \in {0, 1}, Exit(s, status), UNCHANGED res,
         status = 0 => /\ account = "swept" /\ stage[s] \in Deleting
                       /\ \A r \in cmd[s].seen \ cmd[s].missed :
                            res[r] = "live" => Unreported(r),
         UNCHANGED <<fixture, account, index, age, stage, red>>, faults' \in 0..MaxFaults
  PROVE  SweepInv'
<1> DEFINE new == [NoCmd EXCEPT !.step = "exit", !.code = status,
                               !.seen = cmd[s].seen, !.missed = cmd[s].missed]
<1>1. /\ cmd[s] \in Commands /\ cmd[s].seen \subseteq Resources /\ cmd[s].missed \subseteq Resources
      /\ status \in Nat
  BY DEF SweepInv, Types, Commands
<1>2. /\ new \in Commands
      /\ new.step = "exit" /\ new.pending = {} /\ new.code = status /\ new.seen = cmd[s].seen
      /\ new.missed = cmd[s].missed
  BY <1>1, NoCmdIs DEF Commands
<1>3. Set(s, new)
  BY DEF Exit
<1> HIDE DEF new, Commands
<1>4. Sound(s, new)
  BY <1>2 DEF Sound, Working
<1>5. TakesAway
  BY DEF SweepInv, Types, TakesAway
<1> QED BY <1>2, <1>3, <1>4, <1>5, CommandMoves

LEMMA CommandFailsKeeps ==
  ASSUME SweepInv, NEW s \in Callers, CommandFails(s)
  PROVE  SweepInv'
<1>1. stage[s] \in Checking \cup Deleting /\ faults' \in 0..MaxFaults
  BY BudgetAssumption DEF CommandFails, At, Fault, SweepInv, Types
<1> QED BY <1>1, ExitMoves DEF CommandFails

LEMMA EnumerateKeeps ==
  ASSUME SweepInv, NEW s \in Callers, Enumerate(s)
  PROVE  SweepInv'
<1>1. /\ stage[s] \in Checking \cup Deleting /\ faults' \in 0..MaxFaults
      /\ UNCHANGED <<fixture, account, res, index, age, stage, red>> /\ Types
  BY DEF Enumerate, At, SweepInv, Types
<1>2. CASE account # "swept"
  BY <1>1, <1>2, ExitMoves DEF Enumerate
<1>3. CASE account = "swept"
  <2> DEFINE found == Inventory(s)
             to  == IF stage[s] \in Checking THEN "probe" ELSE "pass"
             new == [NoCmd EXCEPT !.step = to, !.pass = 1, !.todo = found, !.seen = found,
                                  !.young = Young]
  <2>1. /\ found \subseteq Resources /\ found \subseteq index /\ Young \subseteq Runs
        /\ \A r \in found : s # "global" => RunOf[r] = s
        /\ \A r \in found : s = "global" => RunOf[r] \notin Young
    BY <1>1, ResourcesAssumption DEF Types, Inventory, Young
  <2>2. Set(s, new)
    BY <1>3 DEF Enumerate
  <2>3. \A u \in AutoId \ Young : age[u] = MinAge
    BY <1>1, ResourcesAssumption, TimesAssumption DEF Types, Young
  <2>4. to = (IF stage[s] \in Checking THEN "probe" ELSE "pass") /\ 1 \in 0..MaxPasses
    BY BudgetAssumption
  <2>5. to \in {"probe", "pass"}
    OBVIOUS
  <2> HIDE DEF found, to
  <2>6. /\ new \in Commands
        /\ new.step = to
        /\ new.pending = {} /\ new.todo = found /\ new.seen = found /\ new.young = Young
        /\ new.code = 0
    BY <2>1, <2>4, <2>5, NoCmdIs DEF Commands
  <2> HIDE DEF new, Commands
  <2>7. Sound(s, new)
    BY <1>1, <1>3, <2>4, <2>1, <2>3, <2>6 DEF Sound, Working, Checking, Deleting
  <2>8. TakesAway
    BY <1>1 DEF Types, TakesAway
  <2> QED BY <1>1, <2>2, <2>6, <2>7, <2>8, CommandMoves
<1> QED BY <1>2, <1>3

\* Check mode: status 0 is a count of nothing but what a failed describe hid.
LEMMA ProbeKeeps ==
  ASSUME SweepInv, NEW s \in Callers, Probe(s)
  PROVE  SweepInv'
<1> DEFINE ce == CostExplorer(s)
           hidden == {r \in cmd[s].todo : Kind[r] = "ecs" /\ res[r] = "live"}
<1>0. PICK missed \in SUBSET hidden :
        LET found == {r \in cmd[s].todo \ missed : Residue(r)} \cup ce
        IN  /\ At(s, "probe") /\ UNCHANGED res
            /\ IF missed = {} THEN UNCHANGED faults ELSE Fault
            /\ Set(s, [NoCmd EXCEPT !.step = "exit", !.seen = cmd[s].seen \cup ce,
                                    !.missed = missed,
                                    !.code = IF s = "global" THEN Cardinality(found) % 256
                                             ELSE Cardinality(found)])
            /\ UNCHANGED <<fixture, account, index, age, stage, red>>
  BY DEF Probe
<1> DEFINE found  == {r \in cmd[s].todo \ missed : Residue(r)} \cup ce
           status == IF s = "global" THEN Cardinality(found) % 256 ELSE Cardinality(found)
           seen   == cmd[s].seen \cup ce
           new    == [NoCmd EXCEPT !.step = "exit", !.seen = seen, !.missed = missed,
                                   !.code = status]
<1>1. /\ stage[s] \in Checking \cup Deleting /\ faults' \in 0..MaxFaults
      /\ UNCHANGED <<fixture, account, res, index, age, stage, red>> /\ Types
      /\ cmd[s].step = "probe" /\ Held(s) /\ cmd[s] \in Commands
  BY <1>0, BudgetAssumption DEF At, Fault, SweepInv, Types
<1>2. Set(s, new)
  BY <1>0
<1>3. /\ cmd[s].todo \subseteq Resources /\ cmd[s].seen \subseteq Resources
      /\ account = "swept" /\ cmd[s].seen \subseteq cmd[s].todo
  BY <1>1 DEF Commands, Held, InMode, Remembers, Working
<1>4. ce \subseteq Resources /\ missed \subseteq Resources
  BY <1>0, <1>3 DEF CostExplorer
<1>5. /\ \A r \in cmd[s].todo : res[r] = "live" => Residue(r)
      /\ found \subseteq Resources /\ seen \subseteq Resources
  BY <1>3, <1>4 DEF Residue
<1>6. \A r \in seen : res[r] = "live" => r \in found \/ r \in missed
  BY <1>3, <1>5
<1> HIDE DEF ce, found, seen, hidden
<1>7. IsFiniteSet(found) /\ IsFiniteSet(Resources) /\ Cardinality(found) <= Cardinality(Resources)
  BY <1>5, ResourcesAssumption, FS_Subset
<1>8. /\ Cardinality(found) \in Nat /\ Cardinality(Resources) \in Nat
      /\ Cardinality(found) = 0 => found = {}
  BY <1>7, FS_CardinalityType, FS_EmptySet
<1>9. /\ status \in Nat
      /\ status = 0 /\ (s = "global" => FitsStatus) => found = {}
      /\ FitsStatus => status < 256
  BY <1>7, <1>8 DEF FitsStatus
<1> HIDE DEF status
<1>10. /\ new \in Commands
       /\ new.step = "exit" /\ new.pending = {} /\ new.code = status /\ new.seen = seen
       /\ new.missed = missed
  BY <1>4, <1>5, <1>9, NoCmdIs DEF Commands
<1> HIDE DEF new, Commands
<1>11. Sound(s, new)
  BY <1>1, <1>3, <1>6, <1>9, <1>10 DEF Sound, Working
<1>12. TakesAway
  BY <1>1 DEF Types, TakesAway
<1> QED BY <1>1, <1>2, <1>10, <1>11, <1>12, CommandMoves

\* The last pass: nothing is deferred any more.
LEMMA LastPass ==
  ASSUME SweepInv, NEW s \in Callers, At(s, "pass") \/ At(s, "ce"), cmd[s].todo = {}, ~Again(s)
  PROVE  /\ cmd[s].pending = {} /\ account = "swept" /\ stage[s] \in Deleting
         /\ \A r \in cmd[s].seen :
              res[r] = "live" => r \in cmd[s].bad \cup cmd[s].missed \/ Unreported(r)
<1>1. Held(s) /\ cmd[s].step \in {"pass", "ce"}
  BY DEF SweepInv, At
<1>2. cmd[s].pending = {} /\ account = "swept" /\ stage[s] \in Deleting
  BY <1>1 DEF Held, InMode, Again, FinalPass, Working
<1> QED BY <1>1, <1>2 DEF Held, Accounts

\* The end of the command: status 0 is an empty list of failures.
LEMMA StatusMoves ==
  ASSUME SweepInv, NEW s \in Callers, At(s, "pass") \/ At(s, "ce"), cmd[s].todo = {}, ~Again(s),
         Exit(s, Status(s)), UNCHANGED <<fixture, account, res, index, age, stage, red, faults>>
  PROVE  SweepInv'
<1>1. /\ account = "swept" /\ stage[s] \in Deleting
      /\ \A r \in cmd[s].seen :
           res[r] = "live" => r \in cmd[s].bad \cup cmd[s].missed \/ Unreported(r)
  BY LastPass
<1>2. Status(s) \in {0, 1} /\ (Status(s) = 0 => cmd[s].bad = {}) /\ faults' \in 0..MaxFaults
  BY DEF Status, SweepInv, Types
<1>3. Status(s) = 0 => /\ account = "swept" /\ stage[s] \in Deleting
                       /\ \A r \in cmd[s].seen \ cmd[s].missed :
                            res[r] = "live" => Unreported(r)
  BY <1>1, <1>2
<1> QED BY <1>1, <1>2, <1>3, ExitMoves

LEMMA DeleteEndsKeeps ==
  ASSUME SweepInv, NEW s \in Callers, DeleteEnds(s)
  PROVE  SweepInv'
<1>1. ~Again(s) /\ At(s, "ce")
  BY DEF DeleteEnds, Again, FinalPass, At
<1> QED BY <1>1, StatusMoves DEF DeleteEnds

\* Another pass enumerates all that is live of what the earlier ones saw.
LEMMA FreshInventory ==
  ASSUME SweepInv, NEW s \in Callers, At(s, "pass")
  PROVE  /\ Inventory(s) \subseteq Resources /\ Inventory(s) \subseteq index
         /\ \A r \in cmd[s].seen : res[r] = "live" => r \in Inventory(s)
         /\ \A r \in Inventory(s) : s # "global" => RunOf[r] = s
         /\ \A r \in Inventory(s) : s = "global" /\ RunOf[r] \in AutoId => age[RunOf[r]] = MinAge
<1>1. Types /\ Held(s) /\ cmd[s].step = "pass" /\ cmd[s] \in Commands
  BY DEF SweepInv, Types, At
<1>2. \A u \in Runs : age[u] \in Nat /\ age[u] <= MinAge
  BY <1>1, TimesAssumption DEF Types
<1>3. \A u \in AutoId : u \notin Young <=> age[u] = MinAge
  BY <1>2, ResourcesAssumption, TimesAssumption DEF Young
<1>4. Young \subseteq AutoId
  BY DEF Young
<1>5. ASSUME NEW r \in cmd[s].seen, res[r] = "live" PROVE r \in Inventory(s)
  <2>1. r \in index /\ (s # "global" => RunOf[r] = s)
    BY <1>1, <1>5 DEF Held, Remembers
  <2>2. Kind[r] # "undated"
    BY <1>1, <2>1 DEF Types, Untagged
  <2>3. s = "global" /\ RunOf[r] \in AutoId => age[RunOf[r]] = MinAge
    BY <1>1, <2>2 DEF SweepInv, OldEnough, Working
  <2> QED BY <1>3, <1>4, <2>1, <2>3 DEF Inventory
<1>6. /\ Inventory(s) \subseteq Resources /\ Inventory(s) \subseteq index
      /\ \A r \in Inventory(s) : s # "global" => RunOf[r] = s
      /\ \A r \in Inventory(s) : s = "global" => RunOf[r] \notin Young
  BY <1>1 DEF Inventory, Types
<1> QED BY <1>3, <1>5, <1>6

LEMMA PassEndsKeeps ==
  ASSUME SweepInv, NEW s \in Callers, PassEnds(s)
  PROVE  SweepInv'
<1>1. /\ stage[s] \in Checking \cup Deleting /\ faults' \in 0..MaxFaults /\ At(s, "pass")
      /\ UNCHANGED <<fixture, account, res, index, age, stage, red>> /\ Types
      /\ cmd[s].step = "pass" /\ Held(s) /\ cmd[s] \in Commands /\ cmd[s].todo = {}
  BY DEF PassEnds, At, SweepInv, Types
<1>2. /\ cmd[s].pass \in 0..MaxPasses /\ cmd[s].bad \subseteq Resources
      /\ cmd[s].seen \subseteq Resources
  BY <1>1 DEF Commands
<1>3. TakesAway
  BY <1>1 DEF Types, TakesAway
<1>4. account = "swept" /\ stage[s] \in Deleting
  BY <1>1 DEF Held, InMode, Working
<1>5. CASE Again(s)
  <2> DEFINE found == Inventory(s)
             seen  == cmd[s].seen \cup found
             next  == cmd[s].pass + 1
             new   == [cmd[s] EXCEPT !.pass = next, !.todo = found, !.pending = {}, !.bad = {},
                                     !.missed = {}, !.seen = seen]
  <2>1. /\ found \subseteq Resources /\ found \subseteq index /\ seen \subseteq Resources
        /\ \A r \in seen : res[r] = "live" => r \in found
        /\ \A r \in found : s # "global" => RunOf[r] = s
        /\ \A r \in found : s = "global" /\ RunOf[r] \in AutoId => age[RunOf[r]] = MinAge
    BY <1>1, <1>2, FreshInventory
  <2>2. Set(s, new)
    BY <1>5 DEF PassEnds
  <2>3. next \in 0..MaxPasses
    BY <1>2, <1>5, BudgetAssumption DEF Again, FinalPass
  <2>4. s = "global" => /\ \A u \in AutoId \ cmd[s].young : age[u] = MinAge
                        /\ \A r \in cmd[s].seen : RunOf[r] \in AutoId /\ Kind[r] # "undated" =>
                                                    age[RunOf[r]] = MinAge
    BY <1>1 DEF SweepInv, OldEnough, Working
  <2>5. s = "global" => \A r \in found \cup seen : RunOf[r] \in AutoId /\ Kind[r] # "undated" =>
                                                     age[RunOf[r]] = MinAge
    BY <2>1, <2>4
  <2> HIDE DEF found, seen, next
  <2>6. /\ new \in Commands
        /\ new.step = "pass" /\ new.pending = {} /\ new.todo = found /\ new.seen = seen
        /\ new.young = cmd[s].young /\ new.code = cmd[s].code
    BY <1>1, <2>1, <2>3 DEF Commands
  <2> HIDE DEF new, Commands
  <2>7. Sound(s, new)
    BY <1>1, <1>4, <2>1, <2>4, <2>5, <2>6 DEF Sound, Working, Held, CodeFits
  <2> QED BY <1>1, <1>3, <2>2, <2>6, <2>7, CommandMoves
<1>6. CASE ~Again(s) /\ s # "global"
  BY <1>1, <1>6, StatusMoves DEF PassEnds
<1>7. CASE ~Again(s) /\ s = "global"
  <2> DEFINE ce   == CostExplorer(s)
             seen == cmd[s].seen \cup ce
             new  == [cmd[s] EXCEPT !.step = "ce", !.todo = ce, !.pending = {}, !.seen = seen]
  <2>1. \A r \in cmd[s].seen :
          res[r] = "live" => r \in cmd[s].bad \cup cmd[s].missed \/ Unreported(r)
    BY <1>1, <1>7, LastPass
  <2>2. Set(s, new)
    BY <1>7 DEF PassEnds
  <2>3. /\ \A u \in AutoId \ cmd[s].young : age[u] = MinAge
        /\ \A r \in cmd[s].seen : RunOf[r] \in AutoId /\ Kind[r] # "undated" =>
                                    age[RunOf[r]] = MinAge
    BY <1>1, <1>7 DEF SweepInv, OldEnough, Working
  <2>4. /\ ce \subseteq Resources /\ seen \subseteq Resources
        /\ \A r \in ce : Kind[r] = "dated" \/ Kind[r] = "undated"
        /\ \A r \in ce : Kind[r] = "dated" => RunOf[r] \notin cmd[s].young
    BY <1>2 DEF CostExplorer, Untagged
  <2>5. \A r \in ce \cup seen : RunOf[r] \in AutoId /\ Kind[r] # "undated" =>
                                  age[RunOf[r]] = MinAge
    BY <2>3, <2>4
  <2>6. \A r \in seen :
          res[r] = "live" => r \in ce \/ r \in cmd[s].bad \cup cmd[s].missed \/ Unreported(r)
    BY <2>1
  <2> HIDE DEF ce, seen
  <2>7. /\ new \in Commands
        /\ new.step = "ce" /\ new.pending = {} /\ new.todo = ce /\ new.seen = seen
        /\ new.young = cmd[s].young /\ new.bad = cmd[s].bad /\ new.missed = cmd[s].missed
        /\ new.code = cmd[s].code
    BY <1>1, <2>4 DEF Commands
  <2> HIDE DEF new, Commands
  <2>8. Sound(s, new)
    BY <1>1, <1>4, <1>7, <2>3, <2>5, <2>6, <2>7 DEF Sound, Working, Held, CodeFits
  <2> QED BY <1>1, <1>3, <2>2, <2>7, <2>8, CommandMoves
<1> QED BY <1>5, <1>6, <1>7

\* What an accepted delete does to the account.
LEMMA DeletedTakesAway ==
  ASSUME SweepInv, NEW r \in Resources, res[r] = "live", res' = Deleted(r)
  PROVE  /\ TakesAway /\ res'[r] # "live"
         /\ \A q \in Resources : res[q] = "live" /\ res'[q] # "live" =>
              q = r \/ (Kind[q] = "default_sg" /\ r \in Needs[q])
<1>1. res \in [Resources -> States]
  BY DEF SweepInv, Types
<1>2. \A q \in Resources :
        res'[q] = IF q = r THEN IF Kind[r] \in {"slow", "ecs"} THEN "deleting" ELSE "gone"
                  ELSE IF Kind[q] = "default_sg" /\ r \in Needs[q] /\ Exists(q) THEN "gone"
                  ELSE res[q]
  BY DEF Deleted
<1>3. res' \in [Resources -> States]
  BY <1>1 DEF Deleted, States
<1> QED BY <1>1, <1>2, <1>3 DEF TakesAway, Exists, States

\* A delete that is not blocked, in vain or not reported leaves the list of things to do
\* for one of the lists that count.
LEMMA DispatchDeleteKeeps ==
  ASSUME SweepInv, NEW s \in Callers, NEW r \in Resources, DispatchDelete(s, r)
  PROVE  SweepInv'
<1> DEFINE todo == cmd[s].todo \ {r}
           more == cmd[s].bad \cup {r}
           wait == cmd[s].pending \cup {r}
           lost == cmd[s].missed \cup {r}
           done == [cmd[s] EXCEPT !.todo = todo]
           Bad  == [done EXCEPT !.bad = more]
           BadD == [cmd[s] EXCEPT !.todo = todo, !.bad = more]
           Pend == [cmd[s] EXCEPT !.todo = todo, !.pending = wait]
           Miss == [done EXCEPT !.missed = lost]
           Lost == [cmd[s] EXCEPT !.todo = todo, !.missed = lost]
<1>1. /\ stage[s] \in Checking \cup Deleting /\ r \in cmd[s].todo
      /\ UNCHANGED <<fixture, account, index, age, stage, red>> /\ Types
      /\ cmd[s].step \in {"pass", "ce"} /\ Held(s) /\ cmd[s] \in Commands
  BY DEF DispatchDelete, At, SweepInv, Types
<1>2. /\ cmd[s].todo \subseteq Resources /\ cmd[s].bad \subseteq Resources
      /\ cmd[s].pending \subseteq Resources /\ cmd[s].seen \subseteq Resources
      /\ cmd[s].missed \subseteq Resources
  BY <1>1 DEF Commands
<1>3. /\ account = "swept" /\ stage[s] \in Deleting /\ (FitsStatus => cmd[s].code < 256)
      /\ cmd[s].step = "ce" => cmd[s].pending = {}
      /\ cmd[s].pending # {} => cmd[s].pass # MaxPasses
      /\ \A q \in cmd[s].seen : res[q] = "live" =>
           /\ cmd[s].step = "pass" => q \in index /\ (s # "global" => RunOf[q] = s)
           /\ q \in cmd[s].todo \cup cmd[s].pending \cup cmd[s].bad \cup cmd[s].missed \/ Unreported(q)
  BY <1>1 DEF Held, InMode, Remembers, Accounts, CodeFits, Working
<1>4. s = "global" => /\ \A u \in AutoId \ cmd[s].young : age[u] = MinAge
                      /\ \A q \in cmd[s].todo \cup cmd[s].seen :
                           RunOf[q] \in AutoId /\ Kind[q] # "undated" => age[RunOf[q]] = MinAge
  BY <1>1 DEF SweepInv, OldEnough, Working
\* The command afterwards, whatever became of r.
<1>5. ASSUME NEW c \in Commands, Set(s, c), TakesAway, faults' \in 0..MaxFaults,
             c.step = cmd[s].step, c.pass = cmd[s].pass, c.seen = cmd[s].seen,
             c.young = cmd[s].young, c.todo = todo, c.code = cmd[s].code,
             c.pending = cmd[s].pending \/ (c.pending = wait /\ ~FinalPass(s)),
             c.bad = cmd[s].bad \/ c.bad = more, c.missed = cmd[s].missed \/ c.missed = lost,
             r \in c.pending \cup c.bad \cup c.missed \/ Unreported(r) \/ res'[r] # "live"
      PROVE  SweepInv'
  <2>1. /\ c.step = "ce" => c.pending = {}
        /\ c.pending # {} => c.pass # MaxPasses
    BY <1>3, <1>5 DEF FinalPass
  <2>2. \A q \in c.seen : res'[q] = "live" => res[q] = "live"
    BY <1>2, <1>5 DEF TakesAway
  <2>3. \A q \in c.seen : res'[q] = "live" =>
          /\ c.step = "pass" => q \in index /\ (s # "global" => RunOf[q] = s)
          /\ q \in c.todo \cup c.pending \cup c.bad \cup c.missed \/ Unreported(q)
    BY <1>3, <1>5, <2>2
  <2>4. Sound(s, c)
    BY <1>1, <1>3, <1>4, <1>5, <2>1, <2>3 DEF Sound, Working
  <2> QED BY <1>1, <1>5, <2>4, CommandMoves
<1>6. /\ todo \in SUBSET Resources /\ more \in SUBSET Resources /\ wait \in SUBSET Resources
      /\ lost \in SUBSET Resources /\ r \in more /\ r \in wait /\ r \in lost
  BY <1>2
<1> HIDE DEF todo, more, wait, lost
<1>7. /\ done \in Commands /\ done.step = cmd[s].step /\ done.pass = cmd[s].pass
      /\ done.seen = cmd[s].seen /\ done.young = cmd[s].young /\ done.todo = todo
      /\ done.pending = cmd[s].pending /\ done.bad = cmd[s].bad
      /\ done.missed = cmd[s].missed /\ done.code = cmd[s].code
  BY <1>1, <1>6 DEF Commands
<1>8. /\ BadD \in Commands /\ BadD.step = cmd[s].step /\ BadD.pass = cmd[s].pass
      /\ BadD.seen = cmd[s].seen /\ BadD.young = cmd[s].young /\ BadD.todo = todo
      /\ BadD.pending = cmd[s].pending /\ BadD.bad = more
      /\ BadD.missed = cmd[s].missed /\ BadD.code = cmd[s].code
  BY <1>1, <1>6 DEF Commands
<1>9. /\ Pend \in Commands /\ Pend.step = cmd[s].step /\ Pend.pass = cmd[s].pass
      /\ Pend.seen = cmd[s].seen /\ Pend.young = cmd[s].young /\ Pend.todo = todo
      /\ Pend.pending = wait /\ Pend.bad = cmd[s].bad
      /\ Pend.missed = cmd[s].missed /\ Pend.code = cmd[s].code
  BY <1>1, <1>6 DEF Commands
<1>19. /\ Lost \in Commands /\ Lost.step = cmd[s].step /\ Lost.pass = cmd[s].pass
       /\ Lost.seen = cmd[s].seen /\ Lost.young = cmd[s].young /\ Lost.todo = todo
       /\ Lost.pending = cmd[s].pending /\ Lost.bad = cmd[s].bad
       /\ Lost.missed = lost /\ Lost.code = cmd[s].code
  BY <1>1, <1>6 DEF Commands
<1>10. /\ UNCHANGED res => TakesAway
       /\ UNCHANGED faults => faults' \in 0..MaxFaults
       /\ Fault => faults' \in 0..MaxFaults
  BY <1>1, BudgetAssumption DEF Types, TakesAway, Fault
<1>11. Bad = BadD /\ Miss = Lost
  <2> HIDE DEF Commands
  <2> QED OBVIOUS
<1>12. /\ cmd[s].bad \cup {r} = more /\ cmd[s].todo \ {r} = todo /\ cmd[s].pending \cup {r} = wait
       /\ cmd[s].missed \cup {r} = lost
  BY DEF more, todo, wait, lost
<1>13. Deferred(s, r) = IF FinalPass(s) THEN BadD ELSE Pend
  BY <1>12 DEF Deferred
<1>14. CASE UNCHANGED <<res, faults>> /\ Set(s, Bad)
  <2> HIDE DEF done, Bad, BadD, Pend, Miss, Lost, Commands
  <2> QED BY <1>5, <1>6, <1>8, <1>10, <1>11, <1>14
<1>15. CASE /\ Kind[r] \in {"default_sg", "no_branch"} \/ res[r] # "live"
            /\ UNCHANGED <<res, faults>> /\ Set(s, done)
  <2> HIDE DEF done, Bad, BadD, Pend, Miss, Lost, Commands
  <2> QED BY <1>5, <1>7, <1>10, <1>15 DEF Unreported
<1>16. CASE UNCHANGED <<res, faults>> /\ Set(s, Deferred(s, r))
  <2> HIDE DEF done, Bad, BadD, Pend, Miss, Lost, Commands
  <2>1. CASE FinalPass(s)
    BY <1>5, <1>6, <1>8, <1>10, <1>13, <1>16, <2>1
  <2>2. CASE ~FinalPass(s)
    BY <1>5, <1>6, <1>9, <1>10, <1>13, <1>16, <2>2
  <2> QED BY <2>1, <2>2
<1>17. CASE res[r] = "live" /\ res' = Deleted(r) /\ Set(s, done) /\ UNCHANGED faults
  <2>1. TakesAway /\ res'[r] # "live"
    BY <1>17, DeletedTakesAway
  <2> HIDE DEF done, Bad, BadD, Pend, Miss, Lost, Commands
  <2> QED BY <1>5, <1>7, <1>10, <1>17, <2>1
<1>18. CASE Fault /\ UNCHANGED res /\ Set(s, Bad)
  <2> HIDE DEF done, Bad, BadD, Pend, Miss, Lost, Commands
  <2> QED BY <1>5, <1>6, <1>8, <1>10, <1>11, <1>18
<1>20. CASE UNCHANGED <<res, faults>> /\ Set(s, Miss)
  <2> HIDE DEF done, Bad, BadD, Pend, Miss, Lost, Commands
  <2> QED BY <1>5, <1>6, <1>10, <1>11, <1>19, <1>20
<1>21. done.missed = cmd[s].missed
  BY <1>7
<1> QED
  BY <1>12, <1>14, <1>15, <1>16, <1>17, <1>18, <1>20, <1>21 DEF DispatchDelete

-----------------------------------------------------------------------------
(***************************************************************************)
(* The runs, the workflow and the account.                                 *)
(***************************************************************************)

LEMMA ReturnKeeps ==
  ASSUME SweepInv, NEW s \in Callers, Return(s)
  PROVE  SweepInv'
<1>1. /\ stage[s] \in Checking \cup Deleting /\ cmd[s].step = "exit" /\ Held(s) /\ Types
      /\ UNCHANGED <<fixture, account, res, index, age, faults>>
      /\ "global" \notin Runs
  BY ResourcesAssumption DEF Return, At, SweepInv
<1>2. ASSUME NEW to \in Stages, to \notin {"new", "testing", "reported"}, Enter(s, to),
             UNCHANGED red
      PROVE  SweepInv'
  BY <1>1, <1>2, EnterMoves DEF Types
<1>3. CASE stage[s] = "check" /\ cmd[s].code # 0 /\ Enter(s, "delete") /\ UNCHANGED red
  BY <1>2, <1>3 DEF Stages, Deleting
<1>4. CASE stage[s] = "delete" /\ Enter(s, "recheck") /\ UNCHANGED red
  BY <1>2, <1>4 DEF Stages, Checking
\* The runner reports: green is a check with status 0.
<1>5. CASE /\ s \in Runs
           /\ stage[s] = "recheck" \/ (stage[s] = "check" /\ cmd[s].code = 0)
           /\ stage' = [stage EXCEPT ![s] = "reported"]
           /\ red' = [red EXCEPT ![s] = IF cmd[s].code = 0 THEN @ ELSE cmd[s].code % 256 # 0]
           /\ UNCHANGED cmd
  <2>1. /\ stage \in [Callers -> Stages] /\ red \in [Runs -> BOOLEAN] /\ s \in Runs /\ s # "global"
        /\ "reported" \in Stages
    BY <1>1, <1>5 DEF Types, Checking, Stages
  <2>2. /\ stage' \in [Callers -> Stages] /\ red' \in [Runs -> BOOLEAN]
        /\ stage'[s] = "reported"
        /\ red'[s] = IF cmd[s].code = 0 THEN red[s] ELSE cmd[s].code % 256 # 0
        /\ \A q \in Callers \ {s} : stage'[q] = stage[q]
        /\ \A q \in Runs \ {s} : red'[q] = red[q]
    <3> HIDE DEF Stages
    <3> QED BY <1>5, <2>1
  <2>3. Types'
    BY <1>1, <1>5, <2>2 DEF Types, Untagged
  <2>4. InTime' /\ OldEnough'
    BY <1>1, <1>5, <2>2 DEF SweepInv, InTime, OldEnough, Callers
  <2>5. GreenIsTrue(s)'
    <3>1. cmd[s].code \in Nat /\ (FitsStatus => cmd[s].code < 256)
      BY <1>1 DEF Types, Commands, Held, CodeFits
    <3>2. FitsStatus => cmd[s].code % 256 = cmd[s].code
      BY <3>1
    <3>3. FitsStatus /\ ~red'[s] => cmd[s].code = 0
      BY <2>2, <3>2
    <3> QED
      BY <1>1, <1>5, <2>1, <2>2, <3>3
         DEF Held, ExitIsTrue, GreenIsTrue, Checking, Deleting, FitsStatus
  <2>6. Held(s)'
    BY <1>1, <1>5, <2>2, <2>5
       DEF Held, InMode, Remembers, Accounts, CodeFits, ExitIsTrue, Checking, Deleting, Working,
           FitsStatus
  <2>7. Forward
    BY <1>1 DEF Forward
  <2>8. ASSUME NEW q \in Callers PROVE Held(q)'
    <3>1. CASE q = s
      BY <3>1, <2>6
    <3>2. CASE q # s
      BY <3>2, <1>5, <2>2, <2>7, HeldIsKept
    <3> QED BY <3>1, <3>2
  <2> QED BY <2>3, <2>4, <2>8 DEF SweepInv
<1>6. CASE stage[s] = "cleanup" /\ Enter(s, "ended") /\ UNCHANGED red
  BY <1>2, <1>6 DEF Stages
<1>7. CASE /\ s = "global" /\ UNCHANGED red
           /\ Enter(s, IF stage[s] = "delete" /\ cmd[s].code = 0 THEN "check" ELSE "idle")
  <2>1. CASE stage[s] = "delete" /\ cmd[s].code = 0
    BY <1>2, <1>7, <2>1 DEF Stages, Checking
  <2>2. CASE ~(stage[s] = "delete" /\ cmd[s].code = 0)
    BY <1>2, <1>7, <2>2 DEF Stages
  <2> QED BY <2>1, <2>2
<1> QED BY <1>3, <1>4, <1>5, <1>6, <1>7 DEF Return, RunnerReturns

\* A run enters another stage.
LEMMA RunEnters ==
  ASSUME SweepInv, NEW u \in Runs,
         \/ StartRun(u) \/ GoTestEnds(u) \/ RetryEnds(u) \/ CleanUp(u) \/ RunnerDies(u)
  PROVE  SweepInv'
<1>1. /\ u \in Callers /\ Types /\ red \in [Runs -> BOOLEAN] /\ faults \in 0..MaxFaults
      /\ stage[u] = "new" => age[u] = 0
  BY DEF SweepInv, Types, InTime, Callers
<1>2. /\ {"ended", "testing", "check", "retry", "reported", "cleanup"} \subseteq Stages
      /\ Fault => faults' \in 0..MaxFaults
  BY <1>1, BudgetAssumption DEF Stages, Checking, Deleting, Fault
<1>3. ASSUME red' = [red EXCEPT ![u] = TRUE]
      PROVE  /\ red' \in [Runs -> BOOLEAN] /\ red'[u]
             /\ \A q \in Runs \ {u} : red'[q] = red[q]
  BY <1>1, <1>3
<1>4. CASE StartRun(u)
  <2>1. CASE account = "denied"
    BY <1>1, <1>2, <1>4, <2>1, EnterMoves DEF StartRun
  <2>2. CASE account # "denied"
    BY <1>1, <1>2, <1>4, <2>2, EnterMoves DEF StartRun
  <2> QED BY <2>1, <2>2
<1>5. CASE GoTestEnds(u)
  <2>1. CASE Enter(u, "check") /\ UNCHANGED red
    BY <1>1, <1>2, <1>5, <2>1, EnterMoves DEF GoTestEnds
  <2>2. CASE Enter(u, "retry") /\ red' = [red EXCEPT ![u] = TRUE]
    BY <1>1, <1>2, <1>3, <1>5, <2>2, EnterMoves DEF GoTestEnds
  <2> QED BY <1>5, <2>1, <2>2 DEF GoTestEnds
<1>6. CASE RetryEnds(u)
  BY <1>1, <1>2, <1>6, EnterMoves DEF RetryEnds
<1>7. CASE CleanUp(u)
  BY <1>1, <1>2, <1>7, EnterMoves DEF CleanUp
<1>8. CASE RunnerDies(u)
  BY <1>1, <1>2, <1>3, <1>8, EnterMoves DEF RunnerDies
<1> QED BY <1>4, <1>5, <1>6, <1>7, <1>8

LEMMA JobLostKeeps ==
  ASSUME SweepInv, NEW s \in Callers, JobLost(s)
  PROVE  SweepInv'
<1>1. /\ Types /\ red \in [Runs -> BOOLEAN] /\ faults' \in 0..MaxFaults
      /\ {"idle", "lost"} \subseteq Stages
  BY BudgetAssumption DEF SweepInv, Types, JobLost, Fault, Stages
<1>2. CASE s = "global"
  BY <1>1, <1>2, EnterMoves DEF JobLost
<1>3. CASE s # "global"
  BY <1>1, <1>3, EnterMoves DEF JobLost
<1> QED BY <1>2, <1>3

LEMMA CronKeeps ==
  ASSUME SweepInv, Cron
  PROVE  SweepInv'
<1>1. /\ "global" \in Callers /\ "global" \notin Runs /\ "delete" \in Stages
      /\ Types /\ red \in [Runs -> BOOLEAN] /\ faults \in 0..MaxFaults
  BY ResourcesAssumption DEF SweepInv, Types, Callers, Stages, Deleting
<1> QED BY <1>1, EnterMoves DEF Cron

\* Time passes, but not for a go test that has used its own up.
LEMMA TickKeeps ==
  ASSUME SweepInv, Tick
  PROVE  SweepInv'
<1>1. /\ age \in [Runs -> 0..MinAge] /\ MinAge \in Nat /\ GoTimeout \in Nat /\ Types
      /\ UNCHANGED <<fixture, account, res, index, stage, red, cmd, faults>>
  BY TimesAssumption DEF SweepInv, Types, Tick
<1>2. \A u \in Runs : age'[u] = IF stage[u] # "new" /\ age[u] < MinAge THEN age[u] + 1 ELSE age[u]
  BY DEF Tick
<1>3. age' \in [Runs -> 0..MinAge]
  BY <1>1 DEF Tick
<1>4. \A u \in Runs : age[u] = MinAge => age'[u] = MinAge
  BY <1>1, <1>2
<1>5. InTime'
  <2> SUFFICES ASSUME NEW u \in Runs
               PROVE  (stage[u] = "new" => age'[u] = 0) /\ (stage[u] = "testing" => age'[u] <= GoTimeout)
    BY <1>1 DEF InTime
  <2>1. stage[u] = "new" => age[u] = 0
    BY DEF SweepInv, InTime
  <2>2. stage[u] = "testing" => age[u] < GoTimeout
    BY DEF Tick
  <2>3. age[u] \in 0..MinAge
    BY <1>1
  <2> QED BY <1>1, <1>2, <2>1, <2>2, <2>3
<1>6. OldEnough'
  <2>1. cmd["global"] \in Commands /\ "global" \in Callers
    BY <1>1 DEF Types, Callers
  <2>2. /\ AutoId \subseteq Runs
        /\ \A r \in cmd["global"].todo \cup cmd["global"].seen : RunOf[r] \in Runs
    BY <2>1, ResourcesAssumption DEF Commands
  <2> QED BY <1>1, <1>4, <2>2 DEF SweepInv, OldEnough
<1>7. Types'
  BY <1>1, <1>3 DEF Types, Untagged
<1>8. Forward
  BY <1>1 DEF Forward
<1>9. ASSUME NEW s \in Callers PROVE Held(s)'
  BY <1>1, <1>8, HeldIsKept
<1> QED BY <1>5, <1>6, <1>7, <1>9 DEF SweepInv

\* Resources come and go, in AWS and in the index.
LEMMA AccountKeeps ==
  ASSUME SweepInv, NEW r \in Resources,
         Drain(r) \/ Index(r) \/ Deindex(r) \/ Creates(r) \/ Destroys(r)
  PROVE  SweepInv'
<1>1. /\ res \in [Resources -> States] /\ index \subseteq Resources
      /\ \A q \in index : ~Untagged(q) /\ res[q] # "none"
  BY DEF SweepInv, Types
<1>2. CASE Drain(r)
  <2>1. /\ res' \in [Resources -> States] /\ res[r] = "deleting" /\ res'[r] = "gone"
        /\ \A q \in Resources \ {r} : res'[q] = res[q]
    BY <1>1, <1>2 DEF Drain, States
  <2>2. Forward /\ \A q \in index' : ~Untagged(q) /\ res'[q] # "none"
    BY <1>1, <1>2, <2>1 DEF Forward, Drain
  <2> QED BY <1>1, <1>2, <2>1, <2>2, AccountMoves DEF Drain
<1>3. CASE Index(r)
  <2>1. Forward /\ index' \subseteq Resources /\ \A q \in index' : ~Untagged(q) /\ res'[q] # "none"
    BY <1>1, <1>3 DEF Forward, Index, Exists
  <2> QED BY <1>1, <1>3, <2>1, AccountMoves DEF Index
<1>4. CASE Deindex(r)
  <2>1. Forward /\ index' \subseteq Resources /\ \A q \in index' : ~Untagged(q) /\ res'[q] # "none"
    BY <1>1, <1>4 DEF Forward, Deindex
  <2> QED BY <1>1, <1>4, <2>1, AccountMoves DEF Deindex
<1>5. CASE Creates(r)
  <2>1. /\ res' \in [Resources -> States] /\ res[r] = "none" /\ res'[r] = "live"
        /\ \A q \in Resources \ {r} : res'[q] = res[q]
    BY <1>1, <1>5 DEF Creates, States
  <2>2. Forward /\ \A q \in index' : ~Untagged(q) /\ res'[q] # "none"
    BY <1>1, <1>5, <2>1 DEF Forward, Creates
  <2> QED BY <1>1, <1>5, <2>1, <2>2, AccountMoves DEF Creates
<1>6. CASE Destroys(r)
  <2>1. TakesAway
    BY <1>6, DeletedTakesAway DEF Destroys
  <2>2. Forward /\ \A q \in index' : ~Untagged(q) /\ res'[q] # "none"
    BY <1>1, <1>6, <2>1 DEF Forward, Destroys, TakesAway
  <2> QED BY <1>1, <1>6, <2>1, <2>2, AccountMoves DEF Destroys, TakesAway
<1> QED BY <1>2, <1>3, <1>4, <1>5, <1>6

-----------------------------------------------------------------------------
(***************************************************************************)
(* The theorems.                                                           *)
(***************************************************************************)

LEMMA InitHolds == Init => SweepInv
<1> SUFFICES ASSUME Init PROVE SweepInv
  OBVIOUS
<1>1. Types
  BY NoCmdIs, TimesAssumption, BudgetAssumption DEF Init, Types, States, Stages
<1>2. \A s \in Callers : cmd[s] = NoCmd /\ stage[s] \in {"new", "idle"}
  BY DEF Init
<1>3. InTime
  BY TimesAssumption DEF Init, InTime, Callers
<1>4. OldEnough
  BY <1>2, NoCmdIs DEF OldEnough, Working, Callers
<1>5. ASSUME NEW s \in Callers PROVE Held(s)
  BY <1>2, NoCmdIs DEF Held, InMode, Remembers, Accounts, CodeFits, ExitIsTrue, GreenIsTrue, Working
<1> QED BY <1>1, <1>3, <1>4, <1>5 DEF SweepInv

LEMMA NextKeeps == SweepInv /\ [Next]_vars => SweepInv'
<1> SUFFICES ASSUME SweepInv, [Next]_vars PROVE SweepInv'
  OBVIOUS
<1>1. CASE UNCHANGED vars
  <2>1. UNCHANGED <<fixture, account, res, index, age, stage, red, cmd, faults>>
    BY <1>1 DEF vars
  <2>2. Forward /\ Types
    BY <2>1 DEF Forward, SweepInv
  <2> QED BY <2>1, <2>2, AccountMoves DEF Types
<1>2. ASSUME NEW u \in Runs, RunStep(u) \/ RunnerDies(u) PROVE SweepInv'
  BY <1>2, RunEnters, AccountKeeps DEF RunStep
<1>3. ASSUME NEW s \in Callers, Sweep(s) \/ CommandFails(s) \/ JobLost(s) PROVE SweepInv'
  BY <1>3, EnumerateKeeps, ProbeKeeps, PassEndsKeeps, DeleteEndsKeeps, ReturnKeeps,
     DispatchDeleteKeeps, CommandFailsKeeps, JobLostKeeps DEF Sweep
<1>4. ASSUME NEW r \in Resources, Aws(r) PROVE SweepInv'
  BY <1>4, AccountKeeps DEF Aws
<1> QED BY <1>1, <1>2, <1>3, <1>4, CronKeeps, TickKeeps DEF Next

LEMMA Inductive == Spec => []SweepInv
BY InitHolds, NextKeeps, PTL DEF Spec

\* The state of the sweeps is what it is declared to be: ages stop at the guard, a command
\* never counts more passes than it may make, and the tag index shows only what was created.
THEOREM TypeCorrect == Spec => []TypeOK
<1>1. SweepInv => TypeOK
  BY DEF SweepInv, Types, TypeOK, States, Stages, Commands
<1> QED BY <1>1, Inductive, PTL

\* The fail-safe of terratest_sweep.py: a command that exits 0 leaves nothing live that it
\* ever enumerated but what one of its own calls took for gone, as long as there cannot be
\* 256 matches, which the daily check's exit status would show as 0.
THEOREM NothingIsMasked == FitsStatus => (Spec => []NoMaskedLeak)
<1> SUFFICES ASSUME FitsStatus PROVE Spec => []NoMaskedLeak
  OBVIOUS
<1>1. SweepInv => NoMaskedLeak
  BY DEF SweepInv, Held, ExitIsTrue, NoMaskedLeak, At
<1> QED BY <1>1, Inductive, PTL

\* run_terratest.py reports success only in an account it could sweep, with nothing live of
\* what its last check enumerated but what a failed ECS describe hid, as long as there cannot
\* be 256 matches, which its own exit status would show as 0.
THEOREM GreenIsProven == FitsStatus => (Spec => []GreenRunIsProven)
<1> SUFFICES ASSUME FitsStatus PROVE Spec => []GreenRunIsProven
  OBVIOUS
<1>1. SweepInv => GreenRunIsProven
  BY DEF SweepInv, Held, GreenIsTrue, GreenRunIsProven, Callers
<1> QED BY <1>1, Inductive, PTL

\* A step that moves the daily sweep and takes something away is its own delete, of something
\* on its list or of the default group of a VPC on its list.
LEMMA GlobalDeletes ==
  ASSUME SweepInv, [Next]_vars, NEW r \in Resources,
         cmd'["global"] # cmd["global"], res[r] = "live", res'[r] # "live"
  PROVE  \E q \in cmd["global"].todo :
           /\ q \in Resources /\ cmd["global"].step \in Working
           /\ q = r \/ (Kind[r] = "default_sg" /\ q \in Needs[r])
<1>1. Types /\ "global" \in Callers /\ "global" \notin Runs
  BY ResourcesAssumption DEF SweepInv, Callers
<1>2. res' # res /\ cmd' # cmd
  OBVIOUS
<1>3. PICK s \in Callers, q \in Resources : DispatchDelete(s, q)
  <2>1. \A u \in Runs : ~(RunStep(u) \/ RunnerDies(u))
    BY <1>2 DEF RunStep, StartRun, GoTestEnds, RetryEnds, CleanUp, Creates, Destroys, RunnerDies
  <2>2. \A q \in Resources : ~Aws(q)
    BY <1>2 DEF Aws, Drain, Index, Deindex
  <2>3. ~Cron /\ ~Tick /\ ~UNCHANGED vars
    BY <1>2 DEF Cron, Tick, vars
  <2>4. \A s \in Callers : /\ ~Enumerate(s) /\ ~Probe(s) /\ ~PassEnds(s) /\ ~DeleteEnds(s)
                           /\ ~Return(s) /\ ~CommandFails(s) /\ ~JobLost(s)
    BY <1>2 DEF Enumerate, Probe, PassEnds, DeleteEnds, Return, CommandFails, JobLost
  <2> QED BY <2>1, <2>2, <2>3, <2>4 DEF Next, Sweep
<1>4. \E c : Set(s, c)
  BY <1>3 DEF DispatchDelete
<1>5. s = "global"
  BY <1>1, <1>4 DEF Set, Types
<1>6. res[q] = "live" /\ res' = Deleted(q) /\ q \in cmd[s].todo /\ cmd[s].step \in Working
  BY <1>2, <1>3 DEF DispatchDelete, At, Working
<1>7. q = r \/ (Kind[r] = "default_sg" /\ q \in Needs[r])
  BY <1>6, DeletedTakesAway
<1> QED BY <1>5, <1>6, <1>7

\* The min-age guard of terratest_sweep.py: whatever the daily sweep takes away does not
\* belong to a run whose go test is still running, unless its age cannot be told.
THEOREM InFlightIsSpared == Spec => GlobalSweepSparesInFlight
<1> DEFINE Spares == \A r \in Resources :
             (cmd["global"]' # cmd["global"] /\ res[r] = "live" /\ res'[r] # "live") =>
               RunOf[r] \notin AutoId \/ Kind[r] = "undated" \/ stage[RunOf[r]] # "testing"
<1>1. SweepInv /\ [Next]_vars => Spares
  <2> SUFFICES ASSUME SweepInv, [Next]_vars, NEW r \in Resources,
                      cmd'["global"] # cmd["global"], res[r] = "live", res'[r] # "live",
                      RunOf[r] \in AutoId, Kind[r] # "undated"
               PROVE  stage[RunOf[r]] # "testing"
    OBVIOUS
  <2>1. PICK q \in cmd["global"].todo :
               /\ q \in Resources /\ cmd["global"].step \in Working
               /\ q = r \/ (Kind[r] = "default_sg" /\ q \in Needs[r])
    BY GlobalDeletes
  <2>2. RunOf[q] = RunOf[r] /\ Kind[q] # "undated" /\ RunOf[r] \in Runs
    BY <2>1, ResourcesAssumption DEF Untagged
  <2>3. age[RunOf[r]] = MinAge
    BY <2>1, <2>2 DEF SweepInv, OldEnough
  <2>4. stage[RunOf[r]] = "testing" => age[RunOf[r]] <= GoTimeout
    BY <2>2 DEF SweepInv, InTime
  <2> QED BY <2>3, <2>4, TimesAssumption
<1>2. SweepInv /\ [Next]_vars => [Spares]_vars
  BY <1>1
<1> QED BY <1>2, Inductive, PTL DEF Spec, GlobalSweepSparesInFlight
=============================================================================
