---------------------------- MODULE ToolInstall ----------------------------
(***************************************************************************)
(* make tools-ensure (scripts/ensure_tools.py): every tool of              *)
(* .tool-versions is probed and, if it does not report the pinned version, *)
(* downloaded and installed in place.  The program runs again and again on *)
(* one machine, while the pins are raised, and is killed or fails between  *)
(* any two of its changes of the file system.                              *)
(***************************************************************************)
EXTENDS Integers, Sequences

CONSTANTS
  Tools,      \* the tools in the order of .tool-versions
  Method,     \* how each is provisioned, see Methods
  MaxPin,     \* bound: the highest version of a tool
  MaxInterruptions  \* bound: failing steps and killed runs

\* member: one file is copied out of the artifact.  tree: the whole archive is
\* extracted and its binary linked (golang).  go-install: built by the go
\* toolchain into GOPATH/bin.  external: uv and skip, provided by others.
Methods == {"member", "tree", "go-install", "external"}

Names == {Tools[i] : i \in DOMAIN Tools}

ASSUME ToolsAssumption ==
  /\ Tools \in Seq(STRING) /\ Tools # <<>>
  /\ \A i, j \in DOMAIN Tools : Tools[i] = Tools[j] => i = j
  /\ Method \in [Names -> Methods]
ASSUME PinsAssumption == MaxPin \in Nat \ {0} /\ MaxInterruptions \in Nat

-----------------------------------------------------------------------------
VARIABLES
  pin,      \* the version .tool-versions pins each tool to
  disk,     \* what is installed of each tool
  at,       \* the tool the run is at
  step,     \* what it does next to it
  outcome,  \* of the last run
  interruptions  \* failing steps and killed runs so far

toolVars == <<pin, disk, at, step, outcome, interruptions>>

\* The version of a file: none, cut off, or the version it was released as.
Absent == 0
Torn   == -1

\* file: the binary.  exec: its mode allows execution.  rest: the other files of
\* its tree are all there.  link: its name in the install directory exists.
Files == [file : {Torn, Absent} \cup 1..MaxPin, exec : BOOLEAN, rest : BOOLEAN, link : BOOLEAN]

Steps == {"idle", "probe", "download", "open", "copy", "chmod", "rmtree", "untar", "untarRest",
          "unlink", "symlink", "goInstall", "verify"}

ToolTypeOK ==
  /\ pin \in [Names -> 1..MaxPin]
  /\ disk \in [Names -> Files]
  /\ at \in DOMAIN Tools
  /\ step \in Steps
  /\ outcome \in {"none", "ok", "failed"}
  /\ interruptions \in 0..MaxInterruptions

EnsureInit ==
  /\ pin = [t \in Names |-> 1]
  /\ disk = [t \in Names |-> [file |-> Absent, exec |-> FALSE, rest |-> FALSE, link |-> FALSE]]
  /\ at = 1 /\ step = "idle" /\ outcome = "none" /\ interruptions = 0

-----------------------------------------------------------------------------
(***************************************************************************)
(* What a probe finds.                                                     *)
(***************************************************************************)

\* shutil.which: the name leads to an executable file.
Found(t) == disk[t].file # Absent /\ disk[t].exec /\ disk[t].link

\* Mutant of Current: an executable of any version will do.
CurrentAny(t) == Found(t)

\* is_version_installed: the file runs and reports the pin.  `go version' needs
\* nothing of the tree.
Current(t) == Found(t) /\ disk[t].file = pin[t]

\* Running a file that was cut off yields an OSError, or no version to parse:
\* an exception, not "not installed".
ProbeRaises(t) == Found(t) /\ disk[t].file = Torn

\* The go toolchain on PATH, and one that can build.
Go == CHOOSE t \in Names : Method[t] = "tree"
GoFound == (\E t \in Names : Method[t] = "tree") /\ Found(Go) /\ ~ProbeRaises(Go)
GoBuilds == GoFound /\ disk[Go].rest

-----------------------------------------------------------------------------
(***************************************************************************)
(* One run.                                                                *)
(***************************************************************************)

Tool == Tools[at]

Proceed(s) == step' = s /\ UNCHANGED <<pin, at, outcome>>

\* The next tool, or exit 0 after the last.
NextTool ==
  /\ IF at < Len(Tools) THEN at' = at + 1 /\ step' = "probe" /\ UNCHANGED outcome
     ELSE at' = 1 /\ step' = "idle" /\ outcome' = "ok"
  /\ UNCHANGED pin

\* Exit 1 at the first tool that cannot be provisioned; the files stay as they are.
ExitOne == at' = 1 /\ step' = "idle" /\ outcome' = "failed" /\ UNCHANGED pin

\* make tools-ensure.
StartRun ==
  /\ step = "idle"
  /\ step' = "probe" /\ outcome' = "none"
  /\ UNCHANGED <<pin, disk, at, interruptions>>

\* ensure_tool up to the choice of the method.
Probe ==
  /\ step = "probe" /\ UNCHANGED <<disk, interruptions>>
  /\ \/ Method[Tool] = "external" /\ NextTool
     \/ /\ Method[Tool] \in {"member", "tree"}
        /\ IF ProbeRaises(Tool) THEN ExitOne
           ELSE IF Current(Tool) THEN NextTool ELSE Proceed("download")
     \/ /\ Method[Tool] = "go-install"
        /\ IF GoFound /\ Current(Tool) THEN NextTool ELSE Proceed("goInstall")

\* resolve_binary_spec: the artifact is extracted as a whole or one file of it.
FirstExtractStep(t) == IF Method[t] = "tree" THEN "rmtree" ELSE "open"

\* curl, with its own retries, into a temporary directory.
Download ==
  /\ step = "download" /\ UNCHANGED <<disk, interruptions>>
  /\ Proceed(FirstExtractStep(Tool))

\* The target is opened for writing, which cuts off what is there and keeps its mode ...
OpenTarget ==
  /\ step = "open"
  /\ disk' = [disk EXCEPT ![Tool].file = Torn, ![Tool].link = TRUE, ![Tool].rest = TRUE]
  /\ Proceed("copy") /\ UNCHANGED interruptions

CopyMember ==
  /\ step = "copy"
  /\ disk' = [disk EXCEPT ![Tool].file = pin[Tool]]
  /\ Proceed("chmod") /\ UNCHANGED interruptions

\* Mutant of MakeExecutable: the mode stays as the file was created with.
MakeExecutableNot == step = "chmod" /\ Proceed("verify") /\ UNCHANGED <<disk, interruptions>>

\* ... and only then made executable.
MakeExecutable ==
  /\ step = "chmod"
  /\ disk' = [disk EXCEPT ![Tool].exec = TRUE]
  /\ Proceed("verify") /\ UNCHANGED interruptions

\* The old tree goes, in any order: the binary may be the last of it.
Rmtree ==
  /\ step = "rmtree" /\ UNCHANGED interruptions
  /\ \/ disk' = [disk EXCEPT ![Tool].rest = FALSE] /\ disk[Tool].rest /\ Proceed("rmtree")
     \/ disk' = [disk EXCEPT ![Tool].rest = FALSE, ![Tool].file = Absent] /\ Proceed("untar")

\* The archive is extracted over the place where the link, if there is one, leads.
Untar ==
  /\ step = "untar"
  /\ disk' = [disk EXCEPT ![Tool].file = pin[Tool], ![Tool].exec = TRUE]
  /\ Proceed("untarRest") /\ UNCHANGED interruptions

UntarRest ==
  /\ step = "untarRest"
  /\ disk' = [disk EXCEPT ![Tool].rest = TRUE]
  /\ Proceed("unlink") /\ UNCHANGED interruptions

Unlink ==
  /\ step = "unlink"
  /\ disk' = [disk EXCEPT ![Tool].link = FALSE]
  /\ Proceed("symlink") /\ UNCHANGED interruptions

Symlink ==
  /\ step = "symlink"
  /\ disk' = [disk EXCEPT ![Tool].link = TRUE]
  /\ Proceed("verify") /\ UNCHANGED interruptions

\* `go install' puts the binary in place when it has built it.
GoInstall ==
  /\ step = "goInstall" /\ UNCHANGED interruptions
  /\ IF GoBuilds
     THEN /\ disk' = [disk EXCEPT ![Tool] = [file |-> pin[Tool], exec |-> TRUE, rest |-> TRUE, link |-> TRUE]]
          /\ Proceed("verify")
     ELSE ExitOne /\ UNCHANGED disk

\* The version is probed again after an installation.
Verify ==
  /\ step = "verify" /\ UNCHANGED <<disk, interruptions>>
  /\ IF Current(Tool) THEN NextTool ELSE ExitOne

\* A step fails (no network, no space, no answer in time) and the run exits 1; or
\* the run is killed.  Either leaves the files as they are.
Interrupted ==
  /\ step # "idle" /\ interruptions < MaxInterruptions
  /\ interruptions' = interruptions + 1
  /\ ExitOne /\ UNCHANGED disk

\* Somebody raises a pin and pulls the change.
RaisePin(t) ==
  /\ step = "idle" /\ pin[t] < MaxPin
  /\ pin' = [pin EXCEPT ![t] = @ + 1] /\ outcome' = "none"
  /\ UNCHANGED <<disk, at, step, interruptions>>

Run ==
  \/ StartRun \/ Probe \/ Download \/ OpenTarget \/ CopyMember \/ MakeExecutable
  \/ Rmtree \/ Untar \/ UntarRest \/ Unlink \/ Symlink \/ GoInstall \/ Verify

EnsureNext == Run \/ Interrupted \/ \E t \in Names : RaisePin(t)

EnsureSpec == EnsureInit /\ [][EnsureNext]_toolVars

\* The target is run again until it is done with.
FairSpec == EnsureSpec /\ WF_toolVars(Run)

-----------------------------------------------------------------------------
(***************************************************************************)
(* Properties.                                                             *)
(***************************************************************************)

Managed == {t \in Names : Method[t] # "external"}

\* Exit 0 means what it says, whatever earlier runs left behind: the name of
\* every tool leads to an executable of the pinned version.
ExitZeroReportsPins == outcome = "ok" => \A t \in Managed : Found(t) /\ disk[t].file = pin[t]

\* The go tree is linked from an earlier installation while a part is missing.
HalfLinked == \E t \in Names : Method[t] = "tree" /\ Found(t) /\ ~disk[t].rest

\* Running the target again repairs whatever an interrupted run left, in the end,
\* except where an upgrade was interrupted: a file cut off that is executable from
\* before makes every probe raise, and half a tree that is linked from before
\* passes for installed.
RerunsRepair ==
  <>[](\/ \A t \in Managed : Current(t) /\ disk[t].rest
       \/ \E t \in Managed : ProbeRaises(t)
       \/ HalfLinked)

\* Tree mode keeps the binary's sibling tree intact: exit 0 means that it is there. The
\* code does not satisfy it: an upgrade that is cut off leaves a binary that answers with
\* its pin and a tree that is not whole.
ExitZeroIsWhole == outcome = "ok" => \A t \in Managed : disk[t].rest
=============================================================================
