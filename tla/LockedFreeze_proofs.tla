------------------------ MODULE LockedFreeze_proofs ------------------------
(***************************************************************************)
(* An accepted Locked report was produced by what was frozen, for any      *)
(* number of edits, commits and interruptions.  What makes it hold is that *)
(* the authorization reads tree, revision and inputs together, and that    *)
(* neither a commit nor the Freeze a command has read changes any more.    *)
(***************************************************************************)
EXTENDS LockedFreeze, TLAPS

Freezes == [kind : {"missing", "torn", "freeze"}, revision : Nat, cases : Int, inputs : Int]
Trees == [code : Int, cases : Int, inputs : Int, freeze : Freezes]
Kinds == {"none", "write_cases", "write_inputs", "freeze", "locked", "running"}
Commands == [kind : Kinds, cases : Int, inputs : Int, freeze : Freezes, code : Int]
Reports == [revision : Nat, cases : Int, inputs : Int, code : Int, accepted : BOOLEAN]

FreezeType ==
    /\ tree \in Trees
    /\ commits \in Seq(Trees) /\ head \in DOMAIN commits
    /\ command \in Commands
    /\ report \in Reports
    /\ edits \in Nat

(* A Freeze, wherever a copy of it is, names a commit. *)
Names(freeze) == freeze.kind = "freeze" => freeze.revision \in DOMAIN commits

FreezesNameCommits ==
    /\ Names(tree.freeze) /\ Names(command.freeze)
    /\ \A c \in DOMAIN commits : Names(commits[c].freeze)

(* From authorization on, what runs is what the frozen revision holds. *)
RunsFrozen ==
    /\ command.kind \in {"locked", "running"} => command.freeze.kind = "freeze"
    /\ command.kind = "running" =>
         /\ command.code = commits[command.freeze.revision].code
         /\ command.freeze.inputs = commits[command.freeze.revision].inputs

ReportsFrozen ==
    report.accepted =>
        /\ report.revision \in DOMAIN commits
        /\ report.code = commits[report.revision].code
        /\ report.inputs = commits[report.revision].inputs

FreezeInv == FreezeType /\ FreezesNameCommits /\ RunsFrozen /\ ReportsFrozen

-----------------------------------------------------------------------------
(* What stands for a freeze that is missing or torn. *)
LEMMA NoFreezeType == NoFreeze \in Freezes /\ TornFreeze \in Freezes
                      /\ NoFreeze.kind = "missing" /\ TornFreeze.kind = "torn"
  BY DEF NoFreeze, TornFreeze, Freezes

(* A command that is not running has no freeze. *)
LEMMA NoCommandType ==
    /\ NoCommand \in Commands /\ NoCommand.kind = "none" /\ NoCommand.freeze = NoFreeze
  BY NoFreezeType DEF NoCommand, Commands, Kinds

(* What a command keeps of the step it runs next. *)
LEMMA RunType ==
  ASSUME NEW next \in Commands, NEW kind \in Kinds, Run(kind, next)
  PROVE  command' \in Commands /\ command'.freeze = next.freeze /\ command'.kind = kind
         /\ command'.code = next.code
  BY DEF Run, Commands

(* Nothing is frozen at first. *)
LEMMA FreezeInvInit == FreezeInit => FreezeInv
<1> SUFFICES ASSUME FreezeInit PROVE FreezeInv
  OBVIOUS
<1>1. tree \in Trees /\ tree.freeze = NoFreeze
  BY NoFreezeType DEF FreezeInit, Trees, Missing
<1>2. commits \in Seq(Trees) /\ DOMAIN commits = {1} /\ commits[1] = tree
  BY <1>1 DEF FreezeInit
<1>3. report \in Reports /\ ~report.accepted
  BY DEF FreezeInit, NoLockedReport, Reports
<1> QED BY <1>1, <1>2, <1>3, NoFreezeType, NoCommandType
  DEF FreezeInit, FreezeInv, FreezeType, FreezesNameCommits, Names, RunsFrozen, ReportsFrozen

(* A step that leaves commits, command and report alone only has to keep the
   tree's Freeze naming a commit. *)
LEMMA TreeStep ==
  ASSUME FreezeInv, UNCHANGED <<commits, command, report>>,
         tree' \in Trees, Names(tree'.freeze), head' \in DOMAIN commits, edits' \in Nat
  PROVE  FreezeInv'
  BY DEF FreezeInv, FreezeType, FreezesNameCommits, Names, RunsFrozen, ReportsFrozen

(* A step of a command that writes no report and is not authorized. *)
LEMMA CommandStep ==
  ASSUME FreezeInv, UNCHANGED <<commits, head, report, edits>>,
         tree' \in Trees, Names(tree'.freeze),
         command' \in Commands, Names(command'.freeze),
         command'.kind # "running",
         command'.kind = "locked" => command'.freeze.kind = "freeze"
  PROVE  FreezeInv'
  BY DEF FreezeInv, FreezeType, FreezesNameCommits, Names, RunsFrozen, ReportsFrozen

(* Edit: no file but the Freeze is one. *)
LEMMA EditInv ==
  ASSUME FreezeInv, NEW file \in {"code", "cases", "inputs"}, Edit(file)
  PROVE  FreezeInv'
<1>1. tree \in Trees /\ edits \in Nat
  BY DEF FreezeInv, FreezeType
<1>2. tree' \in Trees /\ tree'.freeze = tree.freeze
  BY <1>1 DEF Edit, Trees
<1> QED BY <1>1, <1>2, TreeStep DEF Edit, FreezeInv, FreezeType, FreezesNameCommits

(* Commit: the commits so far stay what they are. *)
LEMMA CommitInv == ASSUME FreezeInv, Commit PROVE FreezeInv'
<1>1. /\ commits' \in Seq(Trees) /\ Len(commits') = Len(commits) + 1
      /\ \A c \in DOMAIN commits : commits'[c] = commits[c]
      /\ commits'[Len(commits) + 1] = tree
      /\ DOMAIN commits' = DOMAIN commits \cup {Len(commits) + 1}
  BY DEF Commit, FreezeInv, FreezeType
<1>2. head' \in DOMAIN commits'
  BY <1>1 DEF Commit, FreezeInv, FreezeType
<1>3. FreezeType'
  BY <1>1, <1>2 DEF Commit, FreezeInv, FreezeType
<1>4. FreezesNameCommits'
  BY <1>1 DEF Commit, FreezeInv, FreezesNameCommits, Names
<1>5. RunsFrozen' /\ ReportsFrozen'
  BY <1>1 DEF Commit, FreezeInv, FreezesNameCommits, Names, RunsFrozen, ReportsFrozen
<1> QED BY <1>3, <1>4, <1>5 DEF FreezeInv

(* Checkout: the tree becomes a commit, with that commit's Freeze or its own. *)
LEMMA CheckoutInv ==
  ASSUME FreezeInv, NEW revision \in DOMAIN commits, Checkout(revision)
  PROVE  FreezeInv'
<1>1. commits[revision] \in Trees /\ tree \in Trees /\ Names(tree.freeze)
      /\ Names(commits[revision].freeze)
  BY DEF FreezeInv, FreezeType, FreezesNameCommits
<1>2. tree' \in Trees /\ tree'.freeze \in {commits[revision].freeze, tree.freeze}
  BY <1>1 DEF Checkout, Trees
<1> QED BY <1>1, <1>2, TreeStep DEF Checkout, FreezeInv, FreezeType

(* write_locked_dataset and create_locked_freeze: a new Freeze names head. *)
LEMMA DataCommandsInv ==
  ASSUME FreezeInv, WriteDataset \/ WriteCases \/ WriteInputs \/ CreateFreeze \/ WriteFreeze
  PROVE  FreezeInv'
<1>1. tree \in Trees /\ Names(tree.freeze) /\ command \in Commands /\ head \in DOMAIN commits
      /\ Names(command.freeze) /\ Names(NoCommand.freeze) /\ head \in Nat
  BY NoFreezeType, NoCommandType DEF FreezeInv, FreezeType, FreezesNameCommits, Names
<1>2. CASE WriteDataset \/ CreateFreeze
  <2>1. command' \in Commands /\ command'.freeze = NoFreeze
        /\ command'.kind \in {"write_cases", "freeze"} /\ UNCHANGED <<commits, head, tree, report, edits>>
    BY <1>2, NoCommandType, RunType DEF WriteDataset, CreateFreeze, Kinds
  <2> QED BY <1>1, <2>1, NoCommandType, CommandStep
<1>3. CASE WriteCases \/ WriteInputs
  <2>1. /\ command' \in Commands /\ command'.freeze \in {NoFreeze, command.freeze}
        /\ command'.kind \in {"none", "write_inputs"}
    BY <1>1, <1>3, NoCommandType, RunType DEF WriteCases, WriteInputs, WriteOnce, Stop, Kinds
  <2>2. tree' \in Trees /\ tree'.freeze = tree.freeze
    BY <1>1, <1>3 DEF WriteCases, WriteInputs, WriteOnce, Trees
  <2>3. UNCHANGED <<commits, head, report, edits>>
    BY <1>3 DEF WriteCases, WriteInputs, WriteOnce
  <2>4. Names(command'.freeze) /\ Names(tree'.freeze)
    BY <1>1, <2>1, <2>2, NoCommandType
  <2> QED BY <2>1, <2>2, <2>3, <2>4, CommandStep
<1>4. CASE WriteFreeze
  <2> DEFINE frozen == [kind |-> "freeze", revision |-> head,
                        cases |-> tree.cases, inputs |-> tree.inputs]
  <2>1. frozen \in Freezes /\ Names(frozen)
    BY <1>1 DEF Freezes, Trees, Names
  <2> HIDE DEF frozen
  <2>2. tree' = tree \/ tree' = [tree EXCEPT !.freeze = frozen]
    BY <1>4 DEF WriteFreeze, frozen
  <2>3. tree' \in Trees /\ tree'.freeze \in {tree.freeze, frozen}
    BY <1>1, <2>1, <2>2 DEF Trees
  <2>4. command' = NoCommand /\ UNCHANGED <<commits, head, report, edits>>
    BY <1>4 DEF WriteFreeze, Stop
  <2> QED BY <1>1, <2>1, <2>3, <2>4, NoCommandType, CommandStep
<1> QED BY <1>2, <1>3, <1>4

(* run_locked_evaluation: it starts from a Freeze; it is authorized where the
   tree is the frozen revision; it reports what it ran. *)
LEMMA LockedInv ==
  ASSUME FreezeInv, StartLocked \/ AuthorizeLocked \/ FinishLocked
  PROVE  FreezeInv'
<1>1. tree \in Trees /\ Names(tree.freeze) /\ command \in Commands /\ head \in DOMAIN commits
      /\ Names(command.freeze) /\ commits[head] \in Trees /\ tree.freeze \in Freezes
      /\ Names(NoCommand.freeze)
  <2>1. Names(NoCommand.freeze)
    BY NoFreezeType, NoCommandType DEF Names
  <2>2. tree \in Trees /\ command \in Commands /\ head \in DOMAIN commits
        /\ commits \in Seq(Trees) /\ Names(tree.freeze) /\ Names(command.freeze)
    BY DEF FreezeInv, FreezeType, FreezesNameCommits
  <2>3. commits[head] \in Trees
    BY <2>2
  <2>4. tree.freeze \in Freezes
    BY <2>2 DEF Trees
  <2> QED BY <2>1, <2>2, <2>3, <2>4
<1>2. CASE StartLocked
  <2>1. /\ command' \in Commands /\ command'.kind = "locked" /\ command'.freeze = tree.freeze
        /\ tree.freeze.kind = "freeze" /\ UNCHANGED <<commits, head, tree, report, edits>>
    <3>1. command' = [kind |-> "locked", cases |-> tree.cases, inputs |-> tree.inputs,
                      freeze |-> tree.freeze, code |-> 0]
      BY <1>2 DEF StartLocked, Run, NoCommand
    <3> QED BY <1>1, <1>2, <3>1 DEF StartLocked, Commands, Trees, Kinds
  <2> QED BY <1>1, <2>1, CommandStep
<1>3. CASE AuthorizeLocked
  <2>1. CASE Authorized(command.freeze)
    <3>1. tree.code = commits[head].code /\ tree.inputs = commits[head].inputs
          /\ head = command.freeze.revision /\ tree.inputs = command.freeze.inputs
      BY <1>1, <2>1 DEF Authorized, CleanButFreeze, Trees
    <3>2. command' = [command EXCEPT !.code = tree.code, !.kind = "running"]
      BY <1>1, <1>3, <2>1 DEF AuthorizeLocked, Run, Commands
    <3>3. command' \in Commands /\ command'.freeze = command.freeze /\ command'.code = tree.code
          /\ command'.kind = "running"
      <4>1. command' = [kind |-> "running", cases |-> command.cases, inputs |-> command.inputs,
                        freeze |-> command.freeze, code |-> tree.code]
        BY <1>1, <3>2 DEF Commands
      <4> QED BY <1>1, <4>1 DEF Commands, Trees, Kinds
    <3>4. command.kind = "locked" /\ UNCHANGED <<commits, head, tree, report, edits>>
      BY <1>3 DEF AuthorizeLocked
    <3> QED BY <3>1, <3>3, <3>4
      DEF FreezeInv, FreezeType, FreezesNameCommits, Names, RunsFrozen, ReportsFrozen
  <2>2. CASE ~Authorized(command.freeze)
    <3>1. command' = NoCommand /\ UNCHANGED <<commits, head, tree, report, edits>>
      BY <1>3, <2>2 DEF AuthorizeLocked, Stop
    <3> QED BY <1>1, <3>1, NoCommandType, CommandStep
  <2> QED BY <2>1, <2>2
<1>4. CASE FinishLocked
  <2>1. PICK passes \in BOOLEAN :
          report' = [revision |-> command.freeze.revision, cases |-> command.cases,
                     inputs |-> command.inputs, code |-> command.code,
                     accepted |-> /\ passes
                                  /\ command.freeze.cases = command.cases
                                  /\ command.freeze.inputs = command.inputs]
    BY <1>4 DEF FinishLocked
  <2>2. command.freeze \in Freezes /\ command.freeze.revision \in Nat
    BY <1>1 DEF Commands, Freezes
  <2>3. report' \in Reports
    BY <1>1, <2>1, <2>2 DEF Reports, Commands
  <2>4. /\ report'.revision = command.freeze.revision
        /\ report'.code = command.code /\ report'.inputs = command.inputs
        /\ report'.accepted => command.freeze.inputs = command.inputs
    BY <2>1
  <2>5. command' = NoCommand /\ command.kind = "running"
        /\ UNCHANGED <<commits, head, tree, edits>>
    BY <1>4 DEF FinishLocked, Stop
  <2>6. ReportsFrozen'
    BY <2>4, <2>5 DEF FreezeInv, FreezesNameCommits, Names, RunsFrozen, ReportsFrozen
  <2> QED BY <1>1, <2>3, <2>5, <2>6, NoCommandType, NoFreezeType
    DEF FreezeInv, FreezeType, FreezesNameCommits, Names, RunsFrozen
<1> QED BY <1>2, <1>3, <1>4

(* An interrupted command leaves a torn file at most. *)
LEMMA InterruptInv == ASSUME FreezeInv, Interrupt PROVE FreezeInv'
<1>1. tree \in Trees /\ Names(tree.freeze) /\ Names(TornFreeze) /\ Names(NoFreeze)
  BY NoFreezeType DEF FreezeInv, FreezeType, FreezesNameCommits, Names
<1>2. \/ tree' = tree
      \/ tree' = [tree EXCEPT !.cases = Broken]
      \/ tree' = [tree EXCEPT !.inputs = Broken]
      \/ tree' = [tree EXCEPT !.freeze = TornFreeze]
  BY DEF Interrupt
<1>3. tree' \in Trees /\ tree'.freeze \in {tree.freeze, TornFreeze}
  BY <1>1, <1>2, NoFreezeType DEF Trees, Broken
<1>4. command' = NoCommand /\ UNCHANGED <<commits, head, report, edits>>
  BY DEF Interrupt, Stop
<1> QED BY <1>1, <1>3, <1>4, NoCommandType, CommandStep

(* Every step keeps the invariant. *)
LEMMA FreezeInvNext == FreezeInv /\ [FreezeNext]_freezeVars => FreezeInv'
<1> SUFFICES ASSUME FreezeInv, [FreezeNext]_freezeVars PROVE FreezeInv'
  OBVIOUS
<1>1. CASE \E file \in {"code", "cases", "inputs"} : Edit(file)
  BY <1>1, EditInv
<1>2. CASE Commit
  BY <1>2, CommitInv
<1>3. CASE \E revision \in DOMAIN commits : Checkout(revision)
  BY <1>3, CheckoutInv
<1>4. CASE WriteDataset \/ WriteCases \/ WriteInputs \/ CreateFreeze \/ WriteFreeze
  BY <1>4, DataCommandsInv
<1>5. CASE \E status \in {"reachable", "blocked"} : RunReachabilityProbe(status)
  BY <1>5 DEF RunReachabilityProbe, FreezeInv, FreezeType, FreezesNameCommits, Names,
     RunsFrozen, ReportsFrozen
<1>6. CASE StartLocked \/ AuthorizeLocked \/ FinishLocked
  BY <1>6, LockedInv
<1>7. CASE Interrupt
  BY <1>7, InterruptInv
<1>8. CASE UNCHANGED freezeVars
  BY <1>8 DEF freezeVars, FreezeInv, FreezeType, FreezesNameCommits, Names, RunsFrozen,
     ReportsFrozen
<1> QED BY <1>1, <1>2, <1>3, <1>4, <1>5, <1>6, <1>7, <1>8 DEF FreezeNext

(* run_locked_evaluation: whatever the owner does between its checks, an
   accepted report is one of the frozen revision's code and inputs. *)
THEOREM LockedReportIsFrozen == FreezeSpec => []LockedRunsWhatWasFrozen
<1>1. FreezeInv => LockedRunsWhatWasFrozen
  BY DEF FreezeInv, ReportsFrozen, LockedRunsWhatWasFrozen
<1> QED BY FreezeInvInit, FreezeInvNext, <1>1, PTL DEF FreezeSpec
=============================================================================
