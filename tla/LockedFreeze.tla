---------------------------- MODULE LockedFreeze ----------------------------
(***************************************************************************)
(* evals/v3/locked.py: the Locked data set is written once, the Freeze     *)
(* names a revision and the digests of the data, and the Locked            *)
(* evaluation runs only what was frozen.  Each command checks several      *)
(* files one after the other, while the owner edits, commits and checks    *)
(* out, and may be interrupted.                                            *)
(*                                                                         *)
(* A digest is the version of the file.  The Development baseline is       *)
(* taken as given; what a running evaluation spends is in Campaign.        *)
(***************************************************************************)
EXTENDS Integers, Sequences

CONSTANTS MaxEdits, MaxCommits, MaxInterrupts

ASSUME FreezeConstants ==
    MaxEdits \in Nat /\ MaxCommits \in Nat \ {0} /\ MaxInterrupts \in Nat

VARIABLES
    tree,       \* the working tree
    commits,    \* the commits
    head,
    probe,      \* the reachability probe file
    command,    \* the command at work, and what it has read
    report,     \* the Locked report
    edits, interrupts

freezeVars == <<tree, commits, head, probe, command, report, edits, interrupts>>

(* Contents of a file that no command accepts *)
Missing == 0
Broken == -1
Readable(version) == version > 0

NoFreeze == [kind |-> "missing", revision |-> 0, cases |-> 0, inputs |-> 0]
TornFreeze == [NoFreeze EXCEPT !.kind = "torn"]

NoCommand == [kind |-> "none", cases |-> 0, inputs |-> 0, freeze |-> NoFreeze, code |-> 0]
NoLockedReport == [revision |-> 0, cases |-> 0, inputs |-> 0, code |-> 0, accepted |-> FALSE]

FreezeInit ==
    /\ tree = [code |-> 1, cases |-> Missing, inputs |-> Missing, freeze |-> NoFreeze]
    /\ commits = <<tree>> /\ head = 1
    /\ probe = "missing" /\ command = NoCommand /\ report = NoLockedReport
    /\ edits = 0 /\ interrupts = 0

-----------------------------------------------------------------------------
(* The owner and git                                                       *)

(* An edit keeps the digests of a data file consistent with its content. *)
Edit(file) ==
    /\ edits < MaxEdits
    /\ file # "code" => Readable(tree[file])
    /\ edits' = edits + 1
    /\ tree' = [tree EXCEPT ![file] = edits + 2]
    /\ UNCHANGED <<commits, head, probe, command, report, interrupts>>

Commit ==
    /\ Len(commits) < MaxCommits /\ tree # commits[head]
    /\ commits' = Append(commits, tree) /\ head' = Len(commits')
    /\ UNCHANGED <<tree, probe, command, report, edits, interrupts>>

(* git checkout of a revision; a freeze file no commit holds stays. *)
Checkout(revision) ==
    /\ tree' = [commits[revision] EXCEPT
                  !.freeze = IF tree.freeze = commits[head].freeze THEN @ ELSE tree.freeze]
    /\ head' = revision
    /\ tree' # tree \/ head' # head
    /\ UNCHANGED <<commits, probe, command, report, edits, interrupts>>

(* source_tree_is_clean, the freeze file excepted or not *)
CleanButFreeze == [tree EXCEPT !.freeze = commits[head].freeze] = commits[head]
Clean == tree = commits[head]

-----------------------------------------------------------------------------
(* The commands                                                            *)

Run(kind, next) == command' = [next EXCEPT !.kind = kind]
Stop == command' = NoCommand

(* write_locked_dataset: each file is opened exclusively and written; a file
   that exists must have the same content. *)
WriteDataset ==
    /\ command = NoCommand
    /\ Run("write_cases", NoCommand)
    /\ UNCHANGED <<tree, commits, head, probe, report, edits, interrupts>>

WriteOnce(file, then) ==
    /\ \/ tree[file] = Missing /\ tree' = [tree EXCEPT ![file] = tree.code] /\ then
       \/ tree[file] = tree.code /\ UNCHANGED tree /\ then
       \/ tree[file] \notin {Missing, tree.code} /\ UNCHANGED tree /\ Stop
    /\ UNCHANGED <<commits, head, probe, report, edits, interrupts>>

WriteCases == command.kind = "write_cases" /\ WriteOnce("cases", Run("write_inputs", command))
WriteInputs == command.kind = "write_inputs" /\ WriteOnce("inputs", Stop)

DatasetLoads == Readable(tree.cases) /\ Readable(tree.inputs)

(* create_locked_freeze: first the tree and the baseline, then the data and
   the revision; a second Freeze differs in created_at. *)
CreateFreeze ==
    /\ command = NoCommand /\ Clean
    /\ Run("freeze", NoCommand)
    /\ UNCHANGED <<tree, commits, head, probe, report, edits, interrupts>>

WriteFreeze ==
    /\ command.kind = "freeze" /\ Stop
    /\ tree' = IF DatasetLoads /\ tree.freeze = NoFreeze
               THEN [tree EXCEPT !.freeze = [kind |-> "freeze", revision |-> head,
                                             cases |-> tree.cases, inputs |-> tree.inputs]]
               ELSE tree
    /\ UNCHANGED <<commits, head, probe, report, edits, interrupts>>

(* run_reachability_probe: the first status is kept. *)
RunReachabilityProbe(status) ==
    /\ command = NoCommand /\ probe = "missing"
    /\ probe' = status
    /\ UNCHANGED <<tree, commits, head, command, report, edits, interrupts>>

(* run_locked_evaluation: load the Freeze, the data and the probe ... *)
StartLocked ==
    /\ command = NoCommand /\ report = NoLockedReport
    /\ tree.freeze.kind = "freeze" /\ DatasetLoads /\ probe = "reachable"
    /\ Run("locked", [NoCommand EXCEPT !.cases = tree.cases, !.inputs = tree.inputs,
                                       !.freeze = tree.freeze])
    /\ UNCHANGED <<tree, commits, head, probe, report, edits, interrupts>>

(* Variant: the revision is compared, whether or not the tree is clean. *)
AuthorizedAtRevision(freeze) == head = freeze.revision /\ tree.inputs = freeze.inputs

(* ... build_locked_authorization and the runner's constructor: the tree, the
   revision, and the inputs, which are loaded again ... *)
Authorized(freeze) ==
    /\ CleanButFreeze
    /\ head = freeze.revision
    /\ tree.inputs = freeze.inputs

AuthorizeLocked ==
    /\ command.kind = "locked"
    /\ IF Authorized(command.freeze)
       THEN Run("running", [command EXCEPT !.code = tree.code])
       ELSE Stop
    /\ UNCHANGED <<tree, commits, head, probe, report, edits, interrupts>>

(* ... and the hard gates of evaluate_locked_decision compare what was
   executed with the Freeze. *)
FinishLocked ==
    /\ command.kind = "running" /\ Stop
    /\ \E passes \in BOOLEAN :
         report' = [revision |-> command.freeze.revision, cases |-> command.cases,
                    inputs |-> command.inputs, code |-> command.code,
                    accepted |-> /\ passes
                                 /\ command.freeze.cases = command.cases
                                 /\ command.freeze.inputs = command.inputs]
    /\ UNCHANGED <<tree, commits, head, probe, edits, interrupts>>

(* The command is interrupted; what it was writing is left torn. *)
Interrupt ==
    /\ command # NoCommand /\ interrupts < MaxInterrupts
    /\ interrupts' = interrupts + 1 /\ Stop
    /\ tree' = CASE command.kind = "write_cases" /\ tree.cases = Missing ->
                      [tree EXCEPT !.cases = Broken]
                 [] command.kind = "write_inputs" /\ tree.inputs = Missing ->
                      [tree EXCEPT !.inputs = Broken]
                 [] command.kind = "freeze" /\ tree.freeze = NoFreeze ->
                      [tree EXCEPT !.freeze = TornFreeze]
                 [] OTHER -> tree
    /\ UNCHANGED <<commits, head, probe, report, edits>>

FreezeNext ==
    \/ \E file \in {"code", "cases", "inputs"} : Edit(file)
    \/ Commit
    \/ \E revision \in DOMAIN commits : Checkout(revision)
    \/ WriteDataset \/ WriteCases \/ WriteInputs
    \/ CreateFreeze \/ WriteFreeze
    \/ \E status \in {"reachable", "blocked"} : RunReachabilityProbe(status)
    \/ StartLocked \/ AuthorizeLocked \/ FinishLocked
    \/ Interrupt

FreezeSpec == FreezeInit /\ [][FreezeNext]_freezeVars

-----------------------------------------------------------------------------
(* Properties                                                              *)

(* run_locked_evaluation: an accepted Locked report was produced by the code
   and the inputs of the frozen revision, whatever was edited, committed,
   checked out or interrupted between the checks of the commands.  The cases
   are compared with the Freeze only, not with the revision. *)
LockedRunsWhatWasFrozen ==
    report.accepted =>
        /\ report.code = commits[report.revision].code
        /\ report.inputs = commits[report.revision].inputs
=============================================================================
