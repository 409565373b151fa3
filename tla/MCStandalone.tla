---------------------------- MODULE MCStandalone ----------------------------
(***************************************************************************)
(* Corpora that differ in the text of one clause, and one in which two     *)
(* versions are active together.                                           *)
(***************************************************************************)
EXTENDS Standalone, TLC

PoisonedClause == Clause("v9", "signed", 1, "standard", 0, 2, TRUE)
FirstVersion == Clause("v1", "signed", 1, "standard", 0, 1, FALSE)
Released == {FirstVersion, Clause("v2", "signed", 1, "standard", 1, 2, FALSE), PoisonedClause}
Corrected == {FirstVersion, Clause("v2", "signed", 2, "standard", 1, 2, FALSE), PoisonedClause}
Overlapping == {FirstVersion, Clause("v2", "signed", 1, "standard", 0, 2, FALSE)}
KnownCorpora == {Released, Corrected, Overlapping}

Symmetry == Permutations(Procs)
=============================================================================
