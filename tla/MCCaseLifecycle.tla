-------------------------- MODULE MCCaseLifecycle --------------------------
(***************************************************************************)
(* Small instances of CaseLifecycle for TLC.                               *)
(***************************************************************************)
EXTENDS CaseLifecycle, TLC

CONSTANTS o1, o2, p1, p2

\* One order with one package
OnePackage == [o \in Orders |-> {p1}]
\* One order delivered in two packages
TwoPackages == [o \in Orders |-> {p1, p2}]

\* Identifiers are interchangeable; used only where no liveness is checked.
Symmetry ==
  Permutations(Conversations) \cup Permutations(Cases) \cup Permutations(Requests)
============================================================================
