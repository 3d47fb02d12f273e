------------------------------ MODULE MCAuditor ------------------------------
(* Small instances of Auditor for TLC. *)
EXTENDS Auditor, TLC

CONSTANTS a1, a2, a3, d, stray, t1

\* With one trustor, a round of the trust manager yields its whole list or,
\* when its record could not be read, nothing.
AllOrNone == {{}, Auditors}
AllOnly == {Auditors}

AuditorSymmetry == Permutations(Auditors)
=============================================================================
