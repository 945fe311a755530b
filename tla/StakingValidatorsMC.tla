------------------------ MODULE StakingValidatorsMC -------------------------
(***************************************************************************)
(* Reports of a validator for TLC: from the first, one differs in the      *)
(* status, one in the tokens and one in the shares alone.                  *)
(***************************************************************************)
EXTENDS StakingValidators

CONSTANTS bonded, jailed

ReportOf(status, tokens, shares) ==
    [status |-> status, power |-> [tokens |-> tokens, shares |-> shares]]

Reports ==
    {ReportOf(bonded, 1, 1), ReportOf(jailed, 1, 1), ReportOf(bonded, 2, 1),
     ReportOf(bonded, 1, 2)}
=============================================================================
