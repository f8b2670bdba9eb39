-------------------------- MODULE MCStudyRepository --------------------------
(***************************************************************************)
(* Small instances of StudyRepository for TLC.                             *)
(***************************************************************************)
EXTENDS StudyRepository, TLC

CONSTANTS alpha, beta,                \* natural identities
          fixed4, constant4, fixed5,  \* policies: class and rate
          rate4, rate5,               \* their stored forms
          jan, feb,                   \* cohort start dates
          base, other                 \* scalar columns

\* The codec stores the rate and not the class.
MCCodec == fixed4 :> rate4 @@ constant4 :> rate4 @@ fixed5 :> rate5

\* A grid of two rates, one of which is the representative policy of the
\* experiment, over two horizons.
GridStudy ==
    [identity |-> alpha, config |-> base, horizon |-> 2,
     policies |-> <<fixed4>>, cohorts |-> {jan, feb}, command |-> "run",
     units |-> <<[cohort |-> jan, policy |-> fixed5, horizon |-> 1],
                 [cohort |-> feb, policy |-> fixed4, horizon |-> 2]>>]

\* The same identity, executed between its second and third transaction.
OptimalStudy ==
    [GridStudy EXCEPT !.command = "optimize", !.policies = <<fixed5>>,
                      !.units = <<[cohort |-> jan, policy |-> fixed5, horizon |-> 2]>>]

\* The same identity after an edit of the study file.
EditedStudy == [GridStudy EXCEPT !.config = other, !.horizon = 3, !.units[2].horizon = 3]

\* The same rates under another policy class, and a repeated policy.
OtherClassStudy == [GridStudy EXCEPT !.policies = <<constant4>>]
RepeatedPolicyStudy == [GridStudy EXCEPT !.policies = <<fixed4, constant4, fixed5>>]

OtherStudy == [GridStudy EXCEPT !.identity = beta]

RerunStudies == {GridStudy, EditedStudy, OtherStudy}
LedgerStudies == {GridStudy, OptimalStudy, OtherClassStudy, RepeatedPolicyStudy}
OneStudy == {GridStudy}

ClientSymmetry == Permutations(Clients)
=============================================================================
