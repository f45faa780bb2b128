-------------------------------- MODULE MCSuites --------------------------------
(***************************************************************************)
(* The calculators of the validation campaign, and the small instance on   *)
(* which the statements of its scripts are compared with what they do.     *)
(***************************************************************************)
EXTENDS ScienceSuites

Loaded(engine, profile, dtype) == [engine |-> engine, profile |-> profile, dtype |-> dtype]

\* model_manifest.json: MACE in two profiles; run_suite.py --dtype sets another
\* precision than that of the profile.
Double == Loaded("mace", "mace_omat", "float64")
Single == Loaded("mace", "mace_omat_float32", "float32")
Overridden == Loaded("mace", "mace_omat", "float32")
Dpa == Loaded("dpa", "dpa_omat", "upstream")

TwoOfMace == {Double, Single}
AllCalculators == {Double, Single, Overridden, Dpa}

\* One trajectory, and one equation of state.
FewRequests == {<<"t7", AnalysisList({"md"}, <<1>>)>>, <<"t4", <<<<"eos", 0>>>>>>}
=============================================================================
