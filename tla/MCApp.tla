-------------------------------- MODULE MCApp --------------------------------
(***************************************************************************)
(* Instances of the controllers of one application each for TLC.           *)
(***************************************************************************)
EXTENDS AppRefinement

NothingLags == {}
EverythingLags == Objects
WorkloadLags == {"workload"}

EveryHistory == [1..MaxEdits -> AllForms]
\* All can be brought about; Create meets a panic, users correct it, Update meets
\* another; users change the storage and change it back.
LiveHistories == {<<"plain", "plain", "plain">>, <<"panics", "plain", "panics">>,
                  <<"plain", "claims", "plain">>}
=============================================================================
