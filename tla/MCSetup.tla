-------------------------------- MODULE MCSetup --------------------------------
(***************************************************************************)
(* Setup on small instances.                                               *)
(***************************************************************************)
EXTENDS Setup, TLC

CONSTANTS f1, g1, p1, p2

East == f1 :> 2

SetupScenarios ==
    {{"changeStatus"},
     {"edit", "abort"},
     {"edit", "publish"},
     {"edit", "template"},
     {"template", "abort"}}
=============================================================================
