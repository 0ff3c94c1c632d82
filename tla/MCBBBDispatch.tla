---------------------------- MODULE MCBBBDispatch ----------------------------
(* One battery, two bakeries and two buckets with limits that compete.     *)
EXTENDS BBBDispatch, TLC

CONSTANTS bat, bakA, bakB, low, high

cEMin == (bat :> 0) @@ (bakA :> 0) @@ (bakB :> 0) @@ (low :> -1) @@ (high :> -2)
cEMax == (bat :> 4) @@ (bakA :> 3) @@ (bakB :> 4) @@ (low :> 1) @@ (high :> 2)
cPMin == (bat :> 0) @@ (bakA :> 0) @@ (bakB :> 0) @@ (low :> -1) @@ (high :> -1)
cPMax == (bat :> 2) @@ (bakA :> 3) @@ (bakB :> 2) @@ (low :> 1) @@ (high :> 2)
cTEnd == (bat :> 4) @@ (bakA :> 5) @@ (bakB :> 5)
cTRun == (bakA :> 2) @@ (bakB :> 2)
cUnitNumber == (bat :> 1) @@ (bakA :> 1) @@ (bakB :> 2) @@ (low :> 1) @@ (high :> 2)

=============================================================================
