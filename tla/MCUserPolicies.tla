--------------------------- MODULE MCUserPolicies ---------------------------
(***************************************************************************)
(* The policies of user-space-app.c on 4096 addresses with a top range of  *)
(* 64: the guards ask about both sides of every boundary.                  *)
(***************************************************************************)
EXTENDS UserPolicies

MCModulus == 4096
MCTopSize == 64
MCFlag == {"r", "w", "x"}

Boundaries == {0, 1, 255, 256, 257, 2046, 2047, 2048, 3838, 3839, 3840, 4030, 4031,
               4032, 4033, 4094, 4095}

MCAccess == [addr : Boundaries, flags : {{"r"}, {"w"}, {"x"}}]

OnlyEntireSpace == {EntireSpace}
OnlyFiveParts == {FiveParts}
=============================================================================
