------------------------- MODULE MCRecoveryManager -------------------------
(* The values TLC gives the constants of RecoveryManager.                   *)
EXTENDS RecoveryManager, TLC

CONSTANTS owner, wallet, g1, g2, n1, n2, d1, k1

MCFactory == {}
MCAccountOf == <<>>
MCLegacyDevices == <<>>
MCLegacyKeyOf == d1 :> NoKey
MCCommitment == {<<d1, 0, owner>>}
MCGuardianLists == {<<>>, <<g1>>, <<g1, g2>>, <<g2, g2>>, <<g1, g2, wallet>>}
=============================================================================
