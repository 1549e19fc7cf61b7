-------------------------- MODULE MCSessionRegistry -------------------------
(* The values TLC gives the constants of SessionRegistry: two identities    *)
(* whose controllers both try to register the same device, which a legacy   *)
(* registry holds for one of them.  Wallets consent for themselves.         *)
EXTENDS SessionRegistry, TLC

CONSTANTS alice, bob, carol, n1, n2, d1, h1, h2

HashSymmetry == Permutations({h1, h2})
MCNoFunction == <<>>
MCCommitment == {<<d1, 0, alice>>, <<d1, 0, bob>>}
MCLegacyDevices == n1 :> {d1}
MCLegacyKeyOf == d1 :> NoKey
=============================================================================
