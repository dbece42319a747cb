-------------------------- MODULE MCWalletRecovery --------------------------
(* An instance of WalletRecovery for TLC: no wallet, or two in an order,     *)
(* of which the first may have a password.                                   *)
EXTENDS WalletRecovery

CONSTANTS w1, w2

MCWallets == {w1, w2}
MCDirectories == {<<>>, <<w1, w2>>}
MCLocked == {{}, {w1}}
=============================================================================
