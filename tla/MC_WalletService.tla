-------------------------- MODULE MC_WalletService --------------------------
EXTENDS WalletService

MC_Ids == {1, 2}
MC_InitDirs == {1}

=============================================================================
