-------------------------- MODULE MC_NetworkQueries --------------------------
EXTENDS NetworkQueries, TLC

CONSTANTS testnet, mainnet, p1

MC_Networks == {testnet, mainnet}
MC_Params == {p1}

=============================================================================
