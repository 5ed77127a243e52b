---------------------------- MODULE MCCryptoCache ----------------------------
EXTENDS CryptoCache, TLC

\* The request threads run the same program.
Threads == Permutations(Thread)
=============================================================================
