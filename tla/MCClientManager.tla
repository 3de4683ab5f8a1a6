--------------------------- MODULE MCClientManager ---------------------------
EXTENDS ClientManager, TLC

Interchangeable == Permutations(Names) \cup Permutations(Adapters) \cup Permutations(Slots)
=============================================================================
