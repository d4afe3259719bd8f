---------------------------- MODULE MCLiveChart ----------------------------
EXTENDS LiveChart, TLC
Perms == Permutations(Greenhouses)
=============================================================================
