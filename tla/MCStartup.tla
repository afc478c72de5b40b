------------------------------- MODULE MCStartup -------------------------------
EXTENDS Startup, TLC
CONSTANTS Local
MCEnv == "model" :> Local
MCSymmetry == Permutations(Paths)
=============================================================================
