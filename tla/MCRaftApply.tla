---------------------------- MODULE MCRaftApply -----------------------------
EXTENDS RaftApply, TLC

CmdSymmetry == Permutations(Cmd)
=============================================================================
