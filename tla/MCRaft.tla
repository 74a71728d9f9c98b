------------------------------- MODULE MCRaft -------------------------------
EXTENDS Raft
=============================================================================
