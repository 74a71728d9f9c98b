---------------------------- MODULE MCMapReduce ----------------------------
EXTENDS MapReduceOutput
=============================================================================
