------------------------------ MODULE MCLabrpc ------------------------------
EXTENDS Labrpc
=============================================================================
