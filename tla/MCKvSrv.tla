------------------------------ MODULE MCKvSrv ------------------------------
EXTENDS KvSrv
=============================================================================
