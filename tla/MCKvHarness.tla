---------------------------- MODULE MCKvHarness -----------------------------
EXTENDS KvHarness, TLC

MCInstance == Server \X (1..MaxStarts)
MCEndName == ServerEnd \union ClerkEnd
ServerSymmetry == Permutations(Server)
=============================================================================
