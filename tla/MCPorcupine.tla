---------------------------- MODULE MCPorcupine -----------------------------
EXTENDS Porcupine

get(output) == [op |-> "get", value |-> <<>>, output |-> output]

\* An operation with value a; its output matters for "appendOld" only.
write(op) == [op |-> op, value |-> <<"a">>, output |-> <<>>]

\* Keys meet in the channel and the kill flag only, so they need not have the same
\* operations.  On the second, one Append that found nothing is right and two are not.
MCOutcome ==
    <<{get(<<>>), get(<<"a">>), write("put"), write("append")},
      {write("appendOld")}>>
=============================================================================
