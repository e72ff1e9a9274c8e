--------------------------- MODULE MCGenerateNkeys ---------------------------
(* An instance of GenerateNkeys for TLC: two data centers and one extra      *)
(* account, asked for in one run, one after the other, and twice.            *)
EXTENDS GenerateNkeys

Invocation(c, e) == [cpcs |-> c, extras |-> e]

MCInvocations ==
    {Invocation(<<>>, <<>>), Invocation(<<"1">>, <<>>), Invocation(<<"2">>, <<"launchlayer">>),
     Invocation(<<"1", "2">>, <<"launchlayer">>), Invocation(<<"1", "1">>, <<>>),
     Invocation(<<"1">>, <<"launchlayer", "launchlayer">>)}
==============================================================================
