------------------------------- MODULE MCFiles ------------------------------
(* Two bar names, one of which is the other when it is cut, and one that   *)
(* clients and views share.                                                *)
EXTENDS Files
CONSTANTS f1, f2
MCNames == <<"one", "onelong", "two">>
MCCut == [n \in {"one", "onelong", "two"} |-> IF n = "two" THEN n ELSE "one"]
MCPaths == {<<"lbar">>, <<"lbar", "one">>, <<"client", "sel">>, <<"client", "x">>, <<"..">>,
            <<"tag", "x", "index">>, <<"ctl">>, <<"tags">>, <<"event">>, <<"keys">>, <<"debug">>}
=============================================================================
