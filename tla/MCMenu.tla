------------------------------- MODULE MCMenu -------------------------------
(* Words of one letter, spaces and a punctuation mark; items one of which  *)
(* returns something else, lines of the history that share a beginning.    *)
EXTENDS Menu
MCItem(s) == [string |-> s, ret |-> s]
MCCompletions ==
  {<<>>,
   <<MCItem(<<"-", "a">>), [string |-> <<"a">>, ret |-> <<"-">>], MCItem(<<"a", "a">>)>>}
MCHistory == <<<<"a", " ">>, <<"a", "-">>>>
MCPastes == {<<"-">>}
=============================================================================
