----------------------------- MODULE MCPageText -----------------------------
(* Model checking of PageText: words with both Turkish i's in both cases,    *)
(* and URLs with backslashes where the escapes of the line format would be.  *)
EXTENDS PageText, TLC

MCData == {<<"Idot", "x">>, <<"I">>, <<"newline", "-">>}
MCUrls == {<<"x", "backslash", "t">>, <<"backslash", "backslash">>}
MCOrigins == {<<"i", "backslash">>}
MCSearchWords == {<<"i", "X">>, <<"idotless">>, <<"i">>, <<"I", "I">>, <<"idotless", "Idot", "x">>}

\* For the side configurations: what entities decode to, and a capital sigma before a
\* period inside a word.
MCDataEntities == {<<"x", "<">>, <<"I">>, <<">", "space">>}
MCDataSigma == {<<"x", "Sigma">>, <<".", "x">>}
MCSearchWordsSigma == {<<"x", "Sigma">>}
=============================================================================
