----------------------------- MODULE MCStdioTx -----------------------------
(* Instances of StdioTx: the texts that the runs write, with Depth = 2.    *)
EXTENDS StdioTx

\* Every way a piece can end; an empty piece; a piece longer than a buffer.
AnyTexts == {<<"x">>, <<"n">>, <<"x", "n">>, <<"x", "n", "n">>, <<"x", "n", "x">>,
             <<"n", "x">>, <<"x", "x", "x">>}
=============================================================================
