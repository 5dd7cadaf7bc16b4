------------------------------- MODULE MCShell -------------------------------
(* Shell over two names, three nodes beside the root and paths of at most two *)
(* components.                                                               *)
EXTENDS Shell

Rel(parts) == Path(FALSE, parts, FALSE)

MCPaths ==
    {Rel(<<"a">>), Rel(<<"..">>), Rel(<<"a", "b">>),
     Path(FALSE, <<"a">>, TRUE),           \* a/
     Path(TRUE, <<>>, FALSE),              \* /
     Path(FALSE, <<"..", "b">>, FALSE)}    \* ../b

MCTexts == {<<>>, <<"x">>}
=============================================================================
