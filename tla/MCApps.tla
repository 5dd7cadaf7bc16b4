-------------------------------- MODULE MCApps --------------------------------
(* Apps with room for two nodes beside /docs and its file, a screen of four    *)
(* lines, histories of two entries and lines cut after one to three characters, *)
(* so that every limit is met.                                                 *)
EXTENDS Apps

Docs == Path(TRUE, <<"docs">>, FALSE)
MCOtherPaths == [k \in Kinds |->
    CASE k = "editor" -> {Ed!Nota, Ed!Benvenuto}
      [] k = "files" -> {Docs, Path(FALSE, <<"nuovo_file_1.txt">>, FALSE)}
      [] k = "terminal" -> {Docs}
      [] OTHER -> {}]
MCSamples == SeqOf({"x", " ", NL}, 4)
MCOtherTexts == {<<"x", "x">>}
MCLinks == {<<"h">>, <<"a">>}
MCTyped == {"x", NL}
MCWords == {" ", "clear", "history", "x"}
MCInputs == {<<" ">>, <<" ", "clear">>, <<"clear">>, <<"clear", " ">>, <<"clear", " ", "x">>,
             <<"history">>, <<"x">>}
MCMonths == 0..13 \cup {31, 32}
MCYears == {0} \cup 1969..2101
=============================================================================
