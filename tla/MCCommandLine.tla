--------------------------- MODULE MCCommandLine ---------------------------
(***************************************************************************)
(* One command, which answers without the EOT, and lines that are empty,   *)
(* as long as the buffer, and too long.                                    *)
(***************************************************************************)
EXTENDS CommandLine, TLC

MCCharacters == {"a"}
MCBytes      == MCCharacters \cup {"A", "?", "L", "CR", "LF", "EOT"}
MCAnswers    == <<"a">> :> <<"A">>
MCTexts      == {<<>>, <<"a">>, <<"a", "a", "a">>}

=============================================================================
