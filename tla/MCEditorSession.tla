--------------------------- MODULE MCEditorSession ---------------------------
(* EditorSession with one evaluation: a statement and one in two halves;  *)
(* or half a statement given up by blank lines, with a syntax error and a  *)
(* statement after it.                                                     *)
EXTENDS EditorSession

MCTexts == {<<"whole", "open", "blank", "close">>,
            <<"open", "blank", "blank", "bad", "whole">>}

=============================================================================
