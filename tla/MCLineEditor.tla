---------------------------- MODULE MCLineEditor ----------------------------
(* Lines of up to three characters, one of which also ends an arrow key; two *)
(* commands with a common beginning; two lines of history.                  *)
EXTENDS LineEditor

Commands == {<<"x", "A">>, <<"x", "x", "x">>, <<"x", "x", "A">>}
=============================================================================
