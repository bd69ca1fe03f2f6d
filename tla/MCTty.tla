------------------------------- MODULE MCTty -------------------------------
(* A page of two lines of two cells for TLC: the handler's message is      *)
(* longer than a line and the panic's longer than the page.                *)
EXTENDS Tty

MCMessage   == <<"k", "k", "newline">>
MCPanicText == <<"p", "p", "newline", "p", "newline", "p">>
=============================================================================
