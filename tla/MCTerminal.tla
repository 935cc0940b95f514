----------------------------- MODULE MCTerminal -----------------------------
(* Instances of Terminal for TLC.                                          *)
EXTENDS Terminal

MCMessage == <<"glyph", "NL">>

(* Left shift, both control keys, backspace, tab, enter, pause, and print  *)
(* screen.                                                                 *)
MCKeys == {Key(\h2A), Key(\h1D), Extended(\h1D), Key(\h0E), Key(\h0F), Key(\h1C), Pause, PrintScreen}
=============================================================================
