------------------------------- MODULE MCWindow -------------------------------
(* A small instance of Window.                                              *)
EXTENDS Window

CONSTANTS m1, m2, d1, s1, r1, r2

\* Nothing, spaces only, and a word to look for.
FewTexts == {"", "blank", "word"}
\* The views as they are wire up neither; the controllers are written for both.
BothMarkups == {{}, {"search", "dropdown"}}
===============================================================================
