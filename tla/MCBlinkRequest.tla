--------------------------- MODULE MCBlinkRequest ---------------------------
(* BlinkRequest for TLC: a pattern that does not start, and one that stops *)
(* inside, behind which a timer left over reads on.                        *)
EXTENDS BlinkRequest, TLC

MCPatterns == {<<>>, <<"num", "ends", "num">>}

=============================================================================
