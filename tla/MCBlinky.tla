------------------------------ MODULE MCBlinky ------------------------------
(* Blinky for TLC: patterns that are empty, regular, end inside, or stop   *)
(* at a character nobody gets past.                                        *)
EXTENDS Blinky, TLC

MCPatterns == {<<>>, <<"num">>, <<"num", "num", "num">>,
               <<"num", "ends", "num">>, <<"junk", "num">>,
               <<"num", "num", "junk">>}
MCFewPatterns == {<<"num", "num">>, <<"num", "ends", "num">>}

=============================================================================
