----------------------------- MODULE MCFileSys -----------------------------
EXTENDS FileSys, TLC

CONSTANTS ab, abc, ac

\* What path_parse() makes of the three names: it looks at two letters.
MCHaxi == (ab :> 5475) @@ (abc :> 5475) @@ (ac :> 5477)

MCStartsWith == {<<abc, ab>>}
=============================================================================
