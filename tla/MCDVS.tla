-------------------------------- MODULE MCDVS --------------------------------
(* DVS with up to three trains, two of them at one station, and one platform   *)
(* accepted, as SM.cpp stands, or up to two trains and two platforms.          *)
EXTENDS DVS, TLC

MCStation == <<1, 2, 1>>
MCAccepted == {{1}, {1, 2}}
MCMaxTrains == [n \in 0..2 |-> IF n = 2 THEN 2 ELSE 3]
MCLeft == {{}, 1..3}
MCOne == {{1}}
=============================================================================
