----------------------------- MODULE MCWakeOnLan -----------------------------
(***************************************************************************)
(* Values for model-checking WakeOnLan: addresses of every length that is  *)
(* read, with as many 255s as confuse a packet most, in every notation.    *)
(***************************************************************************)
EXTENDS WakeOnLan

Addresses ==
    {<<255, 255, 255, 255, 255, 255>>, <<255, 1, 255, 255, 255, 255>>,
     <<1, 255, 255, 255, 255, 255>>, <<2, 4, 8, 16, 32, 64>>,
     <<2, 4>>, <<2, 4, 8, 16, 32, 64, 128, 255>>}

SomeTexts ==
    [sep : {":", "."}, octets : Addresses, hex : {TRUE}]
        \cup [sep : {"-", ""}, octets : {<<2, 4, 8, 16, 32, 64>>}, hex : BOOLEAN]

Card(mac, isUp, isLoop) == [octets |-> mac, up |-> isUp, loopback |-> isLoop]

\* No usable card; two that are up and one that is not; and two virtual ones
\* that share an address.
SomeInterfaces ==
    {<<Card(<<>>, TRUE, TRUE), Card(<<2, 4>>, TRUE, FALSE)>>,
     <<Card(<<2, 4, 8, 16, 32, 64>>, TRUE, FALSE),
       Card(<<1, 255, 255, 255, 255, 255>>, FALSE, FALSE),
       Card(<<255, 1, 255, 255, 255, 255>>, TRUE, FALSE)>>,
     <<Card(<<2, 4, 8, 16, 32, 64>>, TRUE, FALSE),
       Card(<<2, 4, 8, 16, 32, 64>>, TRUE, FALSE)>>}
=============================================================================
