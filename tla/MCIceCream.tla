----------------------------- MODULE MCIceCream -----------------------------
EXTENDS IceCream, TLC

CONSTANTS k1, k2, k3, k4

\* Two machines, the second one later; vanilla takes a second, fudge two, and
\* nobody sells mint.
MCStart == <<0, 1>>
MCEnd == <<2, 3>>
MCPrep == "vanilla" :> 1 @@ "fudge" :> 2

\* k1 and k2 together want more time than there is, k3 what is not sold, k4
\* what no machine can finish once they have arrived.
MCArrival == k1 :> 0 @@ k2 :> 0 @@ k3 :> 1 @@ k4 :> 2
MCOrders == k1 :> <<"vanilla", "fudge">> @@ k2 :> <<"fudge">> @@ k3 :> <<"mint">> @@ k4 :> <<"fudge">>
=============================================================================
