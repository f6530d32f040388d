--------------------------- MODULE MCRemoteUnblock ---------------------------
(* A small instance of RemoteUnblock: two hosts, requests for one of them    *)
(* and for both, a value that can be listed and one that no append takes.    *)
EXTENDS RemoteUnblock

CONSTANTS h1, h2, a, b

TwoHosts == {h1, h2}
TwoValues == {a, b}
OneValue == {a}
FirstOrAll == {h1, All}
=============================================================================
