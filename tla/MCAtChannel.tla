---------------------------- MODULE MCAtChannel ----------------------------
(* TLC instances of AtChannel: the request thread and one of the threads   *)
(* that send outside dispatchMutex (the listener, the event loop).         *)
EXTENDS AtChannel, TLC

CONSTANTS request, background, p1, p2

AllSenders == {request, background}
OneSender  == {request}
TheRequest == {request}
TwoPrefixes == {p1, p2}
PrefixSymmetry == Permutations(TwoPrefixes)
=============================================================================
