------------------------- MODULE MCChannelLifecycle -------------------------
(* TLC instances of ChannelLifecycle: a reader, its successor, and one     *)
(* thread of requests.  Readers differ in nothing but their name.          *)
EXTENDS ChannelLifecycle, TLC

CONSTANTS request, r1, r2

OneRequest == {request}
TwoReaders == {r1, r2}
Swap       == Permutations(TwoReaders)
=============================================================================
