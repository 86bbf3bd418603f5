------------------------------- MODULE MCSync -------------------------------
(* Situations for synchronisation: two or three blocks, or five with a longer fork. *)
EXTENDS Sync

Main == [n \in 1..5 |-> <<n, "m">>]
Fork == <<<<1, "m">>, <<2, "f">>>>
LongerFork == SubSeq(Main, 1, 3) \o [n \in 1..3 |-> <<3 + n, "f">>]
MCPaths == {Main, Fork, LongerFork}
FewPaths == {SubSeq(Main, 1, 4)}
MCPeers == {"a", "b"}

\* two peers with the same blocks, more of them than we handle or list at a time
TwoPeers ==
  [peers |-> MCPeers, ours |-> <<>>, theirs |-> [p \in MCPeers |-> SubSeq(Main, 1, 3)],
   invalid |-> {}, lacking |-> {}, limit |-> 2, min_prefetch |-> 2, per_peer |-> 1,
   handle_max |-> 2, prefetch_max |-> 2, undoable |-> 2,
   max_growth |-> 0, max_drops |-> 0, max_advertised |-> 0]

\* one of two peers is on a fork with an invalid block, and may lack what it listed
Apart ==
  [TwoPeers EXCEPT !.theirs = [a |-> SubSeq(Main, 1, 3), b |-> Fork], !.invalid = {<<2, "f">>},
                   !.lacking = {"b"}, !.limit = 3, !.handle_max = 1]

\* one peer moves to a longer fork, advertises a block, and is dropped
Moving ==
  [TwoPeers EXCEPT !.peers = {"a"}, !.theirs = [a |-> Main, b |-> <<>>], !.limit = 4,
                   !.min_prefetch = 3, !.handle_max = 1, !.prefetch_max = 1,
                   !.max_growth = 1, !.max_drops = 1, !.max_advertised = 1]

\* two peers, of which one is dropped and may come back
Dropped ==
  [TwoPeers EXCEPT !.theirs = [p \in MCPeers |-> SubSeq(Main, 1, 2)], !.min_prefetch = 1,
                   !.handle_max = 1, !.prefetch_max = 1, !.max_drops = 1]

\* one peer with more blocks than we request of it at a time
Alone ==
  [TwoPeers EXCEPT !.peers = {"a"}, !.theirs = [a |-> SubSeq(Main, 1, 4), b |-> <<>>],
                   !.limit = 5, !.per_peer = 3, !.prefetch_max = 1]

\* two peers with the same two blocks, which are handled one at a time
Same == [Dropped EXCEPT !.max_drops = 0]

Interleaved == {TwoPeers, Apart, Moving}
Fair == {Dropped, Alone}
Unfaulted == {Same}
=============================================================================
