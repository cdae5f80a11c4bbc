-------------------------- MODULE MCChannelDispatch --------------------------
(* Small instances of ChannelDispatch for TLC. *)
EXTENDS ChannelDispatch, TLC

Symmetry == Permutations(Channels) \cup Permutations(Fds)
=============================================================================
