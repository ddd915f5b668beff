---------------------------- MODULE MCPushDispatch ----------------------------
(***************************************************************************)
(* PushDispatch for TLC.                                                    *)
(***************************************************************************)
EXTENDS PushDispatch, TLC

\* Subscriptions are interchangeable, and so are streams.
Symmetry == Permutations(Sub) \cup Permutations(Listener)
===============================================================================
