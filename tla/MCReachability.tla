--------------------------- MODULE MCReachability ---------------------------
(* Instance of Reachability for TLC: every way to give each relation at most one
   edge between four states, or all edges out of one state. *)
EXTENDS Reachability

Edges == {{}} \cup {{e} : e \in State \X State} \cup {{x} \X State : x \in State}

AllModels == [states : {{1}, {1, 2}}, next : [Index -> Edges]]
=============================================================================
