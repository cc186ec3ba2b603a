------------------------------- MODULE MCServer -------------------------------
(***************************************************************************)
(* The server on a small instance.  The two services share nothing but the *)
(* process: in a behaviour clients use one of them, and the other one has  *)
(* a single initial state.                                                 *)
(***************************************************************************)
EXTENDS Server, TLC

MCOffers ==
  {[base |-> 1, key |-> 1, model |-> 1], [base |-> 2, key |-> 2, model |-> 2],
   [base |-> 2, key |-> 2, model |-> Blank]}

MCJoined == [p \in {"/", "d"} \X {".", "d/"} |->
               IF p[2] = "." THEN p[1] ELSE IF p[1] = "/" THEN "d" ELSE None]

(* A long answer to one call, next to another call.                        *)
MCMaxChunks == ("c1" :> 3) @@ ("c2" :> 1)

MCUses == {{"terminal"}, {"ai"}}

MCInit ==
  /\ Init
  /\ "terminal" \notin use =>
       docker /\ mode = "all" /\ via = "ws" /\ site = [s \in DOMAIN site |-> None]
  /\ "ai" \notin use => row = Unset

MCSpec == MCInit /\ [][Next]_vars /\ Fairness
=============================================================================
