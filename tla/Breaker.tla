------------------------------- MODULE Breaker -------------------------------
(***************************************************************************)
(* What the circuit breakers of lirix/layers/l4_rpc_manager.py promise of  *)
(* an endpoint, whoever reconciles and in whatever order answers arrive: a *)
(* tripped breaker stays tripped until its cooldown is over, and only then *)
(* may a success close it.  The operator's reset closes all at once.       *)
(***************************************************************************)
CONSTANT Endpoints

VARIABLE status

States == {"closed", "tripped", "cooled"}

Moves == {<<"closed", "tripped">>, <<"tripped", "cooled">>,
          <<"cooled", "tripped">>, <<"cooled", "closed">>}

Init == status = [e \in Endpoints |-> "closed"]

\* one reconcile, or the passing of time, moves any number of breakers
Observe ==
    /\ status' \in [Endpoints -> States]
    /\ \A e \in Endpoints :
          status'[e] = status[e] \/ <<status[e], status'[e]>> \in Moves

Reset == status' = [e \in Endpoints |-> "closed"]

Next == Observe \/ Reset

Spec == Init /\ [][Next]_status

=============================================================================
