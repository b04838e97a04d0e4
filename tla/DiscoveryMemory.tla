-------------------------- MODULE DiscoveryMemory --------------------------
(***************************************************************************)
(* What a P2P-RPL node promises about the route discoveries it takes part  *)
(* in, whatever its tables look like: it joins an unknown discovery, is    *)
(* active in it, and then keeps a silent record of it before forgetting    *)
(* it.  It never forgets a discovery it is active in, and never becomes    *)
(* active again in one it has a record of.                                 *)
(***************************************************************************)
CONSTANT Discoveries    \* a discovery is an instance ID and a DODAG ID

VARIABLE phase          \* what the node knows of each discovery

TypeOK == phase \in [Discoveries -> {"unknown", "active", "expired"}]

Init == phase = [k \in Discoveries |-> "unknown"]

\* One discovery is started by the application or joined from a DIO.
Start(k) ==
  /\ phase[k] = "unknown"
  /\ phase' = [phase EXCEPT ![k] = "active"]

\* Time passes: any active discoveries expire and any records are dropped.
Age ==
  \E E \in SUBSET {k \in Discoveries : phase[k] = "active"},
     F \in SUBSET {k \in Discoveries : phase[k] = "expired"} :
    phase' = [k \in Discoveries |-> IF k \in E THEN "expired"
                                    ELSE IF k \in F THEN "unknown"
                                    ELSE phase[k]]

Next == Age \/ \E k \in Discoveries : Start(k)

Spec == Init /\ [][Next]_phase
=============================================================================
