------------------------------ MODULE MCTagSync ------------------------------
(* The instance of TagSync that TLC checks.                                *)
EXTENDS TagSync, TLC

CONSTANTS ingress, service, m1, m2, m3, team, env

Owners == m1 :> ingress @@ m2 :> ingress @@ m3 :> service

NoDefaults == <<>>

(* No tag, and two of its own, one of them again as a label.               *)
Asks ==
    {[own |-> <<>>, labels |-> {}], [own |-> <<env, team>>, labels |-> {env}]}

Allow(kinds) == [e \in Events |-> IF e \in kinds THEN 1 ELSE 0]

(* One call fails, or a user does one thing to Kuma or the resource.       *)
OneAtATime ==
    {Allow({"fail"}), Allow({"lost"}), Allow({"uiDelete"}),
     Allow({"uiAssign"}), Allow({"uiCreate"}), Allow({"edit"})}
=============================================================================
