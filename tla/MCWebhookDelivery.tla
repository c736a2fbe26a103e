-------------------------- MODULE MCWebhookDelivery --------------------------
(* Instances of WebhookDelivery for TLC. *)
EXTENDS WebhookDelivery

E(name, what, decodes) == [name |-> name, what |-> what, decodes |-> decodes]

StatePush == E("push", "hunsu/state", TRUE)

\* Two pushes of the state branch; or events of other kinds.
MCEventMaps ==
    {[d \in Delivery |-> IF d = "first" THEN x[1] ELSE x[2]] :
       x \in
         {<<StatePush, StatePush>>,
          <<E("push", "main", TRUE),
            E("installation_repositories", "removed", TRUE)>>,
          <<E("installation", "suspend", TRUE),
            E("installation", "renamed", TRUE)>>,
          <<E("ping", None, TRUE), E("push", "hunsu/state", FALSE)>>}}
=============================================================================
