-------------------------- MODULE MCWebhookBindings --------------------------
(* Instances of WebhookBindings for TLC. *)
EXTENDS WebhookBindings

\* Every handler goes with every client.
AllBindable == Handlers \X Clients
=============================================================================
