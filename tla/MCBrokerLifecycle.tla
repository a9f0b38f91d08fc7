------------------------- MODULE MCBrokerLifecycle -------------------------
(* Instances of BrokerLifecycle for TLC. *)
EXTENDS BrokerLifecycle

MCFlashes == Settings
MCDisabled == {[enabled |-> 0, bind |-> "good"]}
=============================================================================
