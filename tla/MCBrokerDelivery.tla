-------------------------- MODULE MCBrokerDelivery --------------------------
(* Instances of BrokerDelivery for TLC.                                    *)
EXTENDS BrokerDelivery

=============================================================================
