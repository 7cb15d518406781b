------------------------- MODULE MCBrokerPartitions -------------------------
(* Instances of BrokerPartitions for TLC: a .cfg cannot write -1.          *)
EXTENDS BrokerPartitions

NuncaCompactar == -1
=============================================================================
