--------------------------- MODULE MCBrokerBuddy ---------------------------
(* The instance of BrokerBuddy that TLC checks: its configuration gives    *)
(* the constants.                                                          *)
EXTENDS BrokerBuddy

=============================================================================
