------------------------- MODULE MCNotificationDelivery -------------------------
(***************************************************************************)
(* NotificationDelivery for TLC: three recipients, one of them refused for *)
(* good, and plans in which it comes first, in which two rules have the    *)
(* same recipient, and in which all can be reached.                        *)
(***************************************************************************)
EXTENDS NotificationDelivery

CONSTANTS w1, w2, mail, sms, slack

MCPlans == {<<slack, mail, sms>>, <<mail, sms, mail>>}

=================================================================================
