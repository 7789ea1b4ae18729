------------------------------ MODULE MCAccess ------------------------------
(* TLC instance of Access: an order whose rules are all left out, one with  *)
(* different permissions on two modems, one with a rule for "*".            *)
EXTENDS Access
Order(allowed, rules_) == [allowed |-> allowed, rules |-> rules_]
MCOrders ==
    {Order({"s1"}, [n \in {"s2"} |-> {"view_sms"}]),
     Order({"*"}, [n \in {"s1", "s2"} |-> IF n = "s1" THEN {"send_at"} ELSE {"view_sms"}]),
     Order({"*"}, [n \in {"*"} |-> {"view_sms"}])}
=============================================================================
