----------------------------- MODULE MCServices -----------------------------
(* The message queue, the payments and delayed work, which share no state, *)
(* checked side by side: each behaviour is one of them, and the others     *)
(* rest.                                                                   *)
EXTENDS Amqp, Gold, TryLater

CONSTANTS
    order1, order2,  \* the purchases
    mod2             \* one of the moderators

VARIABLE service

Pair(p1, g1, p2, g2) ==
    [t \in Purchases |-> IF t = order1 THEN [provider |-> p1, goldtype |-> g1]
                         ELSE [provider |-> p2, goldtype |-> g2]]

\* Every provider, with the goods that take a path of their own.
Catalog ==
    {Pair("stripe", "creddits", "gild", "gift"),
     Pair("coinbase", "code", "creddits", "onetime"),
     Pair("paypal", "gift", "paypal", "autorenew"),
     Pair("creddits", "code", "creddits", "gift"),
     Pair("stripe", "autorenew", "paypal", "code"),
     Pair("coinbase", "onetime", "paypal", "creddits")}

ServicesInit ==
    /\ service \in {"amqp", "gold", "later", "overlap"}
    /\ AmqpInit /\ GoldInit /\ LaterInit
    /\ service # "gold" => offer = CHOOSE o \in Offers : TRUE
    /\ service \notin {"later", "overlap"} => kind = CHOOSE k \in Kinds : TRUE

\* Delayed work with one request at a time, or with two that overlap.
LaterStep ==
    \/ /\ service = "later" /\ LaterNext
       /\ modReq'[mod2] = NoReq /\ requests' + laterFaults' <= 3
    \/ /\ service = "overlap" /\ LaterNext
       /\ requests' <= 2 /\ laterFaults' = 0

\* A crash or a lost blob counts as one of the extra requests; no action that
\* fairness is about is either.
PaymentStep == GoldNext /\ extra' + goldFaults' <= 3

ServicesNext ==
    /\ \/ service = "amqp" /\ AmqpNext /\ UNCHANGED <<goldVars, laterVars>>
       \/ service = "gold" /\ PaymentStep /\ UNCHANGED <<amqpVars, laterVars>>
       \/ LaterStep /\ UNCHANGED <<amqpVars, goldVars>>
    /\ UNCHANGED service

\* At rest, no action that fairness is about is enabled.
ServicesSpec ==
    /\ ServicesInit /\ [][ServicesNext]_<<service, amqpVars, goldVars, laterVars>>
    /\ AmqpFairness /\ GoldFairness /\ LaterFairness
    /\ WF_laterVars(service \in {"later", "overlap"} /\ LaterTick)

(***************************************************************************)
(* The state of each component stays within its type; a queue processor    *)
(* that has no job is nowhere.                                             *)
(***************************************************************************)
ServicesTypeOK == AmqpTypeOK /\ GoldTypeOK /\ LaterTypeOK
=============================================================================
