---------------------------- MODULE PaymentLedger ----------------------------
(***************************************************************************)
(* What the payment service promises, without its handlers, its database   *)
(* or its broker.  Every order receives at most one decision, which never  *)
(* changes; a decision is announced (as a payment.completed event) only    *)
(* once it has been taken, and told to a caller only once it has been      *)
(* announced.  Payments.tla is shown to implement this module, and         *)
(* Orders.tla uses it as the payment side of the order service.            *)
(***************************************************************************)
CONSTANTS OrderIds,    \* identifiers an order can have
          Decisions,   \* what can be decided about one order
          Undecided    \* no decision yet, not a decision

VARIABLES decision,    \* the decision of each order
          announced,   \* pairs <<order, decision>> published as events
          told         \* pairs <<order, decision>> answered to some caller

ledgerVars == <<decision, announced, told>>

Pairs == OrderIds \X Decisions

LedgerTypeOK ==
  /\ decision \in [OrderIds -> Decisions \cup {Undecided}]
  /\ announced \subseteq Pairs
  /\ told \subseteq Pairs

LedgerInit ==
  /\ decision = [o \in OrderIds |-> Undecided]
  /\ announced = {}
  /\ told = {}

Decide(o, d) ==
  /\ decision[o] = Undecided
  /\ decision' = [decision EXCEPT ![o] = d]
  /\ UNCHANGED <<announced, told>>

Announce(o) ==
  /\ decision[o] # Undecided
  /\ announced' = announced \cup {<<o, decision[o]>>}
  /\ UNCHANGED <<decision, told>>

Tell(o) ==
  /\ <<o, decision[o]>> \in announced
  /\ told' = told \cup {<<o, decision[o]>>}
  /\ UNCHANGED <<decision, announced>>

LedgerNext ==
  \E o \in OrderIds :
    \/ \E d \in Decisions : Decide(o, d)
    \/ Announce(o)
    \/ Tell(o)

LedgerSpec == LedgerInit /\ [][LedgerNext]_ledgerVars
==============================================================================
