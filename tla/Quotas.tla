--------------------------------- MODULE Quotas ---------------------------------
(***************************************************************************)
(* The marketplace with a record of what its monthly quotas are about: in  *)
(* which months an agent placed each bid, and a manager accepted it        *)
(* himself.  The handlers do not keep this record; they count stamps of    *)
(* the present rows (BidsThisMonth, AcceptsThisMonth), which outlive a     *)
(* withdrawal or a rollback and are not all renewed with the row.          *)
(***************************************************************************)
EXTENDS MarketplaceProperties

VARIABLES
  placed,   \* history: bids and the months in which their agents placed them
  granted   \* history: bids and the months in which their managers accepted them

quotaVars == <<vars, placed, granted>>

Month(day) == (day - 1) \div MonthLength
Months == {Month(day) : day \in Days}

\* The bids a manager accepts himself: accept_bid accepts at the price of the bid,
\* accept_counter at that of its counter, which it clears.
GrantedNow ==
  {b \in Bids : /\ bidStatus[b] = "pending" /\ bidStatus'[b] = "accepted"
                /\ counteredAmount'[b] = counteredAmount[b]}

InitQ == Init /\ placed = {} /\ granted = {}

NextQ ==
  /\ Next
  /\ placed' = placed \cup (PlacedNow \X {Month(today)})
  /\ granted' = granted \cup (GrantedNow \X {Month(today)})

SpecQ == InitQ /\ [][NextQ]_quotaVars

\* With the fairness of the marketplace: the expiry job runs for ever.
FairSpecQ == SpecQ /\ WF_vars(ExpireOverdueLeads)

PlacedIn(a, month) == {b \in Bids : AgentOf[LeadOf(b)] = a /\ <<b, month>> \in placed}
PlacedBefore(month) == {b \in Bids : \E earlier \in Months : earlier < month /\ <<b, earlier>> \in placed}
GrantedIn(m, month) == {b \in Bids : ManagerOf[PropertyOf(b)] = m /\ <<b, month>> \in granted}

WithinPlan(limit, used) == limit # NoLimit => Cardinality(used) <= limit

--------------------------------------------------------------------------------
\* Safety

\* Of the bids an agent places in a month no more than his plan allows are new:
\* what he withdrew meanwhile still counts (check_agent_can_bid), and what he
\* places beyond his plan are bids of earlier months, taken up again.
NewBidsWithinPlan ==
  \A a \in Agents, month \in Months :
    WithinPlan(BidLimit[a], PlacedIn(a, month) \ PlacedBefore(month))

\* A manager accepts no more bids in a month than his plan allows, also when
\* accepted ones are given up, placed anew and accepted again, by him or over his
\* counter (check_manager_can_accept, and stamps that a rollback leaves).
AcceptancesWithinPlan ==
  \A m \in Managers, month \in Months : WithinPlan(AcceptLimit[m], GrantedIn(m, month))

================================================================================
