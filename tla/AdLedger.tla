----------------------------- MODULE AdLedger -----------------------------
(***************************************************************************)
(* What ad_request and ad_click (ad_map.h) promise the owners of ads: a    *)
(* show or a click is counted first and then charged at most once, for the *)
(* same ad, by the worker that counted it, before that worker counts       *)
(* another one.  A server that refuses to count does not keep the charge   *)
(* from being made.  There are no requests, groups, flags or connections   *)
(* here; a worker owes a charge, makes it, or gives it up.                 *)
(***************************************************************************)
EXTENDS Naturals

CONSTANTS
    Workers,    \* those who count and charge
    Ads,        \* what is shown and clicked
    NoAd

VARIABLES
    shows,      \* shows[a]: shows of a that were counted
    clicks,     \* the same of clicks
    show_rows,  \* show_rows[a]: shows of a that were charged
    click_rows, \* the same of clicks
    lost_shows, \* lost_shows[a]: shows of a that the server refused to count
    lost_clicks,\* the same of clicks
    debt        \* debt[p]: the charge p owes

ledgerVars == <<shows, clicks, show_rows, click_rows, lost_shows, lost_clicks, debt>>

Debt(kind, a) == [kind |-> kind, ad |-> a]
NoDebt == Debt("none", NoAd)

LedgerInit ==
    /\ shows = [a \in Ads |-> 0] /\ clicks = [a \in Ads |-> 0]
    /\ show_rows = [a \in Ads |-> 0] /\ click_rows = [a \in Ads |-> 0]
    /\ lost_shows = [a \in Ads |-> 0] /\ lost_clicks = [a \in Ads |-> 0]
    /\ debt = [p \in Workers |-> NoDebt]

\* One more.
Raised(counter, a) == [counter EXCEPT ![a] = counter[a] + 1]

Settled(p) == debt' = [debt EXCEPT ![p] = NoDebt]

\* One of the two counters of ad a.
OneRaised(counter, refused, a) ==
    \/ counter' = Raised(counter, a) /\ refused' = refused
    \/ counter' = counter /\ refused' = Raised(refused, a)

CountShow(p) ==
    /\ debt[p] = NoDebt
    /\ \E a \in Ads :
          /\ OneRaised(shows, lost_shows, a)
          /\ debt' = [debt EXCEPT ![p] = Debt("show", a)]
    /\ UNCHANGED <<clicks, show_rows, click_rows, lost_clicks>>

CountClick(p) ==
    /\ debt[p] = NoDebt
    /\ \E a \in Ads :
          /\ OneRaised(clicks, lost_clicks, a)
          /\ debt' = [debt EXCEPT ![p] = Debt("click", a)]
    /\ UNCHANGED <<shows, show_rows, click_rows, lost_shows>>

ChargeShow(p) ==
    /\ debt[p].kind = "show"
    /\ show_rows' = Raised(show_rows, debt[p].ad)
    /\ Settled(p)
    /\ UNCHANGED <<shows, clicks, click_rows, lost_shows, lost_clicks>>

ChargeClick(p) ==
    /\ debt[p].kind = "click"
    /\ click_rows' = Raised(click_rows, debt[p].ad)
    /\ Settled(p)
    /\ UNCHANGED <<shows, clicks, show_rows, lost_shows, lost_clicks>>

\* The worker died, or the charge failed unnoticed.
GiveUp(p) ==
    /\ debt[p] # NoDebt
    /\ Settled(p)
    /\ UNCHANGED <<shows, clicks, show_rows, click_rows, lost_shows, lost_clicks>>

\* Every step changes what one worker owes.
LedgerNext ==
    \E p \in Workers :
        /\ debt'[p] # debt[p]
        /\ CountShow(p) \/ CountClick(p) \/ ChargeShow(p) \/ ChargeClick(p) \/ GiveUp(p)

LedgerSpec == LedgerInit /\ [][LedgerNext]_ledgerVars
=============================================================================
