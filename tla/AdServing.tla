---------------------------- MODULE AdServing ----------------------------
(***************************************************************************)
(* ad_request and ad_click of ad_map.cpp, as run by the ad_op workers      *)
(* (restart_fastcgi.sh starts ten, each single-threaded) over one memory   *)
(* database and the fund_queue table of PostgreSQL.                        *)
(*                                                                         *)
(* A request visits the advertising groups of its place; in each group     *)
(* get_eCPM reads, ad by ad, the valid flag and then the show counter, and *)
(* keeps the ad with the least (shows + 1) / weight.  The best n groups    *)
(* then show that ad: its counter is incremented and its owner is charged. *)
(* Nothing makes these steps atomic: a counter read early is used after    *)
(* other workers have incremented it, and a flag read as set may have been *)
(* cleared since.  The database is Redis: a command fails with the         *)
(* connection, for good, and an increment is also refused alone, by an     *)
(* error reply that leaves the connection as it was (no memory left, no    *)
(* room to save, a replica).  Reads that are refused alone are left to     *)
(* AdSelection.                                                            *)
(***************************************************************************)
EXTENDS Integers, Sequences, FiniteSets

CONSTANTS
    Procs,      \* ad_op workers
    Groups,     \* advertising groups of the mall
    Ads,        \* their advertisements
    GroupOf,    \* "ad:M:A:group", and the sets "ad.group:M:G:ad.set"
    Weight,     \* "ad:M:A:weight", 0 when it is not set
    Fickle,     \* the advertisements whose valid flag is toggled
    Ecpms,      \* values the eCPM of a group can have
    MaxN,       \* bound on the number n of ads a request asks for
    MaxRequests,\* bound on the number of requests
    MaxLost,    \* bound on the increments of a counter that are refused
    NoAd, NoGroup

ASSUME ProcsFinite == IsFiniteSet(Procs) /\ Procs # {}
ASSUME GroupOfType == GroupOf \in [Ads -> Groups]
ASSUME WeightType == Weight \in [Ads -> Nat]
ASSUME FickleType == Fickle \subseteq Ads
ASSUME EcpmsType == Ecpms \subseteq Nat
ASSUME BoundsType == MaxN \in Nat \ {0} /\ MaxRequests \in Nat /\ MaxLost \in Nat
ASSUME NoAdIsNoAd == NoAd \notin Ads /\ NoGroup \notin Groups

VARIABLES
    valid,      \* "ad:M:A:valid" > 0
    open,       \* "ad.group:M:G:valid" is not 0
    shows,      \* "ad:M:A:show.counter"
    clicks,     \* "ad:M:A:click.counter"
    show_rows,  \* fund_queue: rows that charge the owner for a show of A
    click_rows, \* fund_queue: rows that charge the owner for a click on A
    link,       \* the worker's connection to the memory database is up
    req,        \* the request a worker serves
    requests,   \* requests so far
    seen,       \* history: ads valid at some time since the request began
    lost_shows, \* history: shows of A whose increment the server refused
    lost_clicks \* history: the same of clicks

flags == <<valid, open>>
lost == <<lost_shows, lost_clicks>>
counters == <<shows, clicks, show_rows, click_rows, lost_shows, lost_clicks>>
vars == <<valid, open, shows, clicks, show_rows, click_rows, link, req, requests, seen,
          lost_shows, lost_clicks>>

AdsOf(g) == {a \in Ads : GroupOf[a] = g}

\* get_eCPM takes a weight that is 0 or absent as 1 (ad_map.cpp:201-207).
EffWeight(a) == IF Weight[a] = 0 THEN 1 ELSE Weight[a]

NoBest == [ad |-> NoAd, read |-> 0, weight |-> 1]
Best == [ad : Ads \cup {NoAd}, read : Nat, weight : Nat \ {0}]
\* A slot of the three parallel arrays of bidding; "read" is history, the show
\* counter get_eCPM has read for the ad.
Slot == [ad : Ads, ecpm : Nat, read : Nat]

PCs == {"idle", "groups", "scan", "show", "charge", "click", "click_charge"}
Req == [pc : PCs, n : 1..MaxN, groups : SUBSET Groups, group : Groups \cup {NoGroup},
        ads : SUBSET Ads, ad : Ads \cup {NoAd}, best : Best, slots : Seq(Slot)]

NoReq == [pc |-> "idle", n |-> 1, groups |-> {}, group |-> NoGroup, ads |-> {},
          ad |-> NoAd, best |-> NoBest, slots |-> <<>>]

Init ==
    /\ valid = [a \in Ads |-> TRUE]
    /\ open = [g \in Groups |-> TRUE]
    /\ shows = [a \in Ads |-> 0]
    /\ clicks = [a \in Ads |-> 0]
    /\ show_rows = [a \in Ads |-> 0]
    /\ click_rows = [a \in Ads |-> 0]
    /\ link = [p \in Procs |-> TRUE]
    /\ req = [p \in Procs |-> NoReq]
    /\ requests = 0
    /\ seen = [p \in Procs |-> {}]
    /\ lost_shows = [a \in Ads |-> 0]
    /\ lost_clicks = [a \in Ads |-> 0]

At(p, loc) == req[p].pc = loc

---------------------------------------------------------------------------
(* bidding.                                                                *)

\* ad_request: the groups of the space, those of the user's location only
\* when the user is known.  A worker whose connection is down finds none.
Request(p) ==
    /\ At(p, "idle")
    /\ requests < MaxRequests
    /\ requests' = requests + 1
    /\ \E n \in 1..MaxN, G \in SUBSET Groups :
          req' = [req EXCEPT ![p] = [NoReq EXCEPT !.pc = "groups", !.n = n,
                                         !.groups = IF link[p] THEN G ELSE {}]]
    /\ seen' = [seen EXCEPT ![p] = {a \in Ads : valid[a]}]
    /\ UNCHANGED <<flags, counters, link>>

\* The filters by market shop, time and label are a choice here, the group's
\* own flag is not.  The set of ads of the group is read at once.
FilterGroup(p) ==
    /\ At(p, "groups")
    /\ \E g \in req[p].groups :
          \/ req' = [req EXCEPT ![p] = [req[p] EXCEPT !.groups = @ \ {g}]]
          \/ /\ link[p] /\ open[g]
             /\ req' = [req EXCEPT ![p] =
                            [req[p] EXCEPT !.groups = @ \ {g}, !.pc = "scan", !.group = g,
                                      !.ads = AdsOf(g)]]
    /\ UNCHANGED <<flags, counters, link, requests, seen>>

\* Fault: the valid flag of the ad is not looked at.
CheckAdNot(p) ==
    /\ At(p, "scan") /\ req[p].ad = NoAd
    /\ \E a \in req[p].ads :
          req' = [req EXCEPT ![p] = [req[p] EXCEPT !.ads = @ \ {a}, !.ad = a]]
    /\ UNCHANGED <<flags, counters, link, requests, seen>>

\* check_ad_valid; without a connection the flag has its default, set.
CheckAd(p) ==
    /\ At(p, "scan") /\ req[p].ad = NoAd
    /\ \E a \in req[p].ads :
          req' = [req EXCEPT ![p] =
                     [req[p] EXCEPT !.ads = @ \ {a},
                               !.ad = IF link[p] => valid[a] THEN a ELSE NoAd]]
    /\ UNCHANGED <<flags, counters, link, requests, seen>>

\* Fault: the least counter wins, whatever the weights.
LighterUnweighted(c, b) == b.ad = NoAd \/ c.read < b.read

\* The counter, the weight and the comparison with the least show weight.
Lighter(c, b) == b.ad = NoAd \/ (c.read + 1) * b.weight < (b.read + 1) * c.weight

ReadAd(p) ==
    /\ At(p, "scan") /\ req[p].ad # NoAd
    /\ LET a == req[p].ad
           c == [ad |-> a, read |-> IF link[p] THEN shows[a] ELSE 0,
                 weight |-> IF link[p] THEN EffWeight(a) ELSE 1]
       IN req' = [req EXCEPT ![p] =
                     [req[p] EXCEPT !.ad = NoAd, !.best = IF Lighter(c, @) THEN c ELSE @]]
    /\ UNCHANGED <<flags, counters, link, requests, seen>>

\* Fault: the loop takes the new group for better on equal eCPM and does not
\* move the slots below it.
InsertOver(slots, s, n) ==
    IF s.ecpm = 0 THEN slots
    ELSE [j \in 1..(IF Len(slots) < n THEN Len(slots) + 1 ELSE n) |->
             IF j <= Len(slots) /\ slots[j].ecpm > s.ecpm THEN slots[j] ELSE s]

\* The insertion loop: after every slot with at least this eCPM, the last
\* slot dropping out of a full table.  A group of eCPM 0 gets no slot.
Insert(slots, s, n) ==
    IF s.ecpm = 0 THEN slots
    ELSE [j \in 1..(IF Len(slots) < n THEN Len(slots) + 1 ELSE n) |->
             IF j <= Len(slots) /\ slots[j].ecpm >= s.ecpm THEN slots[j]
             ELSE IF j = 1 \/ slots[j-1].ecpm >= s.ecpm THEN s
             ELSE slots[j-1]]

\* Fault: a group without a valid ad is ranked by its prices all the same.
RankEmptyGroup(p) ==
    /\ At(p, "scan") /\ req[p].ads = {} /\ req[p].ad = NoAd
    /\ \E e \in Ecpms :
          LET s == [ad |-> req[p].best.ad, ecpm |-> e, read |-> req[p].best.read]
          IN req' = [req EXCEPT ![p] =
                        [req[p] EXCEPT !.pc = "groups", !.group = NoGroup, !.best = NoBest,
                                  !.slots = Insert(@, s, req[p].n)]]
    /\ UNCHANGED <<flags, counters, link, requests, seen>>

\* Without a valid ad the eCPM is 0.
RankGroup(p) ==
    /\ At(p, "scan") /\ req[p].ads = {} /\ req[p].ad = NoAd
    /\ \E e \in Ecpms :
          LET s == [ad |-> req[p].best.ad, ecpm |-> e, read |-> req[p].best.read]
          IN req' = [req EXCEPT ![p] =
                        [req[p] EXCEPT !.pc = "groups", !.group = NoGroup, !.best = NoBest,
                                  !.slots = IF s.ad = NoAd THEN @ ELSE Insert(@, s, req[p].n)]]
    /\ UNCHANGED <<flags, counters, link, requests, seen>>

\* "no valid ad", or the slots are shown one after the other.
NextSlot(r) == IF r.slots = <<>> THEN NoReq ELSE [r EXCEPT !.pc = "show", !.ad = NoAd]

Answer(p) ==
    /\ At(p, "groups") /\ req[p].groups = {}
    /\ req' = [req EXCEPT ![p] = NextSlot(@)]
    /\ UNCHANGED <<flags, counters, link, requests, seen>>

\* incr for ad a by worker p: counted, refused by the server, or without a
\* connection not even sent.  Nobody looks at the result.
Incremented(counter, refused, p, a, counted) ==
    /\ counted => link[p]
    /\ link[p] /\ ~counted => refused[a] < MaxLost
    /\ counter' = [counter EXCEPT ![a] = IF counted THEN counter[a] + 1 ELSE counter[a]]
    /\ refused' = [refused EXCEPT ![a] =
                      IF link[p] /\ ~counted THEN refused[a] + 1 ELSE refused[a]]

\* increase_ad_time.
CountShow(p) ==
    /\ At(p, "show")
    /\ LET a == Head(req[p].slots).ad
       IN /\ \E counted \in BOOLEAN : Incremented(shows, lost_shows, p, a, counted)
          /\ req' = [req EXCEPT ![p] = [req[p] EXCEPT !.pc = "charge", !.ad = a, !.slots = Tail(@)]]
    /\ UNCHANGED <<flags, clicks, show_rows, click_rows, link, requests, seen, lost_clicks>>

\* Fault: a charge whose psql answers nothing is tried again.
ChargeShowAgain(p) ==
    /\ At(p, "charge")
    /\ \/ UNCHANGED show_rows
       \/ link[p] /\ show_rows' = [show_rows EXCEPT ![req[p].ad] = @ + 1]
    /\ req' = req \/ req' = [req EXCEPT ![p] = NextSlot(@)]
    /\ UNCHANGED <<flags, shows, clicks, click_rows, lost, link, requests, seen>>

\* Fault: the owner of the next slot's ad is charged.
ChargeShowNext(p) ==
    /\ At(p, "charge")
    /\ LET a == IF req[p].slots = <<>> THEN req[p].ad ELSE Head(req[p].slots).ad
       IN \/ UNCHANGED show_rows
          \/ link[p] /\ show_rows' = [show_rows EXCEPT ![a] = @ + 1]
    /\ req' = [req EXCEPT ![p] = NextSlot(@)]
    /\ UNCHANGED <<flags, shows, clicks, click_rows, lost, link, requests, seen>>

\* charge_ad: one row, unless psql fails, which nobody notices.  Without a
\* connection price and owner read as 0 and the row charges nobody.
ChargeShow(p) ==
    /\ At(p, "charge")
    /\ \/ UNCHANGED show_rows
       \/ link[p] /\ show_rows' = [show_rows EXCEPT ![req[p].ad] = @ + 1]
    /\ req' = [req EXCEPT ![p] = NextSlot(@)]
    /\ UNCHANGED <<flags, shows, clicks, click_rows, lost, link, requests, seen>>

---------------------------------------------------------------------------
(* ad_click.                                                               *)

\* An ad with a group; for any other one the answer is "no such ad".
Click(p) ==
    /\ At(p, "idle")
    /\ requests < MaxRequests
    /\ requests' = requests + 1
    /\ link[p]
    /\ \E a \in Ads : req' = [req EXCEPT ![p] = [NoReq EXCEPT !.pc = "click", !.ad = a]]
    /\ UNCHANGED <<flags, counters, link, seen>>

CountClick(p) ==
    /\ At(p, "click")
    /\ \E counted \in BOOLEAN : Incremented(clicks, lost_clicks, p, req[p].ad, counted)
    /\ req' = [req EXCEPT ![p] = [req[p] EXCEPT !.pc = "click_charge"]]
    /\ UNCHANGED <<flags, shows, show_rows, click_rows, link, requests, seen, lost_shows>>

ChargeClick(p) ==
    /\ At(p, "click_charge")
    /\ \/ UNCHANGED click_rows
       \/ link[p] /\ click_rows' = [click_rows EXCEPT ![req[p].ad] = @ + 1]
    /\ req' = [req EXCEPT ![p] = NoReq]
    /\ UNCHANGED <<flags, shows, clicks, show_rows, lost, link, requests, seen>>

---------------------------------------------------------------------------
(* The environment.                                                        *)

\* The web site that manages the campaigns sets and clears flags.
ToggleAd(a) ==
    /\ valid' = [valid EXCEPT ![a] = ~@]
    /\ seen' = [p \in Procs |-> IF valid[a] THEN seen[p] ELSE seen[p] \cup {a}]
    /\ UNCHANGED <<open, counters, link, req, requests>>

ToggleGroup(g) ==
    /\ open' = [open EXCEPT ![g] = ~@]
    /\ UNCHANGED <<valid, counters, link, req, requests, seen>>

\* hiredis never repairs a broken connection and neither does RedisDb: every
\* later command of this process fails, until it is restarted.
DropLink(p) ==
    /\ link[p]
    /\ link' = [link EXCEPT ![p] = FALSE]
    /\ UNCHANGED <<flags, counters, req, requests, seen>>

\* pkill and spawn-fcgi of restart_fastcgi.sh.
Restart(p) ==
    /\ req[p] # NoReq \/ ~link[p]
    /\ link' = [link EXCEPT ![p] = TRUE]
    /\ req' = [req EXCEPT ![p] = NoReq]
    /\ UNCHANGED <<flags, counters, requests, seen>>

---------------------------------------------------------------------------
Next ==
    \/ \E p \in Procs :
          \/ Request(p) \/ FilterGroup(p) \/ CheckAd(p) \/ ReadAd(p) \/ RankGroup(p)
          \/ Answer(p) \/ CountShow(p) \/ ChargeShow(p)
          \/ Click(p) \/ CountClick(p) \/ ChargeClick(p)
          \/ DropLink(p) \/ Restart(p)
    \/ \E a \in Fickle : ToggleAd(a)
    \/ \E g \in Groups : ToggleGroup(g)

Spec == Init /\ [][Next]_vars

---------------------------------------------------------------------------
\* Every variable has values of the kind the code stores in it.
TypeOK ==
    /\ valid \in [Ads -> BOOLEAN] /\ open \in [Groups -> BOOLEAN]
    /\ shows \in [Ads -> Nat] /\ clicks \in [Ads -> Nat]
    /\ show_rows \in [Ads -> Nat] /\ click_rows \in [Ads -> Nat]
    /\ link \in [Procs -> BOOLEAN]
    /\ req \in [Procs -> Req]
    /\ requests \in Nat
    /\ seen \in [Procs -> SUBSET Ads]
    /\ lost_shows \in [Ads -> Nat] /\ lost_clicks \in [Ads -> Nat]

\* No owner is charged for more shows or clicks than were counted, but for
\* those whose increment the server refused: they are charged uncounted, as
\* nobody looks at the result of incr.  A lost connection, a dead worker and a
\* psql that fails leave no charge without its count (ad_map.cpp:520-521,
\* 590-591).
ChargesCovered ==
    \A a \in Ads : /\ show_rows[a] <= shows[a] + lost_shows[a]
                  /\ click_rows[a] <= clicks[a] + lost_clicks[a]

\* Rotation by weight survives the unlocked reads of get_eCPM: an ad i of a
\* group is ahead of a steadily valid ad j of the same group by no more than
\* the algorithm allows one worker, plus one show for every other worker
\* (ad_map.cpp:222-227 against 520).
RotationFair ==
    \A i \in Ads, j \in Ads \ Fickle :
        GroupOf[i] = GroupOf[j] =>
            (shows[i] - (Cardinality(Procs) - 1)) * EffWeight(j)
                <= (shows[j] + 1) * EffWeight(i)

\* The parallel arrays of bidding stay in step: at most n slots, in the order
\* of eCPM, one for a group, with an ad of that group and none for a group
\* that is still to come (ad_map.cpp:485-509).
Ranked(r) ==
    /\ Len(r.slots) <= r.n
    /\ \A k \in DOMAIN r.slots : GroupOf[r.slots[k].ad] \notin r.groups \cup {r.group}
    /\ \A j, k \in DOMAIN r.slots : j < k =>
          /\ r.slots[j].ecpm >= r.slots[k].ecpm
          /\ GroupOf[r.slots[j].ad] # GroupOf[r.slots[k].ad]

SlotsRanked == \A p \in Procs : Ranked(req[p])

---------------------------------------------------------------------------
(* The inductive invariant behind the safety properties.                   *)

\* What a request knows at each point of its function.
Shaped(r) ==
    /\ r.pc = "scan" <=> r.group # NoGroup
    /\ r.group \notin r.groups
    /\ r.ads \subseteq AdsOf(r.group)
    /\ r.best.ad \in AdsOf(r.group) \cup {NoAd}
    /\ r.pc = "scan" => r.ad \in (AdsOf(r.group) \ r.ads) \cup {NoAd}
    /\ r.pc = "groups" => r.ad = NoAd
    /\ r.pc \in {"charge", "click", "click_charge"} => r.ad \in Ads
    /\ r.pc = "show" => r.slots # <<>>

ReqShape == \A p \in Procs : Shaped(req[p])

\* A show or click, counted or refused, whose charge is still to come.
Owing(loc, a) == {p \in Procs : link[p] /\ At(p, loc) /\ req[p].ad = a}

Covered ==
    \A a \in Ads :
        /\ show_rows[a] + Cardinality(Owing("charge", a)) <= shows[a] + lost_shows[a]
        /\ click_rows[a] + Cardinality(Owing("click_charge", a)) <= clicks[a] + lost_clicks[a]

\* When the counters are s, the choice c is no heavier than ad j.
NoHeavier(c, j, s) == (c.read + 1) * EffWeight(j) <= (s[j] + 1) * EffWeight(c.ad)

\* What a worker has chosen so far is no heavier than any steadily valid ad of
\* the group it has already compared.
Justified(r, s) ==
    /\ \A k \in DOMAIN r.slots : \A j \in Ads \ Fickle :
          GroupOf[j] = GroupOf[r.slots[k].ad] => NoHeavier(r.slots[k], j, s)
    /\ r.best.ad # NoAd => r.best.weight = EffWeight(r.best.ad)
    /\ \A j \in AdsOf(r.group) \ (Fickle \cup r.ads \cup {r.ad}) :
          r.best.ad # NoAd /\ NoHeavier(r.best, j, s)

SteadyValid == \A a \in Ads \ Fickle : valid[a]
ChoicesJustified == \A p \in Procs : link[p] => Justified(req[p], shows)

\* Workers that will show ad i because they read its counter below v.
Holds(r, i, v) ==
    \/ r.best.ad = i /\ r.best.read < v
    \/ \E k \in DOMAIN r.slots : r.slots[k].ad = i /\ r.slots[k].read < v
Holders(i, v) == {p \in Procs : link[p] /\ Holds(req[p], i, v)}

\* Once the counter of i has reached a value v at which i is heavier than j,
\* only those who read it earlier can still increment it.
HoldersBounded ==
    \A i \in Ads, j \in Ads \ Fickle : \A v \in 0..shows[i] :
        GroupOf[i] = GroupOf[j] /\ (v + 1) * EffWeight(j) > (shows[j] + 1) * EffWeight(i) =>
            shows[i] + Cardinality(Holders(i, v)) < v + Cardinality(Procs)

IInv == /\ TypeOK /\ ReqShape /\ SlotsRanked /\ Covered
        /\ SteadyValid /\ ChoicesJustified /\ HoldersBounded

---------------------------------------------------------------------------
\* Only an ad that was valid at some time since the request began is counted
\* or charged for it, although a worker that loses its connection takes every
\* flag for set (ad_map.cpp:150-161, default 1).
ShownWasValid ==
    [][\A p \in Procs : \A a \in Ads :
          At(p, "show") /\ req'[p].pc = "charge" /\ shows'[a] > shows[a] => a \in seen[p]]_vars

---------------------------------------------------------------------------
\* Through a connection that is up, a worker between a counter and its charge
\* owes that charge (ad_map.cpp:520-521, 590-591); the counters, the rows and
\* what was refused are those of AdLedger.
DebtOf(p) ==
    IF link[p] /\ req[p].pc \in {"charge", "click_charge"}
    THEN [kind |-> IF At(p, "charge") THEN "show" ELSE "click", ad |-> req[p].ad]
    ELSE [kind |-> "none", ad |-> NoAd]

Ledger == INSTANCE AdLedger WITH Workers <- Procs, debt <- [p \in Procs |-> DebtOf(p)]

\* Whatever drops, dies or fails, every show or click is charged at most once,
\* for its own ad and by the worker that counted it or had its increment
\* refused: AdServing implements AdLedger.
KeepsLedger == Ledger!LedgerSpec
=============================================================================
