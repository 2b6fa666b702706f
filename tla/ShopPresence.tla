--------------------------- MODULE ShopPresence ---------------------------
(***************************************************************************)
(* Who is in which shop, for how long and since when:                      *)
(* parse_apmac_closer_msg of ap_signal_receiver.cpp and the functions of   *)
(* user_map.cpp it calls.  There is one receiver, with one thread; a       *)
(* signal names the phones close to an access point of a shop.  A step is  *)
(* one command to the memory database, Redis or Tair; a command fails with *)
(* the connection, for good, or is refused alone, and nobody looks at what *)
(* it returns.                                                             *)
(*                                                                         *)
(* str_to_uint64 leaves the bytes above the six of a phone's mac to chance *)
(* (user_map.h:59-61), so the number that stands for the phone in every    *)
(* key may be another one each time: Numbers are what the database knows,  *)
(* Macs are the phones.                                                    *)
(***************************************************************************)
EXTENDS Integers, FiniteSets, FiniteSetsExt

CONSTANTS
    Shops,      \* shops with an access point
    Macs,       \* phones, each the number with no bytes above its mac
    Ghosts,     \* Ghosts[m]: the other numbers str_to_uint64 may make of m
    Ids,        \* user ids, without the 0 of a failed user_get_id
    User,       \* User[n]: the id IdentityRegistry has for the number n
    Epoch,      \* time(0) at the beginning
    Horizon,    \* bound on the clock
    MaxSignals, \* bound on the number of signals
    MaxRefused, \* bound on the commands refused over a connection that is up
    Cap,        \* max_duration_gap of config.ini, 120
    Gap,        \* max_in_shop_gap of config.ini, 240
    HalfHour,   \* half an hour
    NoShop, NoMac

Numbers == Macs \cup UNION {Ghosts[m] : m \in Macs}

\* The six bytes below are another phone's.
ASSUME GhostsApart == \A m, n \in Macs : m \notin Ghosts[n]
ASSUME IdsPositive == Ids \subseteq Nat \ {0}
ASSUME UserType == User \in [Numbers -> Ids]
\* add_user gives two numbers two ids: IdentityRegistry.
ASSUME UserInjective == \A m, n \in Numbers : User[m] = User[n] => m = n
ASSUME TimesType == {Epoch, Horizon, MaxSignals, MaxRefused, Cap, Gap, HalfHour} \subseteq Nat
\* The seconds since 1970 are more than any gap.
ASSUME EpochLate == Epoch > Cap /\ Epoch > Gap
ASSUME SetsFinite == IsFiniteSet(Shops) /\ IsFiniteSet(Ids)
ASSUME NothingType == NoShop \notin Shops /\ NoMac \notin Numbers

VARIABLES
    clock,      \* time(0)
    seen,       \* "location:M:S:mac:time", 0: absent
    listed,     \* score of mac in "location.update.time:D:M:S", 0: absent
    user_stay,  \* "user:D:M:S:I:duration", summed over the days
    shop_stay,  \* "shop:D:M:S:users.duration"
    mall_stay,  \* "mall:D:M:users.duration"
    arrived,    \* score of I in "user:M:S:arrive.time", 0: absent
    vip_arrived,\* score of I in "user.vip:M:S:arrive.time"
    shop_of,    \* "user:D:I:location.shop_id"
    link,       \* the receiver's connection to the memory database is up
    job,        \* the signal it works on
    signals,    \* signals so far
    refused,    \* commands refused so far
    first,      \* history: the first time seen has been set to
    slips,      \* history: readings and writings of seen that were refused
    last,       \* history: the last signal of a phone from a shop
    since,      \* history: when the present visit, or the last one, began
    latest,     \* history: the shop of the phone's last signal
    cut,        \* history: a step of the phone's visit was not done, or not
                \* for its mac, so that the visit need not be known
    lost_user,  \* history: stays that were refused for a user of the shop
    lost_shop   \* history: stays that were refused for a shop

places == <<seen, listed, first, slips>>
visits == <<last, since, latest, cut>>
stays == <<user_stay, shop_stay, mall_stay, lost_user, lost_shop>>
arrivals == <<arrived, vip_arrived>>
env == <<clock, link, signals>>
vars == <<places, visits, stays, arrivals, shop_of, env, refused, job>>

Users == Ids \cup {0}
PCs == {"idle", "next", "read", "set", "list", "user", "shop", "mall", "arrive", "set_shop"}

Job == [pc : PCs, shop : Shops \cup {NoShop}, now : Nat, todo : SUBSET Macs,
        phone : Macs \cup {NoMac}, mac : Numbers \cup {NoMac}, vip : BOOLEAN, user : Users,
        pre : Nat]
NoJob == [pc |-> "idle", shop |-> NoShop, now |-> 0, todo |-> {},
          phone |-> NoMac, mac |-> NoMac, vip |-> FALSE, user |-> 0, pre |-> 0]

Init ==
    /\ clock = Epoch
    /\ seen = [x \in Shops \X Numbers |-> 0] /\ listed = [x \in Shops \X Numbers |-> 0]
    /\ user_stay = [x \in Shops \X Users |-> 0]
    /\ shop_stay = [s \in Shops |-> 0] /\ mall_stay = 0
    /\ arrived = [x \in Shops \X Users |-> 0] /\ vip_arrived = [x \in Shops \X Users |-> 0]
    /\ shop_of = [i \in Users |-> NoShop]
    /\ link = TRUE /\ job = NoJob /\ signals = 0 /\ refused = 0
    /\ first = [x \in Shops \X Numbers |-> 0] /\ slips = [x \in Shops \X Numbers |-> 0]
    /\ last = [x \in Shops \X Macs |-> 0] /\ since = [x \in Shops \X Macs |-> 0]
    /\ latest = [m \in Macs |-> NoShop]
    /\ cut = [x \in Shops \X Macs |-> FALSE]
    /\ lost_user = [s \in Shops |-> 0] /\ lost_shop = 0

At(loc) == job.pc = loc
Goto(loc) == job' = [job EXCEPT !.pc = loc]

\* A command is done or not: without a connection it is not sent, and over
\* one that is up the server may refuse it alone.
Refusal(done) == link /\ ~done
Sent(done) ==
    /\ done => link
    /\ Refusal(done) => refused < MaxRefused
    /\ refused' = IF Refusal(done) THEN refused + 1 ELSE refused
Put(f, k, v, done) == IF done THEN [f EXCEPT ![k] = v] ELSE f

Here == <<job.shop, job.mac>>       \* the keys of the number
Him == <<job.shop, job.user>>       \* the keys of the user
There == <<job.shop, job.phone>>    \* the visit of the phone, in history

Min2(a, b) == IF a <= b THEN a ELSE b

\* Fault: the operands are exchanged.
IntervalReversed == Min2(job.pre - job.now, Cap)
Interval == Min2(job.now - job.pre, Cap)

---------------------------------------------------------------------------
(* The signal.  The time is taken once for all its phones.                 *)

\* A signal of an access point that is in no shop changes nothing.
ParseApmacCloser(s, M) ==
    /\ At("idle")
    /\ signals < MaxSignals
    /\ signals' = signals + 1
    /\ job' = [NoJob EXCEPT !.pc = "next", !.shop = s, !.now = clock, !.todo = M]
    /\ UNCHANGED <<places, visits, stays, arrivals, shop_of, clock, link, refused>>

\* str_to_uint64 makes a number of the phone's mac, or of what lies above it;
\* mac_is_vip reads the mac itself and is false when PostgreSQL fails, and
\* user_get_id of the number is then 0.
NextMac ==
    /\ At("next")
    /\ \E m \in job.todo, v \in BOOLEAN : \E n \in {m} \cup Ghosts[m] : \E i \in {0, User[n]} :
          job' = [job EXCEPT !.pc = "read", !.todo = @ \ {m}, !.phone = m, !.mac = n,
                             !.vip = v, !.user = i]
    /\ UNCHANGED <<places, visits, stays, arrivals, shop_of, env, refused>>

EndSignal ==
    /\ At("next") /\ job.todo = {}
    /\ job' = NoJob
    /\ UNCHANGED <<places, visits, stays, arrivals, shop_of, env, refused>>

---------------------------------------------------------------------------
(* One phone.                                                              *)

\* get_user_location_time, 0 when it fails.
ReadSeen ==
    /\ At("read")
    /\ \E done \in BOOLEAN :
          /\ Sent(done)
          /\ job' = [job EXCEPT !.pc = "set", !.pre = IF done THEN seen[Here] ELSE 0]
          /\ slips' = Put(slips, Here, slips[Here] + 1, Refusal(done))
    /\ UNCHANGED <<seen, listed, first, visits, stays, arrivals, shop_of, env>>

\* A signal that comes over the connection continues the phone's visit or
\* begins another one.  The visit is cut when the signal is filed under another
\* number or no user, or when its time is not written; and while it goes on,
\* when the time of the signal before was not read.
NoteVisit(done) ==
    LET new == job.now - last[There] > Gap
        misfiled == job.mac # job.phone \/ job.user = 0
    IN /\ last' = Put(last, There, job.now, link)
       /\ since' = Put(since, There, job.now, link /\ new)
       /\ latest' = Put(latest, job.phone, job.shop, link)
       /\ cut' = Put(cut, There, \/ misfiled \/ ~done
                                 \/ ~new /\ (cut[There] \/ job.pre # seen[Here]), link)

\* update_user_location_time: the time, which the next reading will find.
SetSeen ==
    /\ At("set")
    /\ \E done \in BOOLEAN :
          /\ Sent(done)
          /\ seen' = Put(seen, Here, job.now, done)
          /\ first' = Put(first, Here, job.now, done /\ first[Here] = 0)
          /\ slips' = Put(slips, Here, slips[Here] + 1, Refusal(done))
          /\ NoteVisit(done)
    /\ Goto("list")
    /\ UNCHANGED <<listed, stays, arrivals, shop_of, env>>

\* And the list of the shop's phones.
SetListed ==
    /\ At("list")
    /\ \E done \in BOOLEAN : Sent(done) /\ listed' = Put(listed, Here, job.now, done)
    /\ Goto("user")
    /\ UNCHANGED <<seen, first, slips, visits, stays, arrivals, shop_of, env>>

\* Fault: the gap is not capped for the user, only for the totals.
AddUserStayUncapped ==
    /\ At("user")
    /\ \E done \in BOOLEAN :
          /\ Sent(done)
          /\ user_stay' = Put(user_stay, Him, user_stay[Him] + job.now - job.pre, done)
          /\ lost_user' = Put(lost_user, job.shop, lost_user[job.shop] + Interval, Refusal(done))
    /\ Goto("shop")
    /\ UNCHANGED <<places, visits, shop_stay, mall_stay, lost_shop, arrivals, shop_of, env>>

\* shop_user_duration_add.
AddUserStay ==
    /\ At("user")
    /\ \E done \in BOOLEAN :
          /\ Sent(done)
          /\ user_stay' = Put(user_stay, Him, user_stay[Him] + Interval, done)
          /\ lost_user' = Put(lost_user, job.shop, lost_user[job.shop] + Interval, Refusal(done))
    /\ Goto("shop")
    /\ UNCHANGED <<places, visits, shop_stay, mall_stay, lost_shop, arrivals, shop_of, env>>

\* shop_all_users_duration_add, whatever became of the user's stay.
AddShopStay ==
    /\ At("shop")
    /\ \E done \in BOOLEAN :
          /\ Sent(done)
          /\ shop_stay' = Put(shop_stay, job.shop, shop_stay[job.shop] + Interval, done)
          /\ lost_shop' = IF Refusal(done) THEN lost_shop + Interval ELSE lost_shop
    /\ Goto("mall")
    /\ UNCHANGED <<places, visits, user_stay, mall_stay, lost_user, arrivals, shop_of, env>>

\* Fault: the total is sent again when it is not answered.
AddMallStayAgain ==
    /\ At("mall")
    /\ \E done \in BOOLEAN :
          Sent(done) /\ mall_stay' = IF done THEN mall_stay + Interval ELSE mall_stay
    /\ Goto("arrive") \/ UNCHANGED job
    /\ UNCHANGED <<places, visits, user_stay, shop_stay, lost_user, lost_shop, arrivals, shop_of,
                   env>>

\* mall_all_users_duration_add.
AddMallStay ==
    /\ At("mall")
    /\ \E done \in BOOLEAN :
          Sent(done) /\ mall_stay' = IF done THEN mall_stay + Interval ELSE mall_stay
    /\ Goto("arrive")
    /\ UNCHANGED <<places, visits, user_stay, shop_stay, lost_user, lost_shop, arrivals, shop_of,
                   env>>

\* Fault: an absence of just the Gap counts.
OutAtGap == job.now - job.pre >= Gap
Out == job.now - job.pre > Gap

\* The visit in work is cut from here on.
CutHere(here) == cut' = Put(cut, There, TRUE, here)

\* update_user_arrive_time.
Arrive ==
    /\ At("arrive")
    /\ \/ /\ Out
          /\ \E done \in BOOLEAN :
                /\ Sent(done)
                /\ vip_arrived' = Put(vip_arrived, Him, job.now, done /\ job.vip)
                /\ arrived' = Put(arrived, Him, job.now, done /\ ~job.vip)
                /\ CutHere(Refusal(done))
       \/ ~Out /\ UNCHANGED <<arrivals, cut, refused>>
    /\ Goto("set_shop")
    /\ UNCHANGED <<places, last, since, latest, stays, shop_of, env>>

\* update_shopid_of_user_location.
SetShop ==
    /\ At("set_shop")
    /\ \E done \in BOOLEAN :
          /\ Sent(done)
          /\ shop_of' = Put(shop_of, job.user, job.shop, done)
          /\ CutHere(Refusal(done))
    /\ job' = [NoJob EXCEPT !.pc = "next", !.shop = job.shop, !.now = job.now, !.todo = job.todo]
    /\ UNCHANGED <<places, last, since, latest, stays, arrivals, env>>

---------------------------------------------------------------------------
(* The environment.                                                        *)

Tick ==
    /\ clock < Horizon
    /\ clock' = clock + 1
    /\ UNCHANGED <<places, visits, stays, arrivals, shop_of, link, signals, refused, job>>

\* The phone in work has had its signal noted.
Begun == job.pc \in {"list", "user", "shop", "mall", "arrive", "set_shop"}

\* A broken connection is never opened again.
DropLink ==
    /\ link
    /\ link' = FALSE
    /\ CutHere(Begun)
    /\ UNCHANGED <<places, last, since, latest, stays, arrivals, shop_of, clock, signals,
                   refused, job>>

\* kill -9 of restart_receiver.sh.
Restart ==
    /\ job # NoJob \/ ~link
    /\ link' = TRUE
    /\ job' = NoJob
    /\ CutHere(Begun /\ link)
    /\ UNCHANGED <<places, last, since, latest, stays, arrivals, shop_of, clock, signals, refused>>

---------------------------------------------------------------------------
Next ==
    \/ \E s \in Shops, M \in SUBSET Macs : ParseApmacCloser(s, M)
    \/ NextMac \/ EndSignal
    \/ ReadSeen \/ SetSeen \/ SetListed
    \/ AddUserStay \/ AddShopStay \/ AddMallStay \/ Arrive \/ SetShop
    \/ Tick \/ DropLink \/ Restart

Spec == Init /\ [][Next]_vars

---------------------------------------------------------------------------
\* Every variable has values of the kind the code stores in it.
TypeOK ==
    /\ clock \in Nat /\ signals \in 0..MaxSignals /\ link \in BOOLEAN
    /\ refused \in 0..MaxRefused
    /\ seen \in [Shops \X Numbers -> Nat] /\ listed \in [Shops \X Numbers -> Nat]
    /\ first \in [Shops \X Numbers -> Nat] /\ slips \in [Shops \X Numbers -> Nat]
    /\ last \in [Shops \X Macs -> Nat] /\ since \in [Shops \X Macs -> Nat]
    /\ user_stay \in [Shops \X Users -> Nat]
    /\ arrived \in [Shops \X Users -> Nat] /\ vip_arrived \in [Shops \X Users -> Nat]
    /\ shop_stay \in [Shops -> Nat] /\ mall_stay \in Nat
    /\ lost_user \in [Shops -> Nat] /\ lost_shop \in Nat
    /\ shop_of \in [Users -> Shops \cup {NoShop}] /\ latest \in [Macs -> Shops \cup {NoShop}]
    /\ cut \in [Shops \X Macs -> BOOLEAN]
    /\ job \in Job

Bound(x) == (IF first[x] = 0 THEN 0 ELSE Cap + seen[x] - first[x]) + Cap * slips[x]

\* A user's stay in a shop is never more than the time between his first and
\* his latest signal there plus the Cap the first one is worth, wherever the
\* receiver dies: the time is written before the stay is counted.  A time that
\* is refused, to be read or to be written, is worth another Cap
\* (ap_signal_receiver.cpp:78-80, user_map.cpp:890-902).
StayNotTwice ==
    \A s \in Shops, n \in Numbers : user_stay[<<s, User[n]>>] <= Bound(<<s, n>>)

UsersTotal(stay, s) == MapThenSumSet(LAMBDA i : stay[<<s, i>>], Users)
ShopsTotal(stay) == MapThenSumSet(LAMBDA s : stay[s], Shops)

\* The total of a shop is ahead of its users' by no more than the stays that
\* were refused for a user, and that of the mall ahead of its shops' by no more
\* than those refused for a shop; a death or a lost connection between the
\* three increments puts neither ahead (user_map.cpp:870-902).
TotalsOrdered ==
    /\ \A s \in Shops : shop_stay[s] <= UsersTotal(user_stay, s) + lost_user[s]
    /\ mall_stay <= ShopsTotal(shop_stay) + lost_shop

\* Unless a step of the visit was refused, misfiled or never made, the shop
\* knows when the present visit of a phone began, and the user's shop is the
\* one that saw him last (ap_signal_receiver.cpp:78-84, user_map.cpp:734-759,
\* 937-944).
VisitKnown ==
    \A s \in Shops, m \in Macs : LET x == <<s, m>>  u == <<s, User[m]>> IN
        last[x] # 0 /\ ~cut[x] /\ job.phone # m =>
            /\ since[x] \in {arrived[u], vip_arrived[u]}
            /\ since[x] >= arrived[u] /\ since[x] >= vip_arrived[u]
            /\ latest[m] = s => shop_of[User[m]] = s

---------------------------------------------------------------------------
(* The inductive invariants behind StayNotTwice and TotalsOrdered; that of *)
(* VisitKnown is in ShopPresenceProofs.                                    *)

\* What a signal knows at each point of the function.
SignalSound ==
    /\ job.pc # "idle" => job.shop \in Shops /\ Epoch <= job.now /\ job.now <= clock
    /\ job.pc \notin {"idle", "next"} =>
          /\ job.phone \in Macs /\ job.mac \in {job.phone} \cup Ghosts[job.phone]
          /\ job.user \in {0, User[job.mac]}
    /\ job.pre <= job.now

\* No number was seen after the signal in work, nor before it was first seen.
SeenSound ==
    /\ Epoch <= clock
    /\ \A x \in Shops \X Numbers :
          /\ seen[x] <= IF At("idle") THEN clock ELSE job.now
          /\ first[x] <= seen[x]
          /\ first[x] = 0 <=> seen[x] = 0

\* The time of a number is written before its stay is counted, so that there
\* is room for what is still to be counted.
RoomForStay ==
    link /\ job.user = User[job.mac] =>
        /\ At("set") => job.pre = seen[Here] \/ user_stay[Him] + Cap <= Bound(Here)
        /\ job.pc \in {"list", "user"} => user_stay[Him] + Interval <= Bound(Here)

IInv == TypeOK /\ SignalSound /\ SeenSound /\ RoomForStay /\ StayNotTwice

\* A stay is counted for the user first and for the mall last, so that there
\* is room for what a total has still to be counted.
RoomForTotals ==
    link =>
        /\ At("shop") => shop_stay[job.shop] + Interval
                            <= UsersTotal(user_stay, job.shop) + lost_user[job.shop]
        /\ At("mall") => mall_stay + Interval <= ShopsTotal(shop_stay) + lost_shop

TotalsSound == TotalsOrdered /\ RoomForTotals

---------------------------------------------------------------------------
\* "update user's arrive time with current time if iterval is bigger than half
\* an hour" (user_map.h:81-82).
ArrivalAfterHalfHour ==
    [][At("arrive") /\ arrivals' # arrivals => job.now - job.pre > HalfHour]_vars
=============================================================================
