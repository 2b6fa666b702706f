--------------------------- MODULE AdSelection ---------------------------
(***************************************************************************)
(* Which advertising groups an ad_op worker puts up for a request: the     *)
(* first half of ad_request and bidding (ad_map.cpp) over the memory       *)
(* database of MemoryDb, whose data other programs change meanwhile.       *)
(*                                                                         *)
(* The worker reads the position of the device (user_query), the groups of *)
(* the ad space and of the user's location, intersects the two lists, and  *)
(* takes each group through its filters: shops, valid flag, market window, *)
(* cron times, target labels, price.  Every read is a command of its own,  *)
(* over one of two connections: that of user_map (position, shop of the    *)
(* user) and that of ad_map (everything else).  A read fails with its      *)
(* connection or alone, the server refusing it; either way it is           *)
(* indistinguishable from one that finds nothing, and nothing is what a    *)
(* group without that restriction has.                                     *)
(*                                                                         *)
(* A group is put up here when it gets as far as its price: AdServing      *)
(* models the rest of a request, get_eCPM with check_ad_valid ad by ad,    *)
(* the slots, counters and charges, and there the filters are a choice.    *)
(***************************************************************************)
EXTENDS MemoryDb

CONSTANTS
    Groups,     \* ids of the advertising groups of the mall
    Slice,      \* slice_x and slice_y, the side of a location cell: what the
                \* worker read at its start, or 10 (ad_map.cpp:112-120)
    Now,        \* time(0)
    NonNumbers, \* words stoll rejects
    CronOf,     \* the cron_timing a word of a cron set stands for
    MaxRefused  \* bound on the reads of one request that are refused alone

Axes == {"x", "y", "z"}
PosKey(a) == <<"location", a>>
UserShopKey == <<"location.shop_id", 0>>
LabelsKey == <<"label.set", 0>>
SpaceKey == <<"ad.space", 0>>
\* int(x / slice): towards zero.
Cell(x) == IF x >= 0 THEN x \div Slice ELSE -((-x) \div Slice)
CellOf(pos) == <<Cell(pos["x"]), Cell(pos["y"]), pos["z"]>>
CellKey(pos) == <<"ad.location", CellOf(pos)>>
ShopsKey(g) == <<"market.shop.set", g>>
ValidKey(g) == <<"valid", g>>
StartKey(g) == <<"market.start", g>>
EndKey(g) == <<"market.end", g>>
CronKey(g) == <<"cron.time.set", g>>
TargetKey(g) == <<"target.label.set", g>>
AdsKey(g) == <<"ad.set", g>>
PriceKey(g) == <<"price", g>>   \* show.price and click.price, read as one

\* The keys read over the connection of user_map.
UserKeys == {PosKey(a) : a \in Axes} \cup {UserShopKey}

\* cron_timing, field by field; the three flags are one int.
CronFields == {"minute", "hour", "dom", "month", "dow", "year",
               "dom_star", "dow_star", "year_star"}
CronPlace == [f \in CronFields |-> CASE f = "minute" -> 1 [] f = "hour" -> 2 [] f = "dom" -> 3
                 [] f = "month" -> 4 [] f = "dow" -> 5 [] f = "year" -> 6 [] OTHER -> 7]

ASSUME GroupsType == Groups \subseteq Words \cap (Nat \ {0})
ASSUME SliceType == Slice \in Nat \ {0}
ASSUME NowType == Now \in Int
ASSUME RefusedType == MaxRefused \in Nat
ASSUME ConnsAre == {"ad", "user", "tool"} \subseteq Conns
\* "set" tells whether the field's bit of this minute is set, "kept" how many
\* of the fields come before the first zero byte or blank.  The year always
\* holds a zero byte.
ASSUME CronType ==
    CronOf \in [Words -> [kept : 0..5, set : [CronFields -> BOOLEAN]]]
ASSUME KeysNamed ==
    /\ \A a \in Axes : PosKey(a) \in StrKeys
    /\ UserShopKey \in StrKeys /\ LabelsKey \in HashKeys /\ SpaceKey \in ZsetKeys
    /\ \A g \in Groups :
          /\ {ValidKey(g), StartKey(g), EndKey(g), PriceKey(g)} \subseteq StrKeys
          /\ {ShopsKey(g), CronKey(g), TargetKey(g), AdsKey(g)} \subseteq SetKeys
\* The labels alone are written as strings and read as numbers (user_map.cpp:500,
\* ad_map.cpp:436).
ASSUME KeysTyped == StrKeys \cup SetKeys \cup ZsetKeys \subseteq Typed
\* The sorted sets hold ids of groups.
ASSUME GroupsListed ==
    /\ \A d \in InitialData : \A k \in ZsetKeys : \A e \in d[k] : e.member[1] \in Groups
    /\ \A w \in Commands : w.op = "zadd" => w.value[1] \in Groups

VARIABLES
    bid,        \* the request the worker serves: the locals of bidding
    edited,     \* history: keys written since the request began
    missed,     \* history: keys the request failed to read
    refused     \* history: those whose read failed alone

vars == <<mdbVars, bid, edited, missed, refused>>

PCs == {"idle", "x", "y", "z", "space", "location", "merge", "labels", "group", "usershop",
        "valid", "start", "end", "cron", "target", "ads", "price", "done"}

NoBid == [pc |-> "idle", known |-> FALSE, pos |-> [a \in Axes |-> 0], space |-> <<>>,
          location |-> <<>>, list |-> <<>>, labels |-> {}, group |-> 0, shops |-> {},
          reverse |-> FALSE, start |-> Absent, offered |-> {}]

At(loc) == bid.pc = loc
Skip == [bid EXCEPT !.pc = "group", !.group = 0, !.shops = {}, !.start = Absent]
Pass(loc) == [bid EXCEPT !.pc = loc]
Filter(holds, loc) == IF holds THEN Pass(loc) ELSE Skip

\* A read of key k on connection c is answered (ok), fails with the
\* connection, or is refused alone.
Read(c, k, ok) ==
    /\ missed' = IF ok THEN missed ELSE missed \cup {k}
    /\ \/ ok /\ link[c] /\ UNCHANGED <<link, refused>>
       \/ /\ ~ok /\ (backend = "REDIS" \/ ~link[c])
          /\ link' = Dropped(c)
          /\ UNCHANGED refused
       \/ /\ ~ok /\ link[c] /\ Cardinality(refused) < MaxRefused
          /\ refused' = refused \cup {k}
          /\ UNCHANGED link
    /\ UNCHANGED <<backend, whole, data, writes, edited>>

Value(k, default, ok) == IF ok THEN Get(backend, data, k, default) ELSE default
Members(k, ok) == IF ok THEN Smembers(backend, data, k) ELSE {}
Lists(k, ok) == Listings(IF ok THEN Zmembers(backend, data, k, whole) ELSE {})
Ids(listing) == [i \in DOMAIN listing |-> listing[i].member[1]]

---------------------------------------------------------------------------
(* The worker.                                                             *)

\* ad_op takes a request whose user is known or not (user_get_id failed, or
\* no mac was given).
Request ==
    /\ bid.pc \in {"idle", "done"}
    /\ \E known \in BOOLEAN : bid' = [NoBid EXCEPT !.pc = "x", !.known = known]
    /\ edited' = {} /\ missed' = {} /\ refused' = {}
    /\ UNCHANGED mdbVars

AfterAxis(a) == CASE a = "x" -> "y" [] a = "y" -> "z" [] a = "z" -> "space"

\* user_query: three reads, 0 by default.
ReadPosition ==
    \E a \in Axes, ok \in BOOLEAN :
        /\ At(a)
        /\ Read("user", PosKey(a), ok)
        /\ bid' = [bid EXCEPT !.pc = AfterAxis(a),
                              !.pos = [bid.pos EXCEPT ![a] = Value(PosKey(a), <<0>>, ok)[1]]]

\* get_ad_group_set_of_space.
ReadSpace ==
    /\ At("space")
    /\ \E ok \in BOOLEAN : \E s \in Lists(SpaceKey, ok) :
          /\ Read("ad", SpaceKey, ok)
          /\ bid' = IF bid.known THEN [bid EXCEPT !.pc = "location", !.space = Ids(s)]
                    ELSE [bid EXCEPT !.pc = "group", !.list = Ids(s)]

\* get_ad_group_set_of_location.
ReadLocation ==
    /\ At("location")
    /\ \E ok \in BOOLEAN : \E s \in Lists(CellKey(bid.pos), ok) :
          /\ Read("ad", CellKey(bid.pos), ok)
          /\ bid' = [bid EXCEPT !.pc = "merge", !.location = Ids(s)]

\* Fault: where the heads differ, both are dropped.
MergedBoth(s, l, out) ==
    [s |-> Tail(s), l |-> Tail(l), out |-> IF Head(s) = Head(l) THEN Append(out, Head(s)) ELSE out]

\* A round of set_intersection: the lesser head is dropped, equal heads are kept.
Merged(s, l, out) ==
    IF Head(s) < Head(l) THEN [s |-> Tail(s), l |-> l, out |-> out]
    ELSE IF Head(l) < Head(s) THEN [s |-> s, l |-> Tail(l), out |-> out]
    ELSE [s |-> Tail(s), l |-> Tail(l), out |-> Append(out, Head(s))]

Merge ==
    /\ At("merge")
    /\ bid' = IF bid.space = <<>> \/ bid.location = <<>>
              THEN [bid EXCEPT !.pc = "labels", !.space = <<>>, !.location = <<>>]
              ELSE LET m == Merged(bid.space, bid.location, bid.list)
                   IN [bid EXCEPT !.space = m.s, !.location = m.l, !.list = m.out]
    /\ UNCHANGED <<mdbVars, edited, missed, refused>>

\* hgetall of the user's labels; only the names are used.
ReadLabels ==
    /\ At("labels")
    /\ \E ok \in BOOLEAN :
          /\ Read("ad", LabelsKey, ok)
          /\ bid' = [bid EXCEPT !.pc = "group",
                        !.labels = IF ok THEN {e.field : e \in Hget(backend, data, LabelsKey)}
                                   ELSE {}]

\* check_market_shop.  The first member the server lists decides what the set
\* means: shops to be in, or, negative, shops to be away from.
ReadShops ==
    /\ At("group") /\ bid.list # <<>>
    /\ \E ok \in BOOLEAN :
          LET g == Head(bid.list)
              shops == {v[1] : v \in Members(ShopsKey(g), ok)}
              next == [bid EXCEPT !.list = Tail(bid.list), !.group = g, !.shops = shops]
          IN /\ Read("ad", ShopsKey(g), ok)
             /\ IF shops = {} THEN bid' = [next EXCEPT !.pc = "valid"]
                ELSE \E first \in shops :
                        bid' = CASE bid.known -> [next EXCEPT !.pc = "usershop",
                                                              !.reverse = first < 0]
                                 [] ~bid.known /\ first < 0 -> [next EXCEPT !.pc = "valid"]
                                 [] OTHER -> [next EXCEPT !.group = 0, !.shops = {}]

ShopFits(shop, shops, reverse) ==
    IF reverse THEN ~(shop > 0 /\ -shop \in shops) ELSE shop > 0 /\ shop \in shops

\* get_shopid_of_user_location; the day's key does not change in the model.
ReadUserShop ==
    /\ At("usershop")
    /\ \E ok \in BOOLEAN :
          /\ Read("user", UserShopKey, ok)
          /\ bid' = Filter(ShopFits(Value(UserShopKey, <<0>>, ok)[1], bid.shops, bid.reverse),
                           "valid")

ReadValid ==
    /\ At("valid")
    /\ \E ok \in BOOLEAN :
          /\ Read("ad", ValidKey(bid.group), ok)
          /\ bid' = Filter(Value(ValidKey(bid.group), <<1>>, ok)[1] # 0, "start")

\* check_time_range: two reads; a bound that is missing or no number lifts
\* both.
ReadStart ==
    /\ At("start")
    /\ \E ok \in BOOLEAN :
          /\ Read("ad", StartKey(bid.group), ok)
          /\ bid' = [bid EXCEPT !.pc = "end", !.start = Value(StartKey(bid.group), Absent, ok)]

IsNumber(v) == v # Absent /\ v[1] \notin NonNumbers
InWindow(start, end) ==
    IsNumber(start) /\ IsNumber(end) => start[1] <= Now /\ Now <= end[1]

ReadEnd ==
    /\ At("end")
    /\ \E ok \in BOOLEAN :
          /\ Read("ad", EndKey(bid.group), ok)
          /\ bid' = Filter(InWindow(bid.start, Value(EndKey(bid.group), Absent, ok)), "cron")

\* A stored cron_timing comes back as a string cut at the first zero byte or
\* blank: what the cast pointer finds behind the cut is anything.
Readings(c) ==
    {r \in [CronFields -> BOOLEAN] :
        \A f \in CronFields : CronPlace[f] <= c.kept => r[f] = c.set[f]}

check_cron_timing(r) ==
    /\ r["minute"] /\ r["hour"] /\ r["month"]
    /\ r["year_star"] \/ r["year"]
    /\ IF r["dom_star"] \/ r["dow_star"] THEN r["dow"] /\ r["dom"] ELSE r["dow"] \/ r["dom"]

CronAnswers(v) == {check_cron_timing(r) : r \in Readings(CronOf[v[1]])}

\* check_cron_time_set: any member that matches will do, and so does none.
CronFits(times, answer) ==
    IF times = {} THEN answer
    ELSE IF answer THEN \E v \in times : TRUE \in CronAnswers(v)
    ELSE \A v \in times : FALSE \in CronAnswers(v)

ReadCron ==
    /\ At("cron")
    /\ \E ok, answer \in BOOLEAN :
          /\ Read("ad", CronKey(bid.group), ok)
          /\ CronFits(Members(CronKey(bid.group), ok), answer)
          /\ bid' = Filter(answer, "target")

\* Fault: a group with labels is shown to users without any.
check_intersection_lax(labels, targets) ==
    labels = {} \/ \E v \in targets : Plain(v) /\ v[1] \in labels

check_intersection(labels, targets) == \E v \in targets : Plain(v) /\ v[1] \in labels

ReadTargets ==
    /\ At("target")
    /\ \E ok \in BOOLEAN :
          LET targets == Members(TargetKey(bid.group), ok)
          IN /\ Read("ad", TargetKey(bid.group), ok)
             /\ bid' = Filter(~bid.known \/ targets = {} \/
                                 check_intersection(bid.labels, targets), "ads")

\* get_eCPM: nothing without ads, and nothing without a price.
ReadAds ==
    /\ At("ads")
    /\ \E ok \in BOOLEAN :
          /\ Read("ad", AdsKey(bid.group), ok)
          /\ bid' = Filter(Members(AdsKey(bid.group), ok) # {}, "price")

\* Fault: a price that cannot be read counts as 1.
ReadPriceOrOne ==
    /\ At("price")
    /\ \E ok \in BOOLEAN :
          /\ Read("ad", PriceKey(bid.group), ok)
          /\ bid' = IF Value(PriceKey(bid.group), <<1>>, ok)[1] > 0
                    THEN [Skip EXCEPT !.offered = bid.offered \cup {bid.group}] ELSE Skip

ReadPrice ==
    /\ At("price")
    /\ \E ok \in BOOLEAN :
          /\ Read("ad", PriceKey(bid.group), ok)
          /\ bid' = IF Value(PriceKey(bid.group), <<0>>, ok)[1] > 0
                    THEN [Skip EXCEPT !.offered = bid.offered \cup {bid.group}] ELSE Skip

Done ==
    /\ At("group") /\ bid.list = <<>>
    /\ bid' = [NoBid EXCEPT !.pc = "done", !.known = bid.known, !.offered = bid.offered]
    /\ UNCHANGED <<mdbVars, edited, missed, refused>>

\* The worker is killed and started again (restart_fastcgi.sh): both
\* connections are made anew.
Restart ==
    /\ Connect({"ad", "user"})
    /\ bid' = NoBid /\ edited' = {} /\ missed' = {} /\ refused' = {}
    /\ UNCHANGED <<backend, whole, data, writes>>

---------------------------------------------------------------------------
(* The other programs.                                                     *)

Other ==
    /\ \E w \in Commands : Write("tool", w) /\ edited' = edited \cup {w.key}
    /\ UNCHANGED <<bid, missed, refused>>

OtherRestart ==
    /\ ~link["tool"] /\ Connect({"tool"})
    /\ UNCHANGED <<backend, whole, data, writes, bid, edited, missed, refused>>

Init == MdbInit /\ bid = NoBid /\ edited = {} /\ missed = {} /\ refused = {}

Next == \/ Request \/ ReadPosition \/ ReadSpace \/ ReadLocation \/ Merge \/ ReadLabels
        \/ ReadShops \/ ReadUserShop \/ ReadValid \/ ReadStart \/ ReadEnd \/ ReadCron
        \/ ReadTargets \/ ReadAds \/ ReadPrice \/ Done \/ Restart
        \/ Other \/ OtherRestart

Spec == Init /\ [][Next]_vars

---------------------------------------------------------------------------
(* What a group asks of a request, by the data as it is.                   *)

NumberAt(k, default) == IF data[k] = Absent THEN default ELSE data[k][1]
StoredIds(k) == {e.member[1] : e \in Stored(data, k)}
Position == [a \in Axes |-> NumberAt(PosKey(a), 0)]
ShopsOf(g) == {v[1] : v \in data[ShopsKey(g)]}
UserShop == NumberAt(UserShopKey, 0)

FitsLocation(known, g) == known => g \in StoredIds(CellKey(Position))
FitsShop(known, g) ==
    /\ ShopsOf(g) # {} /\ (\A s \in ShopsOf(g) : s >= 0)
          => known /\ UserShop > 0 /\ UserShop \in ShopsOf(g)
    /\ (\A s \in ShopsOf(g) : s < 0) /\ known /\ UserShop > 0
          => -UserShop \notin ShopsOf(g)

\* What the cut leaves of a cron time: its first fields.
CronStands(c) ==
    /\ \A f \in {"minute", "hour", "month"} : CronPlace[f] <= c.kept => c.set[f]
    /\ c.kept >= CronPlace["dow"] => c.set["dow"] \/ c.set["dom"]
FitsCron(g) ==
    data[CronKey(g)] # {} => \E v \in data[CronKey(g)] : CronStands(CronOf[v[1]])
FitsLabels(known, g) ==
    known /\ data[TargetKey(g)] # {} =>
        \E v \in data[TargetKey(g)], e \in data[LabelsKey] : v = <<e.field>>
FitsPrice(g) == data[AdsKey(g)] # {} /\ NumberAt(PriceKey(g), 0) > 0

Filters == {"space", "location", "shop", "valid", "window", "cron", "label", "price"}
Fits(f, g) == CASE f = "space" -> g \in StoredIds(SpaceKey)
                [] f = "location" -> FitsLocation(bid.known, g)
                [] f = "shop" -> FitsShop(bid.known, g)
                [] f = "valid" -> NumberAt(ValidKey(g), 1) # 0
                [] f = "window" -> InWindow(data[StartKey(g)], data[EndKey(g)])
                [] f = "cron" -> FitsCron(g)
                [] f = "label" -> FitsLabels(bid.known, g)
                [] f = "price" -> FitsPrice(g)

\* The keys a filter depends on; of the cells of the mall, any.
KeysOf(f, g) == CASE f = "space" -> {SpaceKey}
                  [] f = "location" -> {PosKey(a) : a \in Axes} \cup (ZsetKeys \ {SpaceKey})
                  [] f = "shop" -> {ShopsKey(g), UserShopKey}
                  [] f = "valid" -> {ValidKey(g)}
                  [] f = "window" -> {StartKey(g), EndKey(g)}
                  [] f = "cron" -> {CronKey(g)}
                  [] f = "label" -> {LabelsKey, TargetKey(g)}
                  [] f = "price" -> {AdsKey(g), PriceKey(g)}

---------------------------------------------------------------------------
(* Properties.                                                             *)

TypeOK ==
    /\ MdbTypeOK
    /\ bid \in [pc : PCs, known : BOOLEAN, pos : [Axes -> Words \cup {0}], space : Seq(Groups),
                location : Seq(Groups), list : Seq(Groups), labels : SUBSET Words,
                group : Groups \cup {0}, shops : SUBSET Words, reverse : BOOLEAN,
                start : Values \cup {Absent}, offered : SUBSET Groups]
    /\ bid.pc \in {"usershop", "valid", "start", "end", "cron", "target", "ads", "price"}
          => bid.group \in Groups
    /\ \A k \in ZsetKeys : \A e \in data[k] : e.member[1] \in Groups

\* What the worker has read of key k can be relied on when the group is put up:
\* the key has not been written since the request began, and its read has not
\* failed.  On Redis a read of ad_map that failed with its connection does not
\* count: the price is read last, over that connection, and cannot be read then.
Reliable(k) ==
    /\ k \notin edited
    /\ k \in missed => backend = "REDIS" /\ k \notin UserKeys \cup refused

\* bidding (ad_map.cpp:406-483) puts up a group for a request only if the
\* group's place, shops, flag, window, cron times, labels and price admit it,
\* filter by filter for every filter whose keys could be relied on: reads of
\* other keys that failed, were refused or were overtaken by a write do not
\* open it, and on Redis a connection that breaks anywhere in the request
\* opens no filter that is read over it, although every read then answers "no
\* restriction".
OfferedFits ==
    [][\A g \in bid'.offered \ bid.offered : \A f \in Filters :
          (\A k \in KeysOf(f, g) : Reliable(k)) => Fits(f, g)]_vars

Sorted(k) == \A e, o \in Stored(data, k) : e.member[1] < o.member[1] => e.score < o.score
Uniform(shops) == (\A s \in shops : s >= 0) \/ (\A s \in shops : s < 0)
CronSure(g) ==
    data[CronKey(g)] = {} \/ \E v \in data[CronKey(g)] : FALSE \notin CronAnswers(v)

\* A request in which every read is answered and no write intervenes puts up
\* every group that fits it, provided that the lists it intersects are sorted
\* by id (set_intersection, ad_map.cpp:424), that the build lets Redis list a
\* sorted set, and that the group's shops all have one sign.
NoneMissed ==
    /\ At("done") /\ edited = {} /\ missed = {}
    /\ backend = "TAIR" \/ whole
    /\ bid.known => Sorted(SpaceKey) /\ Sorted(CellKey(Position))
    => \A g \in Groups :
          (\A f \in Filters : Fits(f, g)) /\ Uniform(ShopsOf(g)) /\ CronSure(g)
             => g \in bid.offered

\* From the read at which its connection to Redis breaks a worker puts up no
\* group until it is started again, whatever it has read before (get_eCPM,
\* ad_map.cpp:180, then sees a price of 0).
BrokenOffersNothing ==
    [][backend = "REDIS" /\ ~link'["ad"] => bid'.offered \subseteq bid.offered]_vars
============================================================================
