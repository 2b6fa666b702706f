------------------------ MODULE AdSelectionFitProofs ------------------------
(***************************************************************************)
(* What bidding puts up fits (OfferedFits of AdSelection), and an          *)
(* undisturbed request puts up everything that fits (NoneMissed), for any  *)
(* groups, data and commands of the other programs, and any number of      *)
(* writes and failed reads.                                                *)
(*                                                                         *)
(* The invariant behind the first, Remembered, says of everything the      *)
(* request remembers (its position, its lists, its labels, the filters its *)
(* group has passed) that it is what the data says, unless a key it was    *)
(* read from is no longer clean: a key that was written since, or whose    *)
(* read failed.  A key never becomes clean again while the request lasts,  *)
(* and the data at a clean key does not change, so the invariant survives  *)
(* the steps of the other programs.                                        *)
(*                                                                         *)
(* The invariant behind the second, AllInPlay, says where a group that     *)
(* fits is at each place of the request: on both lists or already on the   *)
(* merged one, on the list of groups to come, at the filters, or put up.   *)
(* The merge cannot drop it because both lists rise; a filter cannot,      *)
(* because by Remembered it judges by what the data says.  Together they   *)
(* say that what an undisturbed request puts up is exactly what fits.      *)
(***************************************************************************)
EXTENDS AdSelectionProofs

USE DEF At

Elems(s) == {s[i] : i \in 1..Len(s)}
Clean(k) == k \notin edited \cup missed
Held(f, g) == (\A k \in KeysOf(f, g) : Clean(k)) => Fits(f, g)

GroupPhase == {"group"} \cup GroupPCs

\* The position of axis a has been read.
Past(a) == /\ bid.pc \notin {"idle", "x", "done"}
           /\ a = "y" => bid.pc # "y"
           /\ a = "z" => bid.pc \notin {"y", "z"}

\* The places at which the group has passed a filter.
PassedBy(f) == CASE f \in {"space", "location"} -> GroupPCs
                 [] f = "shop" -> GroupPCs \ {"usershop"}
                 [] f = "valid" -> {"start", "end", "cron", "target", "ads", "price"}
                 [] f = "window" -> {"cron", "target", "ads", "price"}
                 [] f = "cron" -> {"target", "ads", "price"}
                 [] f = "label" -> {"ads", "price"}
                 [] f = "price" -> {}

Positions == \A a \in Axes : Past(a) /\ Clean(PosKey(a)) => bid.pos[a] = NumberAt(PosKey(a), 0)
Listed ==
    /\ bid.pc \in {"location", "merge"} => \A g \in Elems(bid.space) : Held("space", g)
    /\ bid.pc = "merge" => \A g \in Elems(bid.location) : Held("location", g)
    /\ \A g \in Elems(bid.list) : Held("space", g) /\ Held("location", g)
UserLabels ==
    bid.pc \in GroupPhase /\ bid.known /\ Clean(LabelsKey)
        => bid.labels = {e.field : e \in data[LabelsKey]}
Chosen ==
    \A f \in Filters, g \in Groups : bid.group = g /\ bid.pc \in PassedBy(f) => Held(f, g)
Halfway ==
    \A g \in Groups : bid.group = g =>
        /\ bid.pc = "usershop" =>
              /\ bid.known
              /\ Clean(ShopsKey(g)) => bid.shops = ShopsOf(g)
              /\ \E first \in bid.shops : bid.reverse = (first < 0)
        /\ bid.pc = "end" /\ Clean(StartKey(g)) =>
              IF data[StartKey(g)] = Absent THEN bid.start = Absent
              ELSE bid.start # Absent /\ bid.start[1] = data[StartKey(g)][1]
        /\ bid.pc = "price" /\ Clean(AdsKey(g)) => data[AdsKey(g)] # {}
Connected == backend = "REDIS" /\ link["ad"] => missed \ refused \subseteq UserKeys

Remembered == Positions /\ Listed /\ UserLabels /\ Chosen /\ Halfway /\ Connected

---------------------------------------------------------------------------
(* Sequences.                                                              *)

LEMMA ElemsOf ==
    ASSUME NEW S, NEW s \in Seq(S)
    PROVE  /\ Elems(<<>>) = {}
           /\ s # <<>> => Head(s) \in Elems(s) /\ Elems(Tail(s)) \subseteq Elems(s)
           /\ Elems(s) \subseteq S
           /\ \A e \in S : Elems(Append(s, e)) = Elems(s) \cup {e}
  <1>1. Elems(<<>>) = {} /\ Elems(s) \subseteq S
    BY DEF Elems
  <1>2. ASSUME s # <<>> PROVE Head(s) \in Elems(s) /\ Elems(Tail(s)) \subseteq Elems(s)
    <2>1. Len(s) \in Nat /\ Len(s) >= 1 /\ Head(s) = s[1] /\ Len(Tail(s)) = Len(s) - 1
      BY <1>2
    <2>2. \A i \in 1..Len(Tail(s)) : Tail(s)[i] = s[i + 1] /\ i + 1 \in 1..Len(s)
      BY <1>2, <2>1
    <2> QED BY <2>1, <2>2 DEF Elems
  <1>3. ASSUME NEW e \in S PROVE Elems(Append(s, e)) = Elems(s) \cup {e}
    <2>1. Len(Append(s, e)) = Len(s) + 1 /\ Len(s) \in Nat
      OBVIOUS
    <2>2. Append(s, e)[Len(s) + 1] = e /\ \A i \in 1..Len(s) : Append(s, e)[i] = s[i]
      OBVIOUS
    <2>3. \A i : i \in 1..(Len(s) + 1) <=> i \in 1..Len(s) \/ i = Len(s) + 1
      BY <2>1
    <2> DEFINE t == Append(s, e)
               n == Len(s)
    <2>4. Elems(t) = {t[i] : i \in 1..(n + 1)}
      BY <2>1 DEF Elems
    <2> HIDE DEF t
    <2> QED BY <2>2, <2>3, <2>4 DEF Elems, t
  <1> QED BY <1>1, <1>2, <1>3

---------------------------------------------------------------------------
(* What is remembered stays right.                                         *)

\* The keys of a filter are keys.
LEMMA KeysOfType == ASSUME NEW f \in Filters, NEW g \in Groups PROVE KeysOf(f, g) \subseteq Keys
  BY KeysNamed DEF KeysOf, Filters, Keys, Axes

Framed == /\ \A k \in Keys : Clean(k)' => Clean(k) /\ data'[k] = data[k]
          /\ bid'.known = bid.known

\* The keys of cells are not the key of the space.
LEMMA CellKeyKind == ASSUME NEW pos PROVE CellKey(pos) # SpaceKey
  BY DEF CellKey, SpaceKey

LEMMA HeldFrame ==
    ASSUME NEW f \in Filters, NEW g \in Groups, Held(f, g), Framed
    PROVE  Held(f, g)'
  <1> SUFFICES ASSUME \A k \in KeysOf(f, g) : Clean(k)' PROVE Fits(f, g)'
    BY DEF Held
  <1>1. \A k \in KeysOf(f, g) : data'[k] = data[k]
    BY KeysOfType DEF Framed
  <1>2. Fits(f, g)
    BY KeysOfType DEF Framed, Held
  <1>3. bid'.known = bid.known
    BY DEF Framed
  <1>4. CASE f = "space"
    <2>1. data'[SpaceKey] = data[SpaceKey]
      BY <1>1, <1>4 DEF KeysOf
    <2> QED BY <1>2, <1>4, <2>1 DEF Fits, StoredIds, Stored
  <1>5. CASE f = "location"
    <2>1. \A a \in Axes : data'[PosKey(a)] = data[PosKey(a)]
      BY <1>1, <1>5 DEF KeysOf
    <2>2. Position' = Position
      BY <2>1 DEF Position, NumberAt
    <2>3. CellKey(Position') = CellKey(Position) /\ CellKey(Position) # SpaceKey
      BY <2>2, CellKeyKind
    <2> DEFINE c == CellKey(Position)
    <2>4. c \in ZsetKeys => data'[c] = data[c]
      BY <1>1, <1>5, <2>3 DEF KeysOf
    <2> HIDE DEF c
    <2>5. Stored(data', c) = Stored(data, c)
      BY <2>4 DEF Stored
    <2> QED BY <1>2, <1>3, <1>5, <2>3, <2>5 DEF Fits, FitsLocation, StoredIds, c
  <1>6. CASE f = "shop"
    <2>1. data'[ShopsKey(g)] = data[ShopsKey(g)] /\ data'[UserShopKey] = data[UserShopKey]
      BY <1>1, <1>6 DEF KeysOf
    <2> QED BY <1>2, <1>3, <1>6, <2>1 DEF Fits, FitsShop, ShopsOf, UserShop, NumberAt
  <1>7. CASE f = "valid"
    <2>1. data'[ValidKey(g)] = data[ValidKey(g)]
      BY <1>1, <1>7 DEF KeysOf
    <2> QED BY <1>2, <1>7, <2>1 DEF Fits, NumberAt
  <1>8. CASE f = "window"
    <2>1. data'[StartKey(g)] = data[StartKey(g)] /\ data'[EndKey(g)] = data[EndKey(g)]
      BY <1>1, <1>8 DEF KeysOf
    <2> QED BY <1>2, <1>8, <2>1 DEF Fits
  <1>9. CASE f = "cron"
    <2>1. data'[CronKey(g)] = data[CronKey(g)]
      BY <1>1, <1>9 DEF KeysOf
    <2> QED BY <1>2, <1>9, <2>1 DEF Fits, FitsCron
  <1>10. CASE f = "label"
    <2>1. data'[LabelsKey] = data[LabelsKey] /\ data'[TargetKey(g)] = data[TargetKey(g)]
      BY <1>1, <1>10 DEF KeysOf
    <2> QED BY <1>2, <1>3, <1>10, <2>1 DEF Fits, FitsLabels
  <1>11. CASE f = "price"
    <2>1. data'[AdsKey(g)] = data[AdsKey(g)] /\ data'[PriceKey(g)] = data[PriceKey(g)]
      BY <1>1, <1>11 DEF KeysOf
    <2> QED BY <1>2, <1>11, <2>1 DEF Fits, FitsPrice, NumberAt
  <1> QED BY <1>4, <1>5, <1>6, <1>7, <1>8, <1>9, <1>10, <1>11 DEF Filters

\* A read leaves the data alone; a key that is clean after it was answered.
LEMMA ReadFrame ==
    ASSUME NEW c \in {"ad", "user"}, NEW k, NEW ok \in BOOLEAN, Read(c, k, ok),
           bid'.known = bid.known
    PROVE  /\ Framed /\ data' = data /\ edited' = edited /\ backend' = backend
           /\ Clean(k)' => ok
  BY DEF Read, Framed, Clean

\* The connection is usable after a read only if all that was missed with a
\* connection was missed with the other one.
LEMMA ReadConnected ==
    ASSUME TypeOK, Connected, NEW c \in {"ad", "user"}, NEW k, NEW ok \in BOOLEAN, Read(c, k, ok),
           c = "user" => k \in UserKeys
    PROVE  Connected'
  <1>1. link \in [Conns -> BOOLEAN] /\ "ad" \in Conns /\ backend' = backend
    BY TypeParts, ConnsAre DEF MdbTypeOK, Read
  <1>2. CASE ok
    BY <1>1, <1>2 DEF Connected, Read
  <1>3. CASE ~ok /\ c = "ad"
    BY <1>1, <1>3 DEF Connected, Read, Dropped
  <1>4. CASE ~ok /\ c = "user"
    BY <1>1, <1>4 DEF Connected, Read, Dropped
  <1> QED BY <1>2, <1>3, <1>4

\* So does a write of another program, but at the key it writes.
LEMMA OtherFrame ==
    ASSUME TypeOK, Connected, Other \/ OtherRestart
    PROVE  Framed /\ bid' = bid /\ Connected'
  <1> USE ConnsAre
  <1>1. bid' = bid /\ missed' = missed /\ refused' = refused /\ backend' = backend
    BY DEF Other, OtherRestart, Write
  <1>2. link'["ad"] = link["ad"]
    <2>1. link \in [Conns -> BOOLEAN]
      BY TypeParts DEF MdbTypeOK
    <2>2. CASE OtherRestart
      BY <2>2 DEF OtherRestart, Connect
    <2>3. CASE Other
      <3>1. link' = link \/ link' = [link EXCEPT !["tool"] = FALSE]
        BY <2>3 DEF Other, Write, Dropped
      <3> QED BY <2>1, <3>1
    <2> QED BY <2>2, <2>3
  <1>3. Framed
    <2>1. CASE data' = data /\ edited \subseteq edited'
      BY <1>1, <2>1 DEF Framed, Clean
    <2>2. CASE Other /\ data' # data
      <3>1. PICK w \in Commands :
              edited' = edited \cup {w.key} /\ data' = Executed(backend, data, w).data
        BY <2>2 DEF Other, Write
      <3>2. DataOK(data) /\ backend \in {"REDIS", "TAIR"} /\ (backend = "REDIS" => AllPlain(data))
        BY TypeParts DEF MdbTypeOK
      <3> DEFINE x == Executed(backend, data, w).data
      <3>3. \E v : Puts(backend, data, w, v) /\ x = [data EXCEPT ![w.key] = v]
        BY <3>2, WritePuts, SMTT(40)
      <3> HIDE DEF x
      <3>4. PICK v : Puts(backend, data, w, v) /\ x = [data EXCEPT ![w.key] = v] /\ x = data'
        BY <3>1, <3>3 DEF x
      <3>5. w.key \in Keys /\ Holds(w.key, v) /\ data' = [data EXCEPT ![w.key] = v]
        BY <3>4, CommandsType DEF Puts, Command
      <3> DEFINE n == Put(data, w.key, v)
      <3>6. data' = n
        BY <3>5 DEF Put
      <3>7. \A k \in Keys : k # w.key => n[k] = data[k]
        BY <3>2, <3>5, DataPut
      <3> HIDE DEF n
      <3> QED BY <1>1, <3>1, <3>6, <3>7 DEF Framed, Clean
    <2> QED BY <2>1, <2>2 DEF Other, OtherRestart
  <1> QED BY <1>1, <1>2, <1>3 DEF Connected

\* The position, the lists and the labels survive a step that only takes
\* groups off the list.
LEMMA KeepRead ==
    ASSUME TypeOK, Remembered, Framed, bid' \in Bid,
           bid'.pos = bid.pos, bid'.labels = bid.labels,
           bid.pc \in GroupPhase, bid'.pc \in GroupPhase,
           Elems(bid'.list) \subseteq Elems(bid.list)
    PROVE  Positions' /\ Listed' /\ UserLabels'
  <1>1. Positions'
    <2> SUFFICES ASSUME NEW a \in Axes, Clean(PosKey(a))'
                 PROVE  bid'.pos[a] = NumberAt(PosKey(a), 0)'
      BY DEF Positions
    <2>1. PosKey(a) \in Keys /\ Past(a)
      BY KeysNamed DEF Keys, Past, GroupPhase, GroupPCs
    <2>2. Clean(PosKey(a)) /\ data'[PosKey(a)] = data[PosKey(a)]
      BY <2>1 DEF Framed
    <2> QED BY <2>1, <2>2 DEF Remembered, Positions, NumberAt
  <1>2. Listed'
    <2>1. \A g \in Elems(bid'.list) : g \in Groups /\ Held("space", g) /\ Held("location", g)
      BY TypeParts, ElemsOf DEF Remembered, Listed, Bid
    <2>2. \A g \in Elems(bid'.list) : Held("space", g)' /\ Held("location", g)'
      BY <2>1, HeldFrame DEF Filters
    <2> QED BY <2>2 DEF Listed, GroupPhase, GroupPCs
  <1>3. UserLabels'
    <2>1. LabelsKey \in Keys
      BY KeysNamed DEF Keys
    <2> QED BY <2>1 DEF Remembered, UserLabels, Framed
  <1> QED BY <1>1, <1>2, <1>3

\* So do the filters that the group has passed.
LEMMA KeepChosen ==
    ASSUME Remembered, Framed, NEW f \in Filters, NEW g \in Groups,
           bid.group = g, bid.pc \in PassedBy(f)
    PROVE  Held(f, g)'
  BY HeldFrame DEF Remembered, Chosen

---------------------------------------------------------------------------
(* The steps of a group through its filters.                               *)

LEMMA PassedType == ASSUME NEW f \in Filters PROVE PassedBy(f) \subseteq GroupPCs
  BY DEF Filters, PassedBy, GroupPCs

LEMMA GroupStep ==
    ASSUME TypeOK, Remembered, Framed, bid' \in Bid, NEW g \in Groups,
           bid.pc \in GroupPhase, bid'.pc \in GroupPhase,
           bid'.pos = bid.pos, bid'.labels = bid.labels,
           Elems(bid'.list) \subseteq Elems(bid.list),
           bid'.pc \in GroupPCs =>
               bid'.group = g /\ \A f \in Filters : bid'.pc \in PassedBy(f) => Held(f, g)',
           Halfway', Connected'
    PROVE  Remembered'
  <1>1. Chosen'
    <2> SUFFICES ASSUME NEW f \in Filters, NEW h \in Groups, bid'.group = h, bid'.pc \in PassedBy(f)
                 PROVE  Held(f, h)'
      BY DEF Chosen
    <2>1. bid'.pc \in GroupPCs
      BY PassedType
    <2>2. h = g
      BY <2>1
    <2>3. Held(f, g)'
      BY <2>1
    <2> QED BY <2>2, <2>3
  <1> QED BY <1>1, KeepRead DEF Remembered

\* A filter that lets its group pass must have been one it fits.
LEMMA FilterStep ==
    ASSUME TypeOK, Remembered, bid' \in Bid, NEW g \in Groups, bid.group = g, bid.pc \in GroupPCs,
           NEW c \in {"ad", "user"}, NEW k, NEW ok \in BOOLEAN, Read(c, k, ok),
           c = "user" => k \in UserKeys,
           NEW holds \in BOOLEAN, NEW loc \in {"valid", "start", "cron", "target", "ads", "price"},
           bid' = Filter(holds, loc),
           holds => \A f \in Filters : loc \in PassedBy(f) =>
                       bid.pc \in PassedBy(f) \/ Held(f, g)',
           holds /\ loc = "price" => (Clean(AdsKey(g))' => data'[AdsKey(g)] # {})
    PROVE  Remembered'
  <1>1. bid \in Bid
    BY TypeParts
  <1>2. /\ bid'.known = bid.known /\ bid'.pos = bid.pos /\ bid'.labels = bid.labels
        /\ bid'.list = bid.list
        /\ \/ holds /\ bid'.pc = loc /\ bid'.group = g
           \/ ~holds /\ bid'.pc = "group"
    BY <1>1 DEF Filter, Pass, Skip, Bid
  <1>3. Framed
    BY <1>2, ReadFrame
  <1>4. Halfway'
    BY <1>2 DEF Halfway
  <1>5. Connected'
    BY ReadConnected DEF Remembered
  <1>6. bid'.pc \in GroupPCs =>
            bid'.group = g /\ \A f \in Filters : bid'.pc \in PassedBy(f) => Held(f, g)'
    BY <1>2, <1>3, KeepChosen DEF GroupPCs
  <1>7. bid.pc \in GroupPhase /\ bid'.pc \in GroupPhase
    BY <1>2 DEF GroupPhase, GroupPCs
  <1> QED BY <1>2, <1>3, <1>4, <1>5, <1>6, <1>7, GroupStep

LEMMA ShopsKept ==
    ASSUME TypeOK, Remembered, bid' \in Bid, ReadShops
    PROVE  Remembered'
  <1>1. PICK ok \in BOOLEAN :
             LET g == Head(bid.list)
                 shops == {v[1] : v \in Members(ShopsKey(g), ok)}
             IN /\ bid.pc = "group" /\ bid.list # <<>> /\ g \in Groups
                /\ Read("ad", ShopsKey(g), ok)
                /\ bid'.known = bid.known /\ bid'.pos = bid.pos /\ bid'.list = Tail(bid.list)
                /\ bid'.labels = bid.labels /\ bid'.offered = bid.offered
                /\ \/ /\ bid'.pc = "valid" /\ bid'.group = g
                      /\ shops = {} \/ (~bid.known /\ \E first \in shops : first < 0)
                   \/ /\ bid'.pc = "usershop" /\ bid'.group = g /\ bid'.shops = shops
                      /\ bid.known /\ \E first \in shops : bid'.reverse = (first < 0)
                   \/ bid'.pc = "group" /\ ~bid.known /\ \E first \in shops : ~(first < 0)
    BY ShopsStep
  <1>2. PICK g \in Groups : g = Head(bid.list)
    BY <1>1
  <1> DEFINE shops == {v[1] : v \in Members(ShopsKey(g), ok)}
  <1>3. /\ bid.pc = "group" /\ bid.list # <<>> /\ Read("ad", ShopsKey(g), ok)
        /\ bid'.known = bid.known /\ bid'.pos = bid.pos /\ bid'.list = Tail(bid.list)
        /\ bid'.labels = bid.labels
        /\ \/ /\ bid'.pc = "valid" /\ bid'.group = g
              /\ shops = {} \/ (~bid.known /\ \E first \in shops : first < 0)
           \/ /\ bid'.pc = "usershop" /\ bid'.group = g /\ bid'.shops = shops
              /\ bid.known /\ \E first \in shops : bid'.reverse = (first < 0)
           \/ bid'.pc = "group"
    BY <1>1, <1>2
  <1>4. Framed /\ data' = data /\ (Clean(ShopsKey(g))' => ok)
    BY <1>3, ReadFrame
  <1>5. bid.list \in Seq(Groups)
    BY TypeParts DEF Bid
  <1>6. g \in Elems(bid.list) /\ Elems(bid'.list) \subseteq Elems(bid.list)
    BY <1>2, <1>3, <1>5, ElemsOf
  <1>7. ok => shops = ShopsOf(g)
    BY TypeParts, KeyKinds, MembersRead DEF ShopsOf
  <1> HIDE DEF shops
  <1>8. Held("space", g)' /\ Held("location", g)'
    <2>1. Held("space", g) /\ Held("location", g)
      BY <1>6 DEF Remembered, Listed
    <2> QED BY <1>4, <2>1, HeldFrame DEF Filters
  <1>9. bid'.pc = "valid" => Held("shop", g)'
    <2> SUFFICES ASSUME bid'.pc = "valid", Clean(ShopsKey(g))' PROVE FitsShop(bid.known, g)
      BY <1>3, <1>4 DEF Held, Fits, KeysOf, FitsShop, ShopsOf, UserShop, NumberAt
    <2>1. shops = ShopsOf(g)
      BY <1>4, <1>7
    <2>2. ShopsOf(g) = {} \/ (~bid.known /\ \E first \in ShopsOf(g) : first < 0)
      BY <1>3, <2>1
    <2>3. \A v \in ShopsOf(g) : v \in Int
      <3>1. MdbTypeOK /\ ShopsKey(g) \in SetKeys
        BY KeyKinds, TypeParts
      <3>2. /\ Members(ShopsKey(g), TRUE) = data[ShopsKey(g)]
            /\ \A v \in Members(ShopsKey(g), TRUE) : v[1] \in Words
        BY <3>1, MembersRead
      <3> QED BY <3>2, WordsType DEF ShopsOf
    <2>4. (\A v \in ShopsOf(g) : v >= 0) => ShopsOf(g) = {}
      BY <2>2, <2>3
    <2>5. ShopsOf(g) = {} \/ ~bid.known
      BY <2>2
    <2> QED BY <1>3, <2>4, <2>5 DEF FitsShop
  <1>10. Halfway'
    BY <1>3, <1>4, <1>7 DEF Halfway, ShopsOf
  <1>11. Connected'
    BY <1>3, ReadConnected DEF Remembered
  <1>12. bid'.pc \in GroupPCs =>
            bid'.group = g /\ \A f \in Filters : bid'.pc \in PassedBy(f) => Held(f, g)'
    BY <1>3, <1>8, <1>9 DEF Filters, PassedBy, GroupPCs
  <1>13. bid.pc \in GroupPhase /\ bid'.pc \in GroupPhase
    BY <1>3 DEF GroupPhase, GroupPCs
  <1> QED BY <1>3, <1>4, <1>6, <1>10, <1>11, <1>12, <1>13, GroupStep

LEMMA UserShopKept ==
    ASSUME TypeOK, Remembered, bid' \in Bid, ReadUserShop
    PROVE  Remembered'
  <1>1. PICK ok \in BOOLEAN :
          /\ Read("user", UserShopKey, ok)
          /\ bid' = Filter(ShopFits(Value(UserShopKey, <<0>>, ok)[1], bid.shops, bid.reverse), "valid")
    BY DEF ReadUserShop
  <1>2. bid.pc = "usershop" /\ bid.pc \in GroupPCs
    BY DEF ReadUserShop, GroupPCs
  <1>3. PICK g \in Groups : bid.group = g
    BY <1>2, TypeParts
  <1>4. PICK shop : shop = Value(UserShopKey, <<0>>, ok)[1]
    OBVIOUS
  <1>5. shop \in Int /\ (ok => shop = UserShop) /\ bid.shops \subseteq Int
    <2>1. /\ Value(UserShopKey, <<0>>, ok)[1] \in Words \cup {0}
          /\ ok => Value(UserShopKey, <<0>>, ok)[1] = NumberAt(UserShopKey, 0)
      BY KeysNamed, TypeParts, NumberRead
    <2>2. shop \in Words \cup {0} /\ (ok => shop = UserShop)
      BY <1>4, <2>1 DEF UserShop
    <2>3. bid.shops \subseteq Words
      BY TypeParts DEF Bid
    <2>4. \A n \in Words \cup {0} : n \in Int
      BY WordsType
    <2>5. \A S : S \subseteq Words => S \subseteq Int
      BY WordsType
    <2> QED BY <2>2, <2>3, <2>4, <2>5
  <1>6. bid.known /\ (Clean(ShopsKey(g)) => bid.shops = ShopsOf(g))
        /\ \E first \in bid.shops : bid.reverse = (first < 0)
    BY <1>2, <1>3 DEF Remembered, Halfway
  <1>7. Framed /\ data' = data /\ (Clean(UserShopKey)' => ok)
    <2>1. bid'.known = bid.known
      BY <1>1, TypeParts DEF Filter, Pass, Skip, Bid
    <2> QED BY <1>1, <2>1, ReadFrame
  <1> DEFINE holds == ShopFits(shop, bid.shops, bid.reverse)
  <1>8. ASSUME holds PROVE Held("shop", g)'
    <2> SUFFICES ASSUME Clean(ShopsKey(g))', Clean(UserShopKey)' PROVE FitsShop(bid.known, g)
      BY <1>7 DEF Held, Fits, KeysOf, FitsShop, ShopsOf, UserShop, NumberAt, Framed
    <2>1. bid.shops = ShopsOf(g) /\ shop = UserShop
      BY <1>3, <1>5, <1>6, <1>7, KeyKinds DEF Framed, Keys
    <2>2. PICK first \in ShopsOf(g) : bid.reverse = (first < 0)
      BY <1>6, <2>1
    <2>3. IF first < 0 THEN ~(UserShop > 0 /\ -UserShop \in ShopsOf(g))
          ELSE UserShop > 0 /\ UserShop \in ShopsOf(g)
      BY <1>8, <2>1, <2>2 DEF ShopFits
    <2> QED BY <1>5, <1>6, <2>1, <2>2, <2>3 DEF FitsShop
  <1>9. holds \in BOOLEAN /\ bid' = Filter(holds, "valid")
    <2>1. bid.reverse \in BOOLEAN
      BY TypeParts DEF Bid
    <2> QED BY <1>1, <1>4, <2>1 DEF ShopFits
  <1>10. \A f \in Filters : "valid" \in PassedBy(f) => bid.pc \in PassedBy(f) \/ f = "shop"
    BY <1>2 DEF Filters, PassedBy, GroupPCs
  <1> HIDE DEF holds
  <1> QED BY <1>1, <1>2, <1>3, <1>8, <1>9, <1>10, FilterStep DEF UserKeys

LEMMA ValidKept ==
    ASSUME TypeOK, Remembered, bid' \in Bid, ReadValid
    PROVE  Remembered'
  <1>1. bid.pc = "valid" /\ bid.pc \in GroupPCs
    BY DEF ReadValid, GroupPCs
  <1>2. PICK g \in Groups : bid.group = g
    BY <1>1, TypeParts
  <1>3. PICK ok \in BOOLEAN :
          Read("ad", ValidKey(g), ok) /\ bid' = Filter(Value(ValidKey(g), <<1>>, ok)[1] # 0, "start")
    BY <1>2 DEF ReadValid
  <1>4. Framed /\ data' = data /\ (Clean(ValidKey(g))' => ok)
    <2>1. bid'.known = bid.known
      BY <1>3, TypeParts DEF Filter, Pass, Skip, Bid
    <2> QED BY <1>3, <2>1, ReadFrame
  <1>5. ok => Value(ValidKey(g), <<1>>, ok)[1] = NumberAt(ValidKey(g), 1)
    BY KeyKinds, TypeParts, NumberRead
  <1> DEFINE holds == Value(ValidKey(g), <<1>>, ok)[1] # 0
  <1>6. ASSUME holds PROVE Held("valid", g)'
    BY <1>4, <1>5, <1>6 DEF Held, Fits, KeysOf, NumberAt
  <1>7. \A f \in Filters : "start" \in PassedBy(f) => bid.pc \in PassedBy(f) \/ f = "valid"
    BY <1>1 DEF Filters, PassedBy, GroupPCs
  <1>8. holds \in BOOLEAN
    OBVIOUS
  <1>9. bid' = Filter(holds, "start")
    BY <1>3
  <1> HIDE DEF holds
  <1> QED BY <1>1, <1>2, <1>3, <1>6, <1>7, <1>8, <1>9, FilterStep

\* The first of the two reads of the window.
LEMMA StartKept ==
    ASSUME TypeOK, Remembered, bid' \in Bid, ReadStart
    PROVE  Remembered'
  <1>1. bid.pc = "start" /\ bid.pc \in GroupPCs /\ bid \in Bid
    BY TypeParts DEF ReadStart, GroupPCs
  <1>2. PICK g \in Groups : bid.group = g
    BY <1>1, TypeParts
  <1>3. PICK ok \in BOOLEAN :
          /\ Read("ad", StartKey(g), ok)
          /\ bid' = [bid EXCEPT !.pc = "end", !.start = Value(StartKey(g), Absent, ok)]
    BY <1>2 DEF ReadStart
  <1>4. /\ bid'.pc = "end" /\ bid'.group = g /\ bid'.known = bid.known /\ bid'.pos = bid.pos
        /\ bid'.labels = bid.labels /\ bid'.list = bid.list
        /\ bid'.start = Value(StartKey(g), Absent, ok)
    BY <1>1, <1>2, <1>3 DEF Bid
  <1>5. Framed /\ data' = data /\ (Clean(StartKey(g))' => ok)
    BY <1>3, <1>4, ReadFrame
  <1> DEFINE start == Value(StartKey(g), Absent, ok)
  <1>11. ok => IF data[StartKey(g)] = Absent THEN start = Absent
               ELSE start # Absent /\ start[1] = data[StartKey(g)][1]
    BY KeyKinds, TypeParts, ValueRead
  <1> HIDE DEF start
  <1>6. ok => IF data[StartKey(g)] = Absent THEN bid'.start = Absent
              ELSE bid'.start # Absent /\ bid'.start[1] = data[StartKey(g)][1]
    BY <1>4, <1>11 DEF start
  <1>7. Halfway'
    BY <1>4, <1>5, <1>6 DEF Halfway
  <1>8. Connected'
    BY <1>3, ReadConnected DEF Remembered
  <1>9. \A f \in Filters : "end" \in PassedBy(f) => bid.pc \in PassedBy(f)
    BY <1>1 DEF Filters, PassedBy, GroupPCs
  <1>10. \A f \in Filters : bid'.pc \in PassedBy(f) => Held(f, g)'
    BY <1>2, <1>4, <1>5, <1>9, KeepChosen
  <1> QED BY <1>1, <1>4, <1>5, <1>7, <1>8, <1>10, GroupStep DEF GroupPhase, GroupPCs

LEMMA EndKept ==
    ASSUME TypeOK, Remembered, bid' \in Bid, ReadEnd
    PROVE  Remembered'
  <1>1. bid.pc = "end" /\ bid.pc \in GroupPCs
    BY DEF ReadEnd, GroupPCs
  <1>2. PICK g \in Groups : bid.group = g
    BY <1>1, TypeParts
  <1>3. PICK ok \in BOOLEAN :
          /\ Read("ad", EndKey(g), ok)
          /\ bid' = Filter(InWindow(bid.start, Value(EndKey(g), Absent, ok)), "cron")
    BY <1>2 DEF ReadEnd
  <1>4. Framed /\ data' = data /\ (Clean(EndKey(g))' => ok)
    <2>1. bid'.known = bid.known
      BY <1>3, TypeParts DEF Filter, Pass, Skip, Bid
    <2> QED BY <1>3, <2>1, ReadFrame
  <1> DEFINE end == Value(EndKey(g), Absent, ok)
  <1>5. ok => IF data[EndKey(g)] = Absent THEN end = Absent
              ELSE end # Absent /\ end[1] = data[EndKey(g)][1]
    BY KeyKinds, TypeParts, ValueRead
  <1>6. Clean(StartKey(g)) => IF data[StartKey(g)] = Absent THEN bid.start = Absent
              ELSE bid.start # Absent /\ bid.start[1] = data[StartKey(g)][1]
    BY <1>1, <1>2 DEF Remembered, Halfway
  <1> HIDE DEF end
  <1> DEFINE holds == InWindow(bid.start, end)
  <1>7. ASSUME holds PROVE Held("window", g)'
    <2> SUFFICES ASSUME Clean(StartKey(g))', Clean(EndKey(g))'
                 PROVE  InWindow(data[StartKey(g)], data[EndKey(g)])
      BY <1>4 DEF Held, Fits, KeysOf
    <2>1. Clean(StartKey(g)) /\ ok
      BY <1>4, KeyKinds DEF Framed, Keys
    <2> QED BY <1>5, <1>6, <1>7, <2>1 DEF InWindow, IsNumber
  <1>8. \A f \in Filters : "cron" \in PassedBy(f) => bid.pc \in PassedBy(f) \/ f = "window"
    BY <1>1 DEF Filters, PassedBy, GroupPCs
  <1>9. holds \in BOOLEAN /\ bid' = Filter(holds, "cron")
    BY <1>3 DEF InWindow, end
  <1> HIDE DEF holds
  <1> QED BY <1>1, <1>2, <1>3, <1>7, <1>8, <1>9, FilterStep

\* A time that matches at this minute, however it was cut, stands.
LEMMA MatchStands ==
    ASSUME NEW word \in Words, TRUE \in CronAnswers(<<word>>)
    PROVE  CronStands(CronOf[word])
  <1> DEFINE c == CronOf[word]
  <1>1. PICK r \in Readings(c) : check_cron_timing(r)
    BY DEF CronAnswers
  <1>2. c \in [kept : 0..5, set : [CronFields -> BOOLEAN]]
    BY CronType
  <1> HIDE DEF c
  <1>3. \A f \in CronFields : CronPlace[f] <= c.kept => r[f] = c.set[f]
    BY <1>1 DEF Readings
  <1>4. {"minute", "hour", "month", "dow", "dom"} \subseteq CronFields
    BY DEF CronFields
  <1>5. r["minute"] /\ r["hour"] /\ r["month"] /\ (r["dow"] \/ r["dom"])
    BY <1>1 DEF check_cron_timing
  <1>6. CronPlace["dow"] = 5 /\ CronPlace["dom"] = 3
    BY DEF CronPlace, CronFields
  <1>7. \A f \in {"minute", "hour", "month"} : CronPlace[f] <= c.kept => c.set[f]
    BY <1>3, <1>4, <1>5
  <1>8. c.kept >= CronPlace["dow"] => c.set["dow"] \/ c.set["dom"]
    <2>1. c.kept \in 0..5
      BY <1>2
    <2>2. c.kept >= 5 => CronPlace["dow"] <= c.kept /\ CronPlace["dom"] <= c.kept
      BY <1>6, <2>1
    <2> QED BY <1>3, <1>4, <1>5, <1>6, <2>2
  <1> QED BY <1>7, <1>8 DEF CronStands, c

LEMMA CronKept ==
    ASSUME TypeOK, Remembered, bid' \in Bid, ReadCron
    PROVE  Remembered'
  <1>1. bid.pc = "cron" /\ bid.pc \in GroupPCs
    BY DEF ReadCron, GroupPCs
  <1>2. PICK g \in Groups : bid.group = g
    BY <1>1, TypeParts
  <1>3. PICK ok \in BOOLEAN, answer \in BOOLEAN :
          /\ Read("ad", CronKey(g), ok)
          /\ CronFits(Members(CronKey(g), ok), answer)
          /\ bid' = Filter(answer, "target")
    BY <1>2 DEF ReadCron
  <1>4. Framed /\ data' = data /\ (Clean(CronKey(g))' => ok)
    <2>1. bid'.known = bid.known
      BY <1>3, TypeParts DEF Filter, Pass, Skip, Bid
    <2> QED BY <1>3, <2>1, ReadFrame
  <1>5. /\ ok => Members(CronKey(g), ok) = data[CronKey(g)]
        /\ \A v \in Members(CronKey(g), ok) : v[1] \in Words
    BY KeyKinds, TypeParts, MembersRead
  <1>6. ASSUME answer PROVE Held("cron", g)'
    <2> SUFFICES ASSUME ok PROVE FitsCron(g)
      BY <1>4 DEF Held, Fits, KeysOf, FitsCron
    <2>1. data[CronKey(g)] = {} \/ \E v \in data[CronKey(g)] : TRUE \in CronAnswers(v)
      BY <1>3, <1>5, <1>6 DEF CronFits
    <2>2. ASSUME NEW v \in data[CronKey(g)], TRUE \in CronAnswers(v) PROVE CronStands(CronOf[v[1]])
      <3>1. v[1] \in Words
        BY <1>5
      <3>2. CronAnswers(v) = CronAnswers(<<v[1]>>)
        BY DEF CronAnswers
      <3> QED BY <2>2, <3>1, <3>2, MatchStands
    <2> QED BY <2>1, <2>2 DEF FitsCron
  <1>7. \A f \in Filters : "target" \in PassedBy(f) => bid.pc \in PassedBy(f) \/ f = "cron"
    BY <1>1 DEF Filters, PassedBy, GroupPCs
  <1> QED BY <1>1, <1>2, <1>3, <1>6, <1>7, FilterStep

LEMMA TargetsKept ==
    ASSUME TypeOK, Remembered, bid' \in Bid, ReadTargets
    PROVE  Remembered'
  <1>1. bid.pc = "target" /\ bid.pc \in GroupPCs
    BY DEF ReadTargets, GroupPCs
  <1>2. PICK g \in Groups : bid.group = g
    BY <1>1, TypeParts
  <1> DEFINE read(ok) == Members(TargetKey(g), ok)
  <1>3. PICK ok \in BOOLEAN :
          /\ Read("ad", TargetKey(g), ok)
          /\ bid' = Filter(~bid.known \/ read(ok) = {} \/ check_intersection(bid.labels, read(ok)), "ads")
    BY <1>2 DEF ReadTargets
  <1>4. Framed /\ data' = data /\ (Clean(TargetKey(g))' => ok)
    <2>1. bid'.known = bid.known
      BY <1>3, TypeParts DEF Filter, Pass, Skip, Bid
    <2> QED BY <1>3, <2>1, ReadFrame
  <1> DEFINE targets == read(ok)
  <1>5. (ok => targets = data[TargetKey(g)]) /\ targets \subseteq Values
    BY KeyKinds, TypeParts, MembersRead
  <1> HIDE DEF read
  <1> DEFINE holds == ~bid.known \/ targets = {} \/ check_intersection(bid.labels, targets)
  <1>6. holds \in BOOLEAN /\ bid' = Filter(holds, "ads")
    BY <1>3
  <1>7. ASSUME holds PROVE Held("label", g)'
    <2> SUFFICES ASSUME Clean(TargetKey(g))', Clean(LabelsKey)', bid.known, data[TargetKey(g)] # {}
                 PROVE  \E v \in data[TargetKey(g)], e \in data[LabelsKey] : v = <<e.field>>
      BY <1>4 DEF Held, Fits, KeysOf, FitsLabels, Framed
    <2>1. Clean(LabelsKey) /\ targets = data[TargetKey(g)]
      BY <1>4, <1>5, KeysNamed DEF Framed, Keys
    <2>2. bid.labels = {e.field : e \in data[LabelsKey]}
      BY <1>1, <2>1 DEF Remembered, UserLabels, GroupPhase
    <2>3. PICK v \in targets : Plain(v) /\ v[1] \in bid.labels
      BY <1>7, <2>1 DEF check_intersection
    <2>4. v = <<v[1]>>
      BY <1>5, <2>3, ValueWords
    <2>5. PICK e \in data[LabelsKey] : v[1] = e.field
      BY <2>2, <2>3
    <2> QED BY <2>1, <2>4, <2>5
  <1>8. \A f \in Filters : "ads" \in PassedBy(f) => bid.pc \in PassedBy(f) \/ f = "label"
    BY <1>1 DEF Filters, PassedBy, GroupPCs
  <1> HIDE DEF holds
  <1> QED BY <1>1, <1>2, <1>3, <1>6, <1>7, <1>8, FilterStep

LEMMA AdsKept ==
    ASSUME TypeOK, Remembered, bid' \in Bid, ReadAds
    PROVE  Remembered'
  <1>1. bid.pc = "ads" /\ bid.pc \in GroupPCs
    BY DEF ReadAds, GroupPCs
  <1>2. PICK g \in Groups : bid.group = g
    BY <1>1, TypeParts
  <1>3. PICK ok \in BOOLEAN :
          Read("ad", AdsKey(g), ok) /\ bid' = Filter(Members(AdsKey(g), ok) # {}, "price")
    BY <1>2 DEF ReadAds
  <1>4. data' = data /\ (Clean(AdsKey(g))' => ok)
    <2>1. bid'.known = bid.known
      BY <1>3, TypeParts DEF Filter, Pass, Skip, Bid
    <2> QED BY <1>3, <2>1, ReadFrame
  <1>5. ok => Members(AdsKey(g), ok) = data[AdsKey(g)]
    BY KeyKinds, TypeParts, MembersRead
  <1> DEFINE holds == Members(AdsKey(g), ok) # {}
  <1>6. holds => (Clean(AdsKey(g))' => data'[AdsKey(g)] # {})
    BY <1>4, <1>5
  <1>7. holds \in BOOLEAN /\ bid' = Filter(holds, "price")
    BY <1>3
  <1>8. \A f \in Filters : "price" \in PassedBy(f) => bid.pc \in PassedBy(f)
    BY <1>1 DEF Filters, PassedBy, GroupPCs
  <1> HIDE DEF holds
  <1> QED BY <1>1, <1>2, <1>3, <1>6, <1>7, <1>8, FilterStep

LEMMA PriceKept ==
    ASSUME TypeOK, Remembered, bid' \in Bid, ReadPrice
    PROVE  Remembered'
  <1>1. bid.pc = "price" /\ bid \in Bid
    BY TypeParts DEF ReadPrice
  <1>2. bid.pc \in GroupPCs /\ bid.pc \in GroupPhase
    BY <1>1 DEF GroupPCs, GroupPhase
  <1>3. PICK g \in Groups : bid.group = g
    BY <1>2, TypeParts
  <1>4. PICK ok \in BOOLEAN :
          /\ Read("ad", PriceKey(g), ok)
          /\ \/ bid' = [Skip EXCEPT !.offered = bid.offered \cup {bid.group}]
             \/ bid' = Skip
    BY <1>3 DEF ReadPrice
  <1>5. /\ bid'.pc = "group" /\ bid'.known = bid.known /\ bid'.pos = bid.pos
        /\ bid'.labels = bid.labels /\ bid'.list = bid.list
    <2>1. /\ Skip.pc = "group" /\ Skip.known = bid.known /\ Skip.pos = bid.pos
          /\ Skip.labels = bid.labels /\ Skip.list = bid.list
      BY <1>1 DEF Skip, Bid
    <2>2. CASE bid' = Skip
      BY <2>1, <2>2
    <2>3. CASE bid' = [Skip EXCEPT !.offered = bid.offered \cup {bid.group}]
      <3> DEFINE put == [Skip EXCEPT !.offered = bid.offered \cup {bid.group}]
      <3>1. /\ put.pc = Skip.pc /\ put.known = Skip.known /\ put.pos = Skip.pos
            /\ put.labels = Skip.labels /\ put.list = Skip.list
        BY <1>1 DEF Skip, Bid
      <3> QED BY <2>1, <2>3, <3>1
    <2> QED BY <1>4, <2>2, <2>3
  <1>6. Framed
    BY <1>4, <1>5, ReadFrame
  <1>7. Halfway' /\ bid'.pc \in GroupPhase /\ bid'.pc \notin GroupPCs
    BY <1>5 DEF Halfway, GroupPhase, GroupPCs
  <1>8. Connected'
    BY <1>4, ReadConnected DEF Remembered
  <1> QED BY <1>2, <1>5, <1>6, <1>7, <1>8, GroupStep

\* The one step that puts a group up, when the group has passed every filter.
LEMMA PriceFits ==
    ASSUME TypeOK, Remembered, ReadPrice, NEW g \in bid'.offered \ bid.offered,
           NEW f \in Filters, \A k \in KeysOf(f, g) : Reliable(k)
    PROVE  Fits(f, g)
  <1>1. bid.pc = "price" /\ bid \in Bid /\ bid.pc \in GroupPCs
    BY TypeParts DEF ReadPrice, GroupPCs
  <1>2. bid.group \in Groups
    BY <1>1, TypeParts
  <1>3. PICK ok \in BOOLEAN :
          /\ Read("ad", PriceKey(bid.group), ok)
          /\ bid' = IF Value(PriceKey(bid.group), <<0>>, ok)[1] > 0
                    THEN [Skip EXCEPT !.offered = bid.offered \cup {bid.group}] ELSE Skip
    BY DEF ReadPrice
  <1>4. Skip.offered = bid.offered /\ [Skip EXCEPT !.offered = bid.offered \cup {bid.group}].offered
                                        = bid.offered \cup {bid.group}
    BY <1>1 DEF Skip, Bid
  <1>5. g = bid.group /\ Value(PriceKey(bid.group), <<0>>, ok)[1] > 0
    BY <1>3, <1>4
  <1>6. g \in Groups /\ Value(PriceKey(g), <<0>>, ok)[1] > 0
    BY <1>2, <1>5
  <1>7. ok
    <2> SUFFICES ASSUME ~ok PROVE FALSE
      OBVIOUS
    <2>1. Value(PriceKey(g), <<0>>, ok) = <<0>>
      BY DEF Value
    <2> QED BY <1>6, <2>1
  <1>8. link["ad"]
    BY <1>3, <1>7 DEF Read
  <1>9. \A k \in KeysOf(f, g) : Clean(k)
    BY <1>8 DEF Remembered, Connected, Reliable, Clean
  <1>10. CASE f # "price"
    <2>1. bid.pc \in PassedBy(f)
      BY <1>1, <1>10 DEF Filters, PassedBy, GroupPCs
    <2>2. Held(f, g)
      BY <1>5, <1>6, <2>1 DEF Remembered, Chosen
    <2> QED BY <1>9, <2>2 DEF Held
  <1>11. CASE f = "price"
    <2>1. data[AdsKey(g)] # {}
      BY <1>1, <1>5, <1>6, <1>9, <1>11 DEF Remembered, Halfway, KeysOf
    <2>2. NumberAt(PriceKey(g), 0) = Value(PriceKey(g), <<0>>, ok)[1]
      BY <1>6, <1>7, KeyKinds, TypeParts, NumberRead
    <2> QED BY <1>6, <1>11, <2>1, <2>2 DEF Fits, FitsPrice
  <1> QED BY <1>10, <1>11

---------------------------------------------------------------------------
(* The steps before the groups.                                            *)

\* A request that has read nothing remembers nothing.
LEMMA NothingRead ==
    ASSUME NEW n, n = NoBid \/ (\E known \in BOOLEAN : n = [NoBid EXCEPT !.pc = "x", !.known = known])
                  \/ (\E b \in Bid : n = [NoBid EXCEPT !.pc = "done", !.known = b.known,
                                                     !.offered = b.offered])
    PROVE  n.pc \in {"idle", "x", "done"} /\ Elems(n.list) = {}
  <1>1. NoBid \in Bid /\ NoBid.list = <<>> /\ NoBid.pc = "idle"
    BY NoBidType DEF NoBid
  <1>2. n.list = <<>> /\ n.pc \in {"idle", "x", "done"}
    <2>1. CASE n = NoBid
      BY <1>1, <2>1
    <2>2. ASSUME NEW known, n = [NoBid EXCEPT !.pc = "x", !.known = known]
          PROVE  n.list = <<>> /\ n.pc = "x"
      BY <2>2 DEF NoBid
    <2>3. ASSUME NEW b, n = [NoBid EXCEPT !.pc = "done", !.known = b.known,
                                          !.offered = b.offered]
          PROVE  n.list = <<>> /\ n.pc = "done"
      BY <2>3 DEF NoBid
    <2> QED BY <2>1, <2>2, <2>3
  <1>3. Elems(<<>>) = {}
    BY <1>1, ElemsOf DEF Bid
  <1> QED BY <1>2, <1>3

LEMMA FreshStep ==
    ASSUME TypeOK, Remembered, Request \/ Done \/ Restart
    PROVE  Remembered'
  <1>1. bid'.pc \in {"idle", "x", "done"} /\ Elems(bid'.list) = {}
    BY NothingRead, TypeParts DEF Request, Done, Restart
  <1>2. missed' = {} \/ (missed' = missed /\ refused' = refused /\ link' = link /\ backend' = backend)
    BY DEF Request, Done, Restart, mdbVars
  <1>3. Connected'
    BY <1>2 DEF Remembered, Connected
  <1>4. Positions' /\ Listed' /\ UserLabels' /\ Halfway'
    BY <1>1 DEF Positions, Past, Listed, UserLabels, Halfway, GroupPhase, GroupPCs
  <1>5. Chosen'
    BY <1>1, PassedType DEF Chosen, GroupPCs
  <1> QED BY <1>3, <1>4, <1>5 DEF Remembered

\* Before the first group only the position and the lists are remembered.
LEMMA EarlyStep ==
    ASSUME Positions', Listed', Connected', bid'.pc \in {"y", "z", "space", "location", "merge", "labels"}
    PROVE  Remembered'
  <1>1. UserLabels' /\ Halfway'
    BY DEF UserLabels, Halfway, GroupPhase, GroupPCs
  <1>2. Chosen'
    BY PassedType DEF Chosen, GroupPCs
  <1> QED BY <1>1, <1>2 DEF Remembered

LEMMA KeepPositions ==
    ASSUME Remembered, Framed, bid'.pos = bid.pos, bid.pc \notin {"idle", "x", "y", "z", "done"}
    PROVE  Positions'
  <1> SUFFICES ASSUME NEW a \in Axes, Clean(PosKey(a))'
               PROVE  bid'.pos[a] = NumberAt(PosKey(a), 0)'
    BY DEF Positions
  <1>1. PosKey(a) \in Keys /\ Past(a)
    BY KeysNamed DEF Keys, Past
  <1>2. Clean(PosKey(a)) /\ data'[PosKey(a)] = data[PosKey(a)]
    BY <1>1 DEF Framed
  <1> QED BY <1>1, <1>2 DEF Remembered, Positions, NumberAt

\* Groups that were on a list rightly are on it rightly after the step.
LEMMA HeldElems ==
    ASSUME NEW f \in Filters, NEW S, S \subseteq Groups, \A g \in S : Held(f, g), Framed
    PROVE  \A g \in S : Held(f, g)'
  BY HeldFrame

LEMMA PositionKept ==
    ASSUME TypeOK, Remembered, ReadPosition
    PROVE  Remembered'
  <1>1. bid \in Bid
    BY TypeParts
  <1>2. PICK a \in Axes, ok \in BOOLEAN :
          /\ bid.pc = a
          /\ Read("user", PosKey(a), ok)
          /\ bid' = [bid EXCEPT !.pc = AfterAxis(a),
                                !.pos = [bid.pos EXCEPT ![a] = Value(PosKey(a), <<0>>, ok)[1]]]
    BY DEF ReadPosition
  <1>3. /\ bid'.known = bid.known /\ bid'.list = bid.list /\ bid'.pc = AfterAxis(a)
        /\ bid'.pos = [bid.pos EXCEPT ![a] = Value(PosKey(a), <<0>>, ok)[1]]
    BY <1>1, <1>2 DEF Bid
  <1>4. bid.pos \in [Axes -> Words \cup {0}]
    BY <1>1 DEF Bid
  <1>5. Framed /\ data' = data /\ (Clean(PosKey(a))' => ok)
    BY <1>2, <1>3, ReadFrame
  <1>6. Positions'
    <2> SUFFICES ASSUME NEW b \in Axes, Past(b)', Clean(PosKey(b))'
                 PROVE  bid'.pos[b] = NumberAt(PosKey(b), 0)'
      BY DEF Positions
    <2>1. CASE b = a
      <3>1. bid'.pos[b] = Value(PosKey(a), <<0>>, ok)[1]
        BY <1>3, <1>4, <2>1
      <3>2. Value(PosKey(a), <<0>>, ok)[1] = NumberAt(PosKey(a), 0)
        BY <1>5, <2>1, KeysNamed, TypeParts, NumberRead
      <3> QED BY <1>5, <2>1, <3>1, <3>2 DEF NumberAt
    <2>2. CASE b # a
      <3>1. bid'.pos[b] = bid.pos[b]
        BY <1>3, <1>4, <2>2
      <3>2. Past(b)
        BY <1>2, <1>3, <2>2 DEF Past, AfterAxis, Axes
      <3>3. Clean(PosKey(b)) /\ data'[PosKey(b)] = data[PosKey(b)]
        BY <1>5, KeysNamed DEF Framed, Keys
      <3> QED BY <3>1, <3>2, <3>3 DEF Remembered, Positions, NumberAt
    <2> QED BY <2>1, <2>2
  <1>7. bid'.pc \in {"y", "z", "space"}
    BY <1>3 DEF AfterAxis, Axes
  <1>8. Listed'
    <2>1. Elems(bid.list) \subseteq Groups
      BY <1>1, ElemsOf DEF Bid
    <2>2. \A g \in Elems(bid.list) : Held("space", g) /\ Held("location", g)
      BY DEF Remembered, Listed
    <2>3. \A g \in Elems(bid.list) : Held("space", g)' /\ Held("location", g)'
      BY <1>5, <2>1, <2>2, HeldElems DEF Filters
    <2> QED BY <1>3, <1>7, <2>3 DEF Listed
  <1>9. Connected'
    BY <1>2, ReadConnected DEF Remembered, UserKeys
  <1> QED BY <1>6, <1>7, <1>8, <1>9, EarlyStep

LEMMA SpaceKept ==
    ASSUME TypeOK, Remembered, ReadSpace
    PROVE  Remembered'
  <1>1. bid \in Bid /\ bid.pc = "space" /\ MdbTypeOK /\ GroupsOnly(data)
    BY TypeParts DEF ReadSpace
  <1>2. PICK ok \in BOOLEAN : \E s \in Lists(SpaceKey, ok) :
          /\ Read("ad", SpaceKey, ok)
          /\ bid' = IF bid.known THEN [bid EXCEPT !.pc = "location", !.space = Ids(s)]
                    ELSE [bid EXCEPT !.pc = "group", !.list = Ids(s)]
    BY DEF ReadSpace
  <1>3. PICK s \in Lists(SpaceKey, ok) :
          /\ Read("ad", SpaceKey, ok)
          /\ bid' = IF bid.known THEN [bid EXCEPT !.pc = "location", !.space = Ids(s)]
                    ELSE [bid EXCEPT !.pc = "group", !.list = Ids(s)]
    BY <1>2
  <1>4. PICK ids : ids = Ids(s)
    OBVIOUS
  <1>5. ids \in Seq(Groups) /\ Elems(ids) \subseteq StoredIds(SpaceKey)
    <2>1. Ids(s) \in Seq(Groups) /\ \A i \in 1..Len(Ids(s)) : Ids(s)[i] \in StoredIds(SpaceKey)
      BY <1>1, ListRead
    <2> QED BY <1>4, <2>1 DEF Elems
  <1>6. bid.known \in BOOLEAN /\ bid'.known = bid.known /\ bid'.pos = bid.pos
        /\ \/ bid.known /\ bid'.pc = "location" /\ bid'.space = ids /\ bid'.list = bid.list
           \/ ~bid.known /\ bid'.pc = "group" /\ bid'.list = ids
    BY <1>1, <1>3, <1>4 DEF Bid
  <1>7. Framed /\ data' = data
    BY <1>3, <1>6, ReadFrame
  <1>8. \A g \in Elems(ids) : g \in Groups /\ Held("space", g)'
    <2>1. \A g \in Elems(ids) : Held("space", g)'
      BY <1>5, <1>7 DEF Held, Fits, StoredIds
    <2> QED BY <1>5, <2>1, ElemsOf
  <1>9. Positions'
    BY <1>1, <1>6, <1>7, KeepPositions
  <1>10. Connected'
    BY <1>3, ReadConnected DEF Remembered
  <1>11. CASE bid.known
    <2>1. Elems(bid.list) \subseteq Groups
      BY <1>1, ElemsOf DEF Bid
    <2>2. \A g \in Elems(bid.list) : Held("space", g) /\ Held("location", g)
      BY DEF Remembered, Listed
    <2>3. \A g \in Elems(bid.list) : Held("space", g)' /\ Held("location", g)'
      BY <1>7, <2>1, <2>2, HeldElems DEF Filters
    <2>4. Listed'
      BY <1>6, <1>8, <1>11, <2>3 DEF Listed
    <2> QED BY <1>6, <1>9, <1>10, <1>11, <2>4, EarlyStep
  <1>12. CASE ~bid.known
    <2>1. \A g : Held("location", g)'
      BY <1>6, <1>12 DEF Held, Fits, FitsLocation
    <2>2. Listed'
      BY <1>6, <1>8, <1>12, <2>1 DEF Listed
    <2>3. UserLabels' /\ Halfway'
      BY <1>6, <1>12 DEF UserLabels, Halfway
    <2>4. Chosen'
      BY <1>6, <1>12, PassedType DEF Chosen, GroupPCs
    <2> QED BY <1>9, <1>10, <2>2, <2>3, <2>4 DEF Remembered
  <1> QED BY <1>6, <1>11, <1>12

LEMMA LocationKept ==
    ASSUME TypeOK, Remembered, ReadLocation
    PROVE  Remembered'
  <1>1. bid \in Bid /\ bid.pc = "location" /\ MdbTypeOK /\ GroupsOnly(data)
    BY TypeParts DEF ReadLocation
  <1> DEFINE key == CellKey(bid.pos)
  <1>2. PICK ok \in BOOLEAN : \E s \in Lists(key, ok) :
          /\ Read("ad", key, ok)
          /\ bid' = [bid EXCEPT !.pc = "merge", !.location = Ids(s)]
    BY DEF ReadLocation
  <1>3. PICK s \in Lists(key, ok) :
          /\ Read("ad", key, ok)
          /\ bid' = [bid EXCEPT !.pc = "merge", !.location = Ids(s)]
    BY <1>2
  <1>4. PICK ids : ids = Ids(s)
    OBVIOUS
  <1>5. ids \in Seq(Groups) /\ Elems(ids) \subseteq StoredIds(key)
    <2>1. Ids(s) \in Seq(Groups) /\ \A i \in 1..Len(Ids(s)) : Ids(s)[i] \in StoredIds(key)
      BY <1>1, ListRead
    <2> QED BY <1>4, <2>1 DEF Elems
  <1>6. /\ bid'.known = bid.known /\ bid'.pos = bid.pos /\ bid'.pc = "merge"
        /\ bid'.location = ids /\ bid'.space = bid.space /\ bid'.list = bid.list
    BY <1>1, <1>3, <1>4 DEF Bid
  <1>7. Framed /\ data' = data
    BY <1>3, <1>6, ReadFrame
  <1>8. ASSUME \A a \in Axes : Clean(PosKey(a))' PROVE bid.pos = Position'
    <2>1. \A a \in Axes : bid.pos[a] = NumberAt(PosKey(a), 0)
      <3> SUFFICES ASSUME NEW a \in Axes PROVE bid.pos[a] = NumberAt(PosKey(a), 0)
        OBVIOUS
      <3>1. Past(a) /\ Clean(PosKey(a))
        BY <1>1, <1>7, <1>8, KeysNamed DEF Past, Framed, Keys
      <3> QED BY <3>1 DEF Remembered, Positions
    <2>2. bid.pos = [a \in Axes |-> bid.pos[a]]
      BY <1>1 DEF Bid
    <2>3. bid.pos = Position
      BY <2>1, <2>2 DEF Position
    <2> QED BY <1>7, <2>3 DEF Position, NumberAt
  <1>9. \A g \in Elems(ids) : Held("location", g)'
    <2> SUFFICES ASSUME NEW g \in Elems(ids), \A a \in Axes : Clean(PosKey(a))'
                 PROVE  FitsLocation(bid.known, g)'
      BY <1>6 DEF Held, Fits, KeysOf, FitsLocation
    <2>1. key = CellKey(Position')
      BY <1>8
    <2>2. g \in StoredIds(key)
      BY <1>5
    <2> QED BY <1>7, <2>1, <2>2 DEF FitsLocation, StoredIds
  <1>10. Listed'
    <2>1. Elems(bid.list) \subseteq Groups /\ Elems(bid.space) \subseteq Groups
      BY <1>1, ElemsOf DEF Bid
    <2>2. /\ \A g \in Elems(bid.list) : Held("space", g) /\ Held("location", g)
          /\ \A g \in Elems(bid.space) : Held("space", g)
      BY <1>1 DEF Remembered, Listed
    <2>3. /\ \A g \in Elems(bid.list) : Held("space", g)' /\ Held("location", g)'
          /\ \A g \in Elems(bid.space) : Held("space", g)'
      BY <1>7, <2>1, <2>2, HeldElems DEF Filters
    <2> QED BY <1>6, <1>9, <2>3 DEF Listed
  <1>11. Positions'
    BY <1>1, <1>6, <1>7, KeepPositions
  <1>12. Connected'
    BY <1>3, ReadConnected DEF Remembered
  <1> QED BY <1>6, <1>10, <1>11, <1>12, EarlyStep

\* The merge keeps only what both lists had.
LEMMA MergeKept ==
    ASSUME TypeOK, Remembered, Merge
    PROVE  Remembered'
  <1>1. bid \in Bid /\ bid.pc = "merge"
    BY TypeParts DEF Merge
  <1>2. bid.space \in Seq(Groups) /\ bid.location \in Seq(Groups) /\ bid.list \in Seq(Groups)
    BY <1>1 DEF Bid
  <1>3. bid'.known = bid.known /\ bid'.pos = bid.pos /\ bid'.pc \in {"merge", "labels"}
    BY <1>1 DEF Merge, Bid
  <1>4. Framed
    BY <1>3 DEF Merge, Framed, Clean, mdbVars
  <1>5. /\ Elems(bid'.space) \subseteq Elems(bid.space) \/ bid'.pc # "merge"
        /\ Elems(bid'.location) \subseteq Elems(bid.location) \/ bid'.pc # "merge"
        /\ Elems(bid'.list) \subseteq Elems(bid.list) \cup (Elems(bid.space) \cap Elems(bid.location))
    <2>1. CASE bid.space = <<>> \/ bid.location = <<>>
      <3>1. bid'.pc = "labels" /\ bid'.list = bid.list
        BY <1>1, <2>1 DEF Merge, Bid
      <3> QED BY <3>1
    <2>2. CASE bid.space # <<>> /\ bid.location # <<>>
      <3> DEFINE m == Merged(bid.space, bid.location, bid.list)
      <3>1. bid' = [bid EXCEPT !.space = m.s, !.location = m.l, !.list = m.out]
        BY <2>2 DEF Merge
      <3>2. /\ m.s \in {bid.space, Tail(bid.space)} /\ m.l \in {bid.location, Tail(bid.location)}
            /\ \/ m.out = bid.list
               \/ m.out = Append(bid.list, Head(bid.space)) /\ Head(bid.space) = Head(bid.location)
        <4>1. Head(bid.space) \in Int /\ Head(bid.location) \in Int
          BY <1>2, <2>2, GroupsType
        <4> QED BY <4>1 DEF Merged
      <3> HIDE DEF m
      <3>3. bid'.space = m.s /\ bid'.location = m.l /\ bid'.list = m.out
        BY <1>1, <3>1 DEF Bid
      <3>4. /\ Head(bid.space) \in Elems(bid.space) /\ Elems(Tail(bid.space)) \subseteq Elems(bid.space)
            /\ Head(bid.location) \in Elems(bid.location)
            /\ Elems(Tail(bid.location)) \subseteq Elems(bid.location)
        BY <1>2, <2>2, ElemsOf
      <3>5. Head(bid.space) \in Groups
        BY <1>2, <2>2
      <3>6. Elems(Append(bid.list, Head(bid.space))) = Elems(bid.list) \cup {Head(bid.space)}
        BY <1>2, <3>5, ElemsOf
      <3>7. Elems(m.s) \subseteq Elems(bid.space) /\ Elems(m.l) \subseteq Elems(bid.location)
        BY <3>2, <3>4
      <3>8. Elems(m.out) \subseteq Elems(bid.list) \cup (Elems(bid.space) \cap Elems(bid.location))
        BY <3>2, <3>4, <3>6
      <3> QED BY <3>3, <3>7, <3>8
    <2> QED BY <2>1, <2>2
  <1>6. Listed'
    <2>1. /\ Elems(bid.space) \subseteq Groups /\ Elems(bid.location) \subseteq Groups
          /\ Elems(bid.list) \subseteq Groups
      BY <1>2, ElemsOf
    <2>2. /\ \A g \in Elems(bid.space) : Held("space", g)
          /\ \A g \in Elems(bid.location) : Held("location", g)
          /\ \A g \in Elems(bid.list) : Held("space", g) /\ Held("location", g)
      BY <1>1 DEF Remembered, Listed
    <2>3. /\ \A g \in Elems(bid.space) : Held("space", g)'
          /\ \A g \in Elems(bid.location) : Held("location", g)'
          /\ \A g \in Elems(bid.list) : Held("space", g)' /\ Held("location", g)'
      BY <1>4, <2>1, <2>2, HeldElems DEF Filters
    <2> QED BY <1>3, <1>5, <2>3 DEF Listed
  <1>7. Positions'
    BY <1>1, <1>3, <1>4, KeepPositions
  <1>8. Connected'
    BY DEF Merge, mdbVars, Remembered, Connected
  <1> QED BY <1>3, <1>6, <1>7, <1>8, EarlyStep

LEMMA LabelsKept ==
    ASSUME TypeOK, Remembered, ReadLabels
    PROVE  Remembered'
  <1>1. bid \in Bid /\ bid.pc = "labels" /\ MdbTypeOK
    BY TypeParts DEF ReadLabels
  <1>2. PICK ok \in BOOLEAN :
          /\ Read("ad", LabelsKey, ok)
          /\ bid' = [bid EXCEPT !.pc = "group",
                        !.labels = IF ok THEN {e.field : e \in Hget(backend, data, LabelsKey)} ELSE {}]
    BY DEF ReadLabels
  <1>3. /\ bid'.known = bid.known /\ bid'.pos = bid.pos /\ bid'.pc = "group" /\ bid'.list = bid.list
        /\ ok => bid'.labels = {e.field : e \in data[LabelsKey]}
    <2>1. {e.field : e \in Hget(backend, data, LabelsKey)} = {e.field : e \in data[LabelsKey]}
      BY <1>1, KeysNamed, HashRead
    <2> QED BY <1>1, <1>2, <2>1 DEF Bid
  <1>4. Framed /\ data' = data /\ (Clean(LabelsKey)' => ok)
    BY <1>2, <1>3, ReadFrame
  <1>5. UserLabels'
    BY <1>3, <1>4 DEF UserLabels
  <1>6. Listed'
    <2>1. Elems(bid.list) \subseteq Groups
      BY <1>1, ElemsOf DEF Bid
    <2>2. \A g \in Elems(bid.list) : Held("space", g) /\ Held("location", g)
      BY DEF Remembered, Listed
    <2>3. \A g \in Elems(bid.list) : Held("space", g)' /\ Held("location", g)'
      BY <1>4, <2>1, <2>2, HeldElems DEF Filters
    <2> QED BY <1>3, <2>3 DEF Listed
  <1>7. Positions'
    BY <1>1, <1>3, <1>4, KeepPositions
  <1>8. Halfway'
    BY <1>3 DEF Halfway
  <1>9. Chosen'
    BY <1>3, PassedType DEF Chosen, GroupPCs
  <1>10. Connected'
    BY <1>2, ReadConnected DEF Remembered
  <1> QED BY <1>5, <1>6, <1>7, <1>8, <1>9, <1>10 DEF Remembered

---------------------------------------------------------------------------
(* All steps.                                                              *)

\* What the worker remembers survives the steps of the other programs.
LEMMA OtherKept ==
    ASSUME TypeOK, Remembered, Other \/ OtherRestart
    PROVE  Remembered'
  <1>1. Framed /\ bid' = bid /\ Connected'
    BY OtherFrame DEF Remembered
  <1>2. bid \in Bid
    BY TypeParts
  <1>3. \A k \in Keys : Clean(k)' => Clean(k) /\ data'[k] = data[k]
    BY <1>1 DEF Framed
  <1>4. Positions'
    <2> SUFFICES ASSUME NEW a \in Axes, Past(a), Clean(PosKey(a))'
                 PROVE  bid.pos[a] = NumberAt(PosKey(a), 0)'
      BY <1>1 DEF Positions, Past
    <2>1. Clean(PosKey(a)) /\ data'[PosKey(a)] = data[PosKey(a)]
      BY <1>3, KeysNamed DEF Keys
    <2> QED BY <2>1 DEF Remembered, Positions, NumberAt
  <1>5. Listed'
    <2>1. /\ Elems(bid.list) \subseteq Groups /\ Elems(bid.space) \subseteq Groups
          /\ Elems(bid.location) \subseteq Groups
      BY <1>2, ElemsOf DEF Bid
    <2>2. \A g \in Elems(bid.list) : Held("space", g) /\ Held("location", g)
      BY DEF Remembered, Listed
    <2>3. \A g \in Elems(bid.list) : Held("space", g)' /\ Held("location", g)'
      BY <1>1, <2>1, <2>2, HeldElems DEF Filters
    <2>4. ASSUME bid.pc \in {"location", "merge"}
          PROVE  \A g \in Elems(bid.space) : Held("space", g)'
      <3>1. \A g \in Elems(bid.space) : Held("space", g)
        BY <2>4 DEF Remembered, Listed
      <3> QED BY <1>1, <2>1, <3>1, HeldElems DEF Filters
    <2>5. ASSUME bid.pc = "merge"
          PROVE  \A g \in Elems(bid.location) : Held("location", g)'
      <3>1. \A g \in Elems(bid.location) : Held("location", g)
        BY <2>5 DEF Remembered, Listed
      <3> QED BY <1>1, <2>1, <3>1, HeldElems DEF Filters
    <2> QED BY <1>1, <2>3, <2>4, <2>5 DEF Listed
  <1>6. UserLabels'
    <2>1. LabelsKey \in Keys
      BY KeysNamed DEF Keys
    <2> QED BY <1>1, <1>3, <2>1 DEF Remembered, UserLabels
  <1>7. Chosen'
    <2> SUFFICES ASSUME NEW f \in Filters, NEW g \in Groups, bid'.group = g, bid'.pc \in PassedBy(f)
                 PROVE  Held(f, g)'
      BY DEF Chosen
    <2>1. bid.group = g /\ bid.pc \in PassedBy(f)
      BY <1>1
    <2> QED BY <1>1, <2>1, KeepChosen
  <1>8. Halfway'
    <2> SUFFICES ASSUME NEW g \in Groups, bid.group = g
                 PROVE  /\ bid.pc = "usershop" =>
                              /\ bid.known
                              /\ Clean(ShopsKey(g))' => bid.shops = ShopsOf(g)'
                              /\ \E first \in bid.shops : bid.reverse = (first < 0)
                        /\ bid.pc = "end" /\ Clean(StartKey(g))' =>
                              IF data'[StartKey(g)] = Absent THEN bid.start = Absent
                              ELSE bid.start # Absent /\ bid.start[1] = data'[StartKey(g)][1]
                        /\ bid.pc = "price" /\ Clean(AdsKey(g))' => data'[AdsKey(g)] # {}
      BY <1>1 DEF Halfway
    <2>1. ShopsKey(g) \in Keys /\ StartKey(g) \in Keys /\ AdsKey(g) \in Keys
      BY KeysNamed DEF Keys
    <2>2. Halfway
      BY DEF Remembered
    <2>3. ASSUME bid.pc = "usershop"
          PROVE  /\ bid.known
                 /\ Clean(ShopsKey(g))' => bid.shops = ShopsOf(g)'
                 /\ \E first \in bid.shops : bid.reverse = (first < 0)
      <3>1. bid.known /\ \E first \in bid.shops : bid.reverse = (first < 0)
        BY <2>2, <2>3 DEF Halfway
      <3>2. ASSUME Clean(ShopsKey(g))' PROVE bid.shops = ShopsOf(g)'
        <4>1. Clean(ShopsKey(g)) /\ data'[ShopsKey(g)] = data[ShopsKey(g)]
          BY <1>3, <2>1, <3>2
        <4> QED BY <2>2, <2>3, <4>1 DEF Halfway, ShopsOf
      <3> QED BY <3>1, <3>2
    <2>4. ASSUME bid.pc = "end", Clean(StartKey(g))'
          PROVE  IF data'[StartKey(g)] = Absent THEN bid.start = Absent
                 ELSE bid.start # Absent /\ bid.start[1] = data'[StartKey(g)][1]
      <3>1. Clean(StartKey(g)) /\ data'[StartKey(g)] = data[StartKey(g)]
        BY <1>3, <2>1, <2>4
      <3> QED BY <2>2, <2>4, <3>1 DEF Halfway
    <2>5. ASSUME bid.pc = "price", Clean(AdsKey(g))' PROVE data'[AdsKey(g)] # {}
      BY <1>3, <2>1, <2>2, <2>5 DEF Halfway
    <2> QED BY <2>3, <2>4, <2>5
  <1> QED BY <1>1, <1>4, <1>5, <1>6, <1>7, <1>8 DEF Remembered

\* A worker that was just started remembers nothing.
LEMMA InitRemembered == Init => Remembered
  <1> SUFFICES ASSUME Init PROVE Remembered
    OBVIOUS
  <1>1. bid.pc \in {"idle", "x", "done"} /\ Elems(bid.list) = {} /\ missed = {}
    BY NothingRead DEF Init
  <1>2. Positions /\ Listed /\ UserLabels /\ Halfway /\ Connected
    BY <1>1 DEF Positions, Past, Listed, UserLabels, Halfway, GroupPhase, GroupPCs, Connected
  <1>3. Chosen
    BY <1>1, PassedType DEF Chosen, GroupPCs
  <1> QED BY <1>2, <1>3 DEF Remembered

LEMMA StepRemembered == TypeOK /\ TypeOK' /\ Remembered /\ [Next]_vars => Remembered'
  <1> SUFFICES ASSUME TypeOK, TypeOK', Remembered, [Next]_vars PROVE Remembered'
    OBVIOUS
  <1>1. bid' \in Bid
    BY DEF TypeOK, Bid
  <1>2. CASE Request \/ Done \/ Restart
    BY <1>2, FreshStep
  <1>3. CASE ReadPosition \/ ReadSpace \/ ReadLocation
    BY <1>3, PositionKept, SpaceKept, LocationKept
  <1>4. CASE Merge \/ ReadLabels
    BY <1>4, MergeKept, LabelsKept
  <1>5. CASE ReadShops \/ ReadUserShop
    BY <1>1, <1>5, ShopsKept, UserShopKept
  <1>6. CASE ReadValid \/ ReadStart \/ ReadEnd
    BY <1>1, <1>6, ValidKept, StartKept, EndKept
  <1>7. CASE ReadCron \/ ReadTargets
    BY <1>1, <1>7, CronKept, TargetsKept
  <1>8. CASE ReadAds \/ ReadPrice
    BY <1>1, <1>8, AdsKept, PriceKept
  <1>9. CASE Other \/ OtherRestart
    BY <1>9, OtherKept
  <1>10. CASE UNCHANGED vars
    <2>1. bid' = bid /\ edited' = edited /\ missed' = missed /\ data' = data /\ link' = link
          /\ backend' = backend /\ refused' = refused
      BY <1>10 DEF vars, mdbVars
    <2>2. Positions' /\ Connected'
      BY <2>1 DEF Remembered, Positions, Past, Clean, NumberAt, Connected
    <2>3. \A f, g : Held(f, g)' <=> Held(f, g)
      BY <2>1 DEF Held, Clean, Fits, FitsLocation, FitsShop, FitsCron, FitsLabels, FitsPrice,
                  StoredIds, NumberAt, Position, ShopsOf, UserShop
    <2>4. Listed' /\ Chosen'
      BY <2>1, <2>3 DEF Remembered, Listed, Chosen
    <2>5. UserLabels' /\ Halfway'
      BY <2>1 DEF Remembered, UserLabels, Halfway, Clean, ShopsOf
    <2> QED BY <2>2, <2>4, <2>5 DEF Remembered
  <1> QED BY <1>2, <1>3, <1>4, <1>5, <1>6, <1>7, <1>8, <1>9, <1>10 DEF Next

\* At every moment what the request remembers is what the data says, of
\* everything it has read from keys that are still clean.
THEOREM RemembersRight == Spec => []Remembered
  <1>1. TypeOK /\ TypeOK' /\ Remembered /\ [Next]_vars => Remembered'
    BY StepRemembered
  <1> QED BY <1>1, InitRemembered, TypeCorrect, PTL DEF Spec

\* What OfferedFits says of a step that puts up g.
LEMMA FitStep ==
    ASSUME TypeOK, Remembered, Next, NEW g \in bid'.offered \ bid.offered, NEW f \in Filters,
           \A k \in KeysOf(f, g) : Reliable(k)
    PROVE  Fits(f, g)
  <1>1. ReadPrice
    BY OnlyPriceOffers
  <1> QED BY <1>1, PriceFits

\* Whatever groups, data and commands there are, bidding puts up no group that
\* a filter rules out by keys that could be relied on: OfferedFits of every run.
THEOREM OffersFit == Spec => OfferedFits
  <1>1. TypeOK /\ Remembered /\ [Next]_vars
          => [\A g \in bid'.offered \ bid.offered : \A f \in Filters :
                 (\A k \in KeysOf(f, g) : Reliable(k)) => Fits(f, g)]_vars
    BY FitStep
  <1> QED BY <1>1, RemembersRight, TypeCorrect, PTL DEF Spec, OfferedFits

---------------------------------------------------------------------------
(* No group is missed.                                                     *)

Rising(s) == \A i, j \in 1..Len(s) : i < j => s[i] <= s[j]

\* What NoneMissed asks of a request, and of a group.
Undisturbed ==
    /\ edited = {} /\ missed = {}
    /\ backend = "TAIR" \/ whole
    /\ bid.known => Sorted(SpaceKey) /\ Sorted(CellKey(Position))
Wanted(g) == (\A f \in Filters : Fits(f, g)) /\ Uniform(ShopsOf(g)) /\ CronSure(g)

\* Where a group is that fits.
InPlay(g) ==
    /\ bid.pc = "location" => g \in Elems(bid.space)
    /\ bid.pc = "merge" => g \in Elems(bid.list) \cup (Elems(bid.space) \cap Elems(bid.location))
    /\ bid.pc = "labels" => g \in Elems(bid.list)
    /\ bid.pc \in GroupPhase => \/ g \in Elems(bid.list) \cup bid.offered
                                \/ bid.pc \in GroupPCs /\ bid.group = g
    /\ bid.pc = "done" => g \in bid.offered

AllInPlay ==
    Undisturbed =>
        /\ bid.pc \in {"location", "merge"} => bid.known /\ Rising(bid.space)
        /\ bid.pc = "merge" => Rising(bid.location)
        /\ \A g \in Groups : Wanted(g) => InPlay(g)

\* The members of a sequence are its head and those of its tail.
LEMMA HeadOrTail ==
    ASSUME NEW S, NEW s \in Seq(S), s # <<>>
    PROVE  Elems(s) = {Head(s)} \cup Elems(Tail(s))
  <1>1. /\ Len(s) \in Nat /\ Len(s) >= 1 /\ Head(s) = s[1] /\ Len(Tail(s)) = Len(s) - 1
    OBVIOUS
  <1>2. \A i \in 1..Len(Tail(s)) : Tail(s)[i] = s[i + 1] /\ i + 1 \in 1..Len(s)
    BY <1>1
  <1>3. ASSUME NEW i \in 1..Len(s), i # 1 PROVE s[i] \in Elems(Tail(s))
    <2>1. i - 1 \in 1..Len(Tail(s)) /\ (i - 1) + 1 = i
      BY <1>1, <1>3
    <2>2. Tail(s)[i - 1] = s[i]
      BY <1>2, <2>1
    <2> QED BY <2>1, <2>2 DEF Elems
  <1>4. Elems(s) \subseteq {Head(s)} \cup Elems(Tail(s))
    BY <1>1, <1>3 DEF Elems
  <1>5. Head(s) \in Elems(s) /\ Elems(Tail(s)) \subseteq Elems(s)
    BY ElemsOf
  <1> QED BY <1>4, <1>5

\* The head of a rising sequence is its least member, and the tail rises.
LEMMA RisingTail ==
    ASSUME NEW S, S \subseteq Int, NEW s \in Seq(S), s # <<>>, Rising(s)
    PROVE  Rising(Tail(s)) /\ \A g \in Elems(s) : Head(s) <= g
  <1>1. /\ Len(s) \in Nat /\ Len(s) >= 1 /\ Head(s) = s[1] /\ Len(Tail(s)) = Len(s) - 1
    OBVIOUS
  <1>2. \A i \in 1..Len(Tail(s)) : Tail(s)[i] = s[i + 1] /\ i + 1 \in 1..Len(s)
    BY <1>1
  <1>3. Rising(Tail(s))
    <2> SUFFICES ASSUME NEW i \in 1..Len(Tail(s)), NEW j \in 1..Len(Tail(s)), i < j
                 PROVE  Tail(s)[i] <= Tail(s)[j]
      BY DEF Rising
    <2>1. s[i + 1] <= s[j + 1]
      BY <1>2 DEF Rising
    <2> QED BY <1>2, <2>1
  <1>4. ASSUME NEW g \in Elems(s) PROVE Head(s) <= g
    <2>1. PICK i \in 1..Len(s) : g = s[i]
      BY DEF Elems
    <2>2. 1 \in 1..Len(s) /\ s[1] \in S /\ s[i] \in S
      BY <1>1, <2>1
    <2>3. i # 1 => s[1] <= s[i]
      BY <1>1, <2>2 DEF Rising
    <2>4. s[1] \in Int /\ s[i] \in Int
      BY <2>2
    <2> QED BY <1>1, <2>1, <2>3, <2>4
  <1> QED BY <1>3, <1>4

\* A round of the merge drops no id that both lists hold.
LEMMA MergedKeeps ==
    ASSUME NEW s \in Seq(Groups), NEW l \in Seq(Groups), NEW out \in Seq(Groups),
           s # <<>>, l # <<>>, Rising(s), Rising(l)
    PROVE  LET m == Merged(s, l, out)
           IN  /\ Rising(m.s) /\ Rising(m.l)
               /\ Elems(out) \cup (Elems(s) \cap Elems(l))
                     \subseteq Elems(m.out) \cup (Elems(m.s) \cap Elems(m.l))
  <1> DEFINE m == Merged(s, l, out)
  <1>1. Groups \subseteq Int
    BY GroupsType
  <1>2. /\ Rising(Tail(s)) /\ Rising(Tail(l))
        /\ \A h \in Elems(s) : Head(s) <= h
        /\ \A h \in Elems(l) : Head(l) <= h
    BY <1>1, RisingTail
  <1>3. Elems(s) = {Head(s)} \cup Elems(Tail(s)) /\ Elems(l) = {Head(l)} \cup Elems(Tail(l))
    BY HeadOrTail
  <1>4. Head(s) \in Groups /\ Head(l) \in Groups /\ Head(s) \in Int /\ Head(l) \in Int
    <2>1. Head(s) \in Groups /\ Head(l) \in Groups
      OBVIOUS
    <2> QED BY <1>1, <2>1
  <1>5. Elems(Append(out, Head(s))) = Elems(out) \cup {Head(s)}
    BY <1>4, ElemsOf
  <1>6. CASE Head(s) < Head(l)
    <2>1. m.s = Tail(s) /\ m.l = l /\ m.out = out
      BY <1>6 DEF Merged
    <2>2. Head(s) \notin Elems(l)
      BY <1>2, <1>4, <1>6
    <2> QED BY <1>2, <1>3, <2>1, <2>2
  <1>7. CASE Head(l) < Head(s)
    <2>1. m.s = s /\ m.l = Tail(l) /\ m.out = out
      BY <1>4, <1>7 DEF Merged
    <2>2. Head(l) \notin Elems(s)
      BY <1>2, <1>4, <1>7
    <2> QED BY <1>2, <1>3, <2>1, <2>2
  <1>8. CASE Head(s) = Head(l)
    <2>1. m.s = Tail(s) /\ m.l = Tail(l) /\ m.out = Append(out, Head(s))
      BY <1>4, <1>8 DEF Merged
    <2> QED BY <1>2, <1>3, <1>5, <1>8, <2>1
  <1> QED BY <1>4, <1>6, <1>7, <1>8

\* A read of a sorted set that is answered lists all its ids, and lists them
\* rising if their scores rise with them.
LEMMA ListComplete ==
    ASSUME MdbTypeOK, GroupsOnly(data), backend = "TAIR" \/ whole, NEW k, NEW s \in Lists(k, TRUE)
    PROVE  /\ StoredIds(k) \subseteq Elems(Ids(s))
           /\ Sorted(k) => Rising(Ids(s))
  <1> DEFINE z == Stored(data, k)
             n == Cardinality(z)
  <1>1. Zmembers(backend, data, k, whole) = z
    BY EntriesRead DEF Zmembers, RedisZmembers, TairZmembers, MdbTypeOK
  <1>2. IsFiniteSet(z) /\ \A e \in z : e.member[1] \in Groups /\ e.score \in Int
    BY FS_EmptySet DEF MdbTypeOK, DataOK, Stored, GroupsOnly, Entry
  <1>3. s \in Listings(z)
    BY <1>1 DEF Lists
  <1> HIDE DEF z
  <1>4. n \in Nat
    BY <1>2, FS_CardinalityType
  <1>5. /\ s \in [1..n -> z]
        /\ \A i, j \in 1..n : i < j => s[i] # s[j] /\ s[i].score <= s[j].score
    BY <1>3 DEF Listings
  <1>6. IsFiniteSet(1..n) /\ Cardinality(1..n) = n
    BY <1>4, FS_Interval
  <1>7. s \in Injection(1..n, z)
    <2>1. \A i, j \in 1..n : s[i] = s[j] => i = j
      BY <1>4, <1>5
    <2> QED BY <1>5, <2>1 DEF Injection, IsInjective
  <1>8. s \in Surjection(1..n, z)
    BY <1>2, <1>6, <1>7, FS_Injection
  <1> HIDE DEF n
  <1>9. \A e \in z : \E i \in 1..n : s[i] = e
    BY <1>8 DEF Surjection
  <1>10. Ids(s) = [i \in 1..n |-> s[i].member[1]] /\ Len(Ids(s)) = n
    BY <1>4, <1>5 DEF Ids
  <1>11. StoredIds(k) \subseteq Elems(Ids(s))
    <2> SUFFICES ASSUME NEW e \in z PROVE e.member[1] \in Elems(Ids(s))
      BY DEF StoredIds, z
    <2>1. PICK i \in 1..n : s[i] = e
      BY <1>9
    <2>2. Ids(s)[i] = e.member[1] /\ i \in 1..Len(Ids(s))
      BY <1>10, <2>1
    <2> QED BY <2>2 DEF Elems
  <1>12. ASSUME Sorted(k) PROVE Rising(Ids(s))
    <2> SUFFICES ASSUME NEW i \in 1..n, NEW j \in 1..n, i < j
                 PROVE  Ids(s)[i] <= Ids(s)[j]
      BY <1>10 DEF Rising
    <2>1. s[i] \in z /\ s[j] \in z /\ s[i].score <= s[j].score
      BY <1>5
    <2>2. /\ s[i].member[1] \in Int /\ s[j].member[1] \in Int
          /\ s[i].score \in Int /\ s[j].score \in Int
      BY <1>2, <2>1, GroupsType
    <2>3. s[j].member[1] < s[i].member[1] => s[j].score < s[i].score
      BY <1>12, <2>1 DEF Sorted, z
    <2>4. s[i].member[1] <= s[j].member[1]
      BY <2>1, <2>2, <2>3
    <2> QED BY <1>10, <2>4
  <1> QED BY <1>11, <1>12

---------------------------------------------------------------------------
(* A group stays in play.                                                  *)

\* What is said of a group depends on the data, not on the connections.
LEMMA SameWanted ==
    ASSUME data' = data, backend' = backend, whole' = whole, edited' = edited,
           bid'.known = bid.known
    PROVE  /\ Undisturbed' /\ missed = {} => Undisturbed
           /\ \A g : Wanted(g)' <=> Wanted(g)
  <1>1. Position' = Position
    BY DEF Position, NumberAt
  <1>2. Undisturbed' /\ missed = {} => Undisturbed
    BY <1>1 DEF Undisturbed, Sorted, CellKey
  <1>3. \A f, g : Fits(f, g)' <=> Fits(f, g)
    BY DEF Fits, FitsLocation, FitsShop, FitsCron, FitsLabels, FitsPrice,
           StoredIds, NumberAt, Position, ShopsOf, UserShop
  <1> QED BY <1>2, <1>3 DEF Wanted, ShopsOf, CronSure

\* A read in an undisturbed request is answered, and changes nothing that the
\* groups depend on.
LEMMA UndisturbedStep ==
    ASSUME NEW c, NEW k, NEW ok \in BOOLEAN, Read(c, k, ok), bid'.known = bid.known, Undisturbed'
    PROVE  /\ ok /\ Undisturbed /\ data' = data
           /\ \A g : Wanted(g)' <=> Wanted(g)
  <1>1. /\ data' = data /\ backend' = backend /\ whole' = whole /\ edited' = edited
        /\ missed' = IF ok THEN missed ELSE missed \cup {k}
    BY DEF Read
  <1>2. edited = {} /\ missed' = {} /\ (backend = "TAIR" \/ whole)
    BY <1>1 DEF Undisturbed
  <1>3. ok /\ missed = {}
    BY <1>1, <1>2
  <1>5. Undisturbed /\ \A g : Wanted(g)' <=> Wanted(g)
    BY <1>1, <1>3, SameWanted
  <1> QED BY <1>1, <1>3, <1>5

\* It is enough to look at one group that fits, in one step that reads.
LEMMA ReadPlays ==
    ASSUME AllInPlay, NEW c, NEW k, NEW ok \in BOOLEAN, Read(c, k, ok), bid'.known = bid.known,
           Undisturbed' => /\ bid'.pc \in {"location", "merge"} => bid.known /\ Rising(bid'.space)
                           /\ bid'.pc = "merge" => Rising(bid'.location),
           \A g \in Groups : ok /\ Undisturbed /\ Wanted(g) /\ InPlay(g) => InPlay(g)'
    PROVE  AllInPlay'
  <1> SUFFICES ASSUME Undisturbed', NEW g \in Groups, Wanted(g)' PROVE InPlay(g)'
    BY DEF AllInPlay
  <1>1. ok /\ Undisturbed /\ Wanted(g)
    BY UndisturbedStep
  <1>2. InPlay(g)
    BY <1>1 DEF AllInPlay
  <1> QED BY <1>1, <1>2

\* A filter keeps the group in play if it passes whenever it fits.
LEMMA FilterPlays ==
    ASSUME TypeOK, AllInPlay, bid.pc \in GroupPCs,
           NEW c, NEW k, NEW ok \in BOOLEAN, Read(c, k, ok),
           NEW holds \in BOOLEAN, NEW loc \in GroupPCs, bid' = Filter(holds, loc),
           ok /\ Undisturbed /\ Wanted(bid.group) => holds
    PROVE  AllInPlay'
  <1>1. bid \in Bid
    BY TypeParts
  <1>2. /\ bid'.known = bid.known /\ bid'.list = bid.list /\ bid'.offered = bid.offered
        /\ \/ holds /\ bid'.pc = loc /\ bid'.group = bid.group
           \/ ~holds /\ bid'.pc = "group"
    BY <1>1 DEF Filter, Pass, Skip, Bid
  <1>3. ASSUME NEW g \in Groups, ok, Undisturbed, Wanted(g), InPlay(g) PROVE InPlay(g)'
    <2>1. g \in Elems(bid.list) \cup bid.offered \/ bid.group = g
      BY <1>3 DEF InPlay, GroupPhase
    <2>2. bid.group = g => bid'.pc = loc /\ bid'.group = g
      BY <1>2, <1>3
    <2>3. bid'.pc \in GroupPhase
      BY <1>2 DEF GroupPhase
    <2> QED BY <1>2, <2>1, <2>2, <2>3 DEF InPlay, GroupPhase, GroupPCs
  <1>4. bid'.pc \notin {"location", "merge"}
    BY <1>2 DEF GroupPCs
  <1> QED BY <1>2, <1>3, <1>4, ReadPlays

\* A shop that fits is let in whichever member of the set comes first, if all
\* have one sign.
LEMMA UserShopPlays ==
    ASSUME TypeOK, Remembered, AllInPlay, ReadUserShop
    PROVE  AllInPlay'
  <1>1. PICK ok \in BOOLEAN :
          /\ Read("user", UserShopKey, ok)
          /\ bid' = Filter(ShopFits(Value(UserShopKey, <<0>>, ok)[1], bid.shops, bid.reverse), "valid")
    BY DEF ReadUserShop
  <1>2. bid.pc = "usershop" /\ bid.pc \in GroupPCs /\ "valid" \in GroupPCs
    BY DEF ReadUserShop, GroupPCs
  <1>3. PICK g \in Groups : bid.group = g
    BY <1>2, TypeParts
  <1>4. PICK shop : shop = Value(UserShopKey, <<0>>, ok)[1]
    OBVIOUS
  <1>5. ok => shop = UserShop
    BY <1>4, KeysNamed, TypeParts, NumberRead DEF UserShop
  <1>6. bid.known /\ (Clean(ShopsKey(g)) => bid.shops = ShopsOf(g))
        /\ \E first \in bid.shops : bid.reverse = (first < 0)
    BY <1>2, <1>3 DEF Remembered, Halfway
  <1> DEFINE holds == ShopFits(shop, bid.shops, bid.reverse)
  <1>7. bid.reverse \in BOOLEAN /\ bid.shops \subseteq Int
    BY TypeParts, WordsType DEF Bid
  <1>8. holds \in BOOLEAN /\ bid' = Filter(holds, "valid")
    BY <1>1, <1>4, <1>7 DEF ShopFits
  <1>9. ASSUME ok, Undisturbed, Wanted(g) PROVE holds
    <2>1. bid.shops = ShopsOf(g) /\ shop = UserShop
      BY <1>5, <1>6, <1>9 DEF Undisturbed, Clean
    <2>2. FitsShop(TRUE, g) /\ Uniform(ShopsOf(g))
      BY <1>6, <1>9 DEF Wanted, Fits, Filters, FitsShop
    <2>3. PICK first \in ShopsOf(g) : bid.reverse = (first < 0)
      BY <1>6, <2>1
    <2>4. ShopsOf(g) # {} /\ ShopsOf(g) \subseteq Int
      BY <1>7, <2>1, <2>3
    <2>5. CASE \A s \in ShopsOf(g) : s >= 0
      <3>1. ~(first < 0) /\ shop > 0 /\ shop \in ShopsOf(g)
        BY <2>1, <2>2, <2>4, <2>5 DEF FitsShop
      <3> QED BY <1>7, <2>1, <2>3, <3>1 DEF ShopFits
    <2>6. CASE \A s \in ShopsOf(g) : s < 0
      <3>1. first < 0 /\ (shop > 0 => -shop \notin ShopsOf(g))
        BY <2>1, <2>2, <2>6 DEF FitsShop
      <3> QED BY <1>7, <2>1, <2>3, <3>1 DEF ShopFits
    <2> QED BY <2>2, <2>5, <2>6 DEF Uniform
  <1> HIDE DEF holds
  <1> QED BY <1>1, <1>2, <1>3, <1>8, <1>9, FilterPlays

LEMMA ValidPlays ==
    ASSUME TypeOK, AllInPlay, ReadValid
    PROVE  AllInPlay'
  <1>1. bid.pc \in GroupPCs /\ "start" \in GroupPCs
    BY DEF ReadValid, GroupPCs
  <1>2. PICK g \in Groups : bid.group = g
    BY <1>1, TypeParts
  <1>3. PICK ok \in BOOLEAN :
          Read("ad", ValidKey(g), ok) /\ bid' = Filter(Value(ValidKey(g), <<1>>, ok)[1] # 0, "start")
    BY <1>2 DEF ReadValid
  <1>4. ok => Value(ValidKey(g), <<1>>, ok)[1] = NumberAt(ValidKey(g), 1)
    BY KeyKinds, TypeParts, NumberRead
  <1> DEFINE holds == Value(ValidKey(g), <<1>>, ok)[1] # 0
  <1>5. ok /\ Undisturbed /\ Wanted(bid.group) => holds
    <2>1. Wanted(g) => NumberAt(ValidKey(g), 1) # 0
      BY DEF Wanted, Fits, Filters
    <2> QED BY <1>2, <1>4, <2>1
  <1>6. holds \in BOOLEAN /\ bid' = Filter(holds, "start")
    BY <1>3
  <1> HIDE DEF holds
  <1> QED BY <1>1, <1>3, <1>5, <1>6, FilterPlays

LEMMA StartPlays ==
    ASSUME TypeOK, AllInPlay, ReadStart
    PROVE  AllInPlay'
  <1>1. bid.pc = "start" /\ bid \in Bid
    BY TypeParts DEF ReadStart
  <1>2. PICK ok \in BOOLEAN :
          /\ Read("ad", StartKey(bid.group), ok)
          /\ bid' = [bid EXCEPT !.pc = "end", !.start = Value(StartKey(bid.group), Absent, ok)]
    BY DEF ReadStart
  <1>3. /\ bid'.pc = "end" /\ bid'.known = bid.known /\ bid'.list = bid.list
        /\ bid'.group = bid.group /\ bid'.offered = bid.offered
    BY <1>1, <1>2 DEF Bid
  <1>4. \A g \in Groups : InPlay(g) => InPlay(g)'
    BY <1>1, <1>3 DEF InPlay, GroupPhase, GroupPCs
  <1> QED BY <1>2, <1>3, <1>4, ReadPlays

LEMMA EndPlays ==
    ASSUME TypeOK, Remembered, AllInPlay, ReadEnd
    PROVE  AllInPlay'
  <1>1. bid.pc = "end" /\ bid.pc \in GroupPCs /\ "cron" \in GroupPCs
    BY DEF ReadEnd, GroupPCs
  <1>2. PICK g \in Groups : bid.group = g
    BY <1>1, TypeParts
  <1>3. PICK ok \in BOOLEAN :
          /\ Read("ad", EndKey(g), ok)
          /\ bid' = Filter(InWindow(bid.start, Value(EndKey(g), Absent, ok)), "cron")
    BY <1>2 DEF ReadEnd
  <1> DEFINE end == Value(EndKey(g), Absent, ok)
  <1>4. ok => IF data[EndKey(g)] = Absent THEN end = Absent
              ELSE end # Absent /\ end[1] = data[EndKey(g)][1]
    BY KeyKinds, TypeParts, ValueRead
  <1>5. Clean(StartKey(g)) => IF data[StartKey(g)] = Absent THEN bid.start = Absent
              ELSE bid.start # Absent /\ bid.start[1] = data[StartKey(g)][1]
    BY <1>1, <1>2 DEF Remembered, Halfway
  <1> HIDE DEF end
  <1> DEFINE holds == InWindow(bid.start, end)
  <1>6. ASSUME ok, Undisturbed, Wanted(g) PROVE holds
    <2>1. InWindow(data[StartKey(g)], data[EndKey(g)])
      BY <1>6 DEF Wanted, Fits, Filters
    <2>2. Clean(StartKey(g))
      BY <1>6 DEF Undisturbed, Clean
    <2> QED BY <1>4, <1>5, <1>6, <2>1, <2>2 DEF InWindow, IsNumber
  <1>7. holds \in BOOLEAN /\ bid' = Filter(holds, "cron")
    BY <1>3 DEF InWindow, end
  <1> HIDE DEF holds
  <1> QED BY <1>1, <1>2, <1>3, <1>6, <1>7, FilterPlays

\* A cron set with a member that cannot fail to match is not found wanting.
LEMMA CronPlays ==
    ASSUME TypeOK, AllInPlay, ReadCron
    PROVE  AllInPlay'
  <1>1. bid.pc \in GroupPCs /\ "target" \in GroupPCs
    BY DEF ReadCron, GroupPCs
  <1>2. PICK g \in Groups : bid.group = g
    BY <1>1, TypeParts
  <1>3. PICK ok \in BOOLEAN, answer \in BOOLEAN :
          /\ Read("ad", CronKey(g), ok)
          /\ CronFits(Members(CronKey(g), ok), answer)
          /\ bid' = Filter(answer, "target")
    BY <1>2 DEF ReadCron
  <1>4. ok => Members(CronKey(g), ok) = data[CronKey(g)]
    BY KeyKinds, TypeParts, MembersRead
  <1>5. ASSUME ok, Undisturbed, Wanted(g), ~answer PROVE FALSE
    <2>1. CronFits(data[CronKey(g)], FALSE)
      BY <1>3, <1>4, <1>5
    <2> QED BY <1>5, <2>1 DEF CronFits, Wanted, CronSure
  <1> QED BY <1>1, <1>2, <1>3, <1>5, FilterPlays

LEMMA TargetsPlays ==
    ASSUME TypeOK, Remembered, AllInPlay, ReadTargets
    PROVE  AllInPlay'
  <1>1. bid.pc = "target" /\ bid.pc \in GroupPCs /\ "ads" \in GroupPCs
    BY DEF ReadTargets, GroupPCs
  <1>2. PICK g \in Groups : bid.group = g
    BY <1>1, TypeParts
  <1> DEFINE read(ok) == Members(TargetKey(g), ok)
  <1>3. PICK ok \in BOOLEAN :
          /\ Read("ad", TargetKey(g), ok)
          /\ bid' = Filter(~bid.known \/ read(ok) = {} \/ check_intersection(bid.labels, read(ok)), "ads")
    BY <1>2 DEF ReadTargets
  <1> DEFINE targets == read(ok)
  <1>4. ok => targets = data[TargetKey(g)]
    BY KeyKinds, TypeParts, MembersRead
  <1> HIDE DEF read
  <1> DEFINE holds == ~bid.known \/ targets = {} \/ check_intersection(bid.labels, targets)
  <1>5. holds \in BOOLEAN /\ bid' = Filter(holds, "ads")
    BY <1>3
  <1>6. ASSUME ok, Undisturbed, Wanted(g), bid.known, targets # {}
        PROVE  check_intersection(bid.labels, targets)
    <2>1. bid.labels = {e.field : e \in data[LabelsKey]}
      BY <1>1, <1>6 DEF Remembered, UserLabels, GroupPhase, Undisturbed, Clean
    <2>2. FitsLabels(TRUE, g)
      BY <1>6 DEF Wanted, Fits, Filters, FitsLabels
    <2>3. PICK v \in targets, e \in data[LabelsKey] : v = <<e.field>>
      BY <1>4, <1>6, <2>2 DEF FitsLabels
    <2>4. Plain(v) /\ v[1] = e.field
      BY <2>3 DEF Plain
    <2> QED BY <2>1, <2>3, <2>4 DEF check_intersection
  <1>7. ok /\ Undisturbed /\ Wanted(bid.group) => holds
    BY <1>2, <1>6
  <1> HIDE DEF holds
  <1> QED BY <1>1, <1>3, <1>5, <1>7, FilterPlays

LEMMA AdsPlays ==
    ASSUME TypeOK, AllInPlay, ReadAds
    PROVE  AllInPlay'
  <1>1. bid.pc \in GroupPCs /\ "price" \in GroupPCs
    BY DEF ReadAds, GroupPCs
  <1>2. PICK g \in Groups : bid.group = g
    BY <1>1, TypeParts
  <1>3. PICK ok \in BOOLEAN :
          Read("ad", AdsKey(g), ok) /\ bid' = Filter(Members(AdsKey(g), ok) # {}, "price")
    BY <1>2 DEF ReadAds
  <1>4. ok => Members(AdsKey(g), ok) = data[AdsKey(g)]
    BY KeyKinds, TypeParts, MembersRead
  <1> DEFINE holds == Members(AdsKey(g), ok) # {}
  <1>5. ok /\ Undisturbed /\ Wanted(bid.group) => holds
    <2>1. Wanted(g) => data[AdsKey(g)] # {}
      BY DEF Wanted, Fits, Filters, FitsPrice
    <2> QED BY <1>2, <1>4, <2>1
  <1>6. holds \in BOOLEAN /\ bid' = Filter(holds, "price")
    BY <1>3
  <1> HIDE DEF holds
  <1> QED BY <1>1, <1>3, <1>5, <1>6, FilterPlays

\* The last filter puts the group up.
LEMMA PricePlays ==
    ASSUME TypeOK, AllInPlay, ReadPrice
    PROVE  AllInPlay'
  <1>1. bid.pc = "price" /\ bid \in Bid
    BY TypeParts DEF ReadPrice
  <1>2. PICK g \in Groups : bid.group = g
    BY <1>1, TypeParts DEF GroupPCs
  <1>3. PICK ok \in BOOLEAN :
          /\ Read("ad", PriceKey(g), ok)
          /\ bid' = IF Value(PriceKey(g), <<0>>, ok)[1] > 0
                    THEN [Skip EXCEPT !.offered = bid.offered \cup {g}] ELSE Skip
    BY <1>2 DEF ReadPrice
  <1>4. /\ bid'.pc = "group" /\ bid'.known = bid.known /\ bid'.list = bid.list
        /\ bid.offered \subseteq bid'.offered
        /\ Value(PriceKey(g), <<0>>, ok)[1] > 0 => g \in bid'.offered
    BY <1>1, <1>3 DEF Skip, Bid
  <1>5. ok => Value(PriceKey(g), <<0>>, ok)[1] = NumberAt(PriceKey(g), 0)
    BY KeyKinds, TypeParts, NumberRead
  <1>6. ASSUME NEW h \in Groups, ok, Undisturbed, Wanted(h), InPlay(h) PROVE InPlay(h)'
    <2>1. h \in Elems(bid.list) \cup bid.offered \/ h = g
      BY <1>1, <1>2, <1>6 DEF InPlay, GroupPhase, GroupPCs
    <2>2. h = g => NumberAt(PriceKey(g), 0) > 0
      BY <1>6 DEF Wanted, Fits, Filters, FitsPrice
    <2>3. h \in Elems(bid'.list) \cup bid'.offered
      BY <1>4, <1>5, <1>6, <2>1, <2>2
    <2> QED BY <1>4, <2>3 DEF InPlay
  <1> QED BY <1>3, <1>4, <1>6, ReadPlays

\* A group leaves the list only to go through its filters, or, for a user
\* that is not known, because it asks for a shop to be in.
LEMMA ShopsPlays ==
    ASSUME TypeOK, AllInPlay, ReadShops
    PROVE  AllInPlay'
  <1>1. PICK ok \in BOOLEAN :
             LET g == Head(bid.list)
                 shops == {v[1] : v \in Members(ShopsKey(g), ok)}
             IN /\ bid.pc = "group" /\ bid.list # <<>> /\ g \in Groups
                /\ Read("ad", ShopsKey(g), ok)
                /\ bid'.known = bid.known /\ bid'.pos = bid.pos /\ bid'.list = Tail(bid.list)
                /\ bid'.labels = bid.labels /\ bid'.offered = bid.offered
                /\ \/ /\ bid'.pc = "valid" /\ bid'.group = g
                      /\ shops = {} \/ (~bid.known /\ \E first \in shops : first < 0)
                   \/ /\ bid'.pc = "usershop" /\ bid'.group = g /\ bid'.shops = shops
                      /\ bid.known /\ \E first \in shops : bid'.reverse = (first < 0)
                   \/ bid'.pc = "group" /\ ~bid.known /\ \E first \in shops : ~(first < 0)
    BY ShopsStep
  <1>2. PICK g \in Groups : g = Head(bid.list)
    BY <1>1
  <1> DEFINE shops == {v[1] : v \in Members(ShopsKey(g), ok)}
  <1>3. /\ bid.pc = "group" /\ bid.list # <<>> /\ Read("ad", ShopsKey(g), ok)
        /\ bid'.known = bid.known /\ bid'.list = Tail(bid.list) /\ bid'.offered = bid.offered
        /\ \/ bid'.pc \in {"valid", "usershop"} /\ bid'.group = g
           \/ bid'.pc = "group" /\ ~bid.known /\ \E first \in shops : ~(first < 0)
    BY <1>1, <1>2
  <1>4. ok => shops = ShopsOf(g)
    BY TypeParts, KeyKinds, MembersRead DEF ShopsOf
  <1>5. shops \subseteq Int
    BY TypeParts, KeyKinds, MembersRead, WordsType
  <1> HIDE DEF shops
  <1>6. Elems(bid.list) = {g} \cup Elems(bid'.list)
    BY <1>2, <1>3, TypeParts, HeadOrTail DEF Bid
  <1>7. ASSUME ok, Undisturbed, Wanted(g) PROVE bid'.pc \in {"valid", "usershop"} /\ bid'.group = g
    <2> SUFFICES ASSUME ~bid.known, NEW first \in shops, ~(first < 0) PROVE FALSE
      BY <1>3
    <2>1. FitsShop(FALSE, g) /\ Uniform(ShopsOf(g))
      BY <1>7 DEF Wanted, Fits, Filters, FitsShop
    <2>2. first \in ShopsOf(g) /\ first \in Int
      BY <1>4, <1>5, <1>7
    <2> QED BY <2>1, <2>2 DEF FitsShop, Uniform
  <1>8. ASSUME NEW h \in Groups, ok, Undisturbed, Wanted(h), InPlay(h) PROVE InPlay(h)'
    <2>1. h \in Elems(bid.list) \cup bid.offered
      BY <1>3, <1>8 DEF InPlay, GroupPhase, GroupPCs
    <2>2. \/ h \in Elems(bid'.list) \cup bid'.offered
          \/ bid'.pc \in {"valid", "usershop"} /\ bid'.group = h
      BY <1>3, <1>6, <1>7, <1>8, <2>1
    <2> QED BY <1>3, <2>2 DEF InPlay, GroupPhase, GroupPCs
  <1>9. bid'.pc \notin {"location", "merge"}
    BY <1>3
  <1> QED BY <1>3, <1>8, <1>9, ReadPlays

---------------------------------------------------------------------------
(* The lists hold every group that fits.                                   *)

\* Before the ad space has been read there is nothing to be missing from.
LEMMA EarlyPlays ==
    ASSUME bid'.pc \in {"idle", "x", "y", "z", "space"}
    PROVE  AllInPlay'
  BY DEF AllInPlay, InPlay, GroupPhase, GroupPCs

LEMMA SpacePlays ==
    ASSUME TypeOK, AllInPlay, ReadSpace
    PROVE  AllInPlay'
  <1>1. bid \in Bid /\ bid.pc = "space" /\ MdbTypeOK /\ GroupsOnly(data)
    BY TypeParts DEF ReadSpace
  <1>2. PICK ok \in BOOLEAN : \E s \in Lists(SpaceKey, ok) :
          /\ Read("ad", SpaceKey, ok)
          /\ bid' = IF bid.known THEN [bid EXCEPT !.pc = "location", !.space = Ids(s)]
                    ELSE [bid EXCEPT !.pc = "group", !.list = Ids(s)]
    BY DEF ReadSpace
  <1>3. PICK s \in Lists(SpaceKey, ok) :
          /\ Read("ad", SpaceKey, ok)
          /\ bid' = IF bid.known THEN [bid EXCEPT !.pc = "location", !.space = Ids(s)]
                    ELSE [bid EXCEPT !.pc = "group", !.list = Ids(s)]
    BY <1>2
  <1>4. PICK ids : ids = Ids(s)
    OBVIOUS
  <1>5. ok /\ Undisturbed => /\ StoredIds(SpaceKey) \subseteq Elems(ids)
                             /\ bid.known => Rising(ids)
    <2> SUFFICES ASSUME ok, Undisturbed
                 PROVE  /\ StoredIds(SpaceKey) \subseteq Elems(Ids(s))
                        /\ bid.known => Rising(Ids(s))
      BY <1>4
    <2>1. s \in Lists(SpaceKey, TRUE)
      BY DEF Lists
    <2> QED BY <1>1, <2>1, ListComplete DEF Undisturbed
  <1>6. bid.known \in BOOLEAN /\ bid'.known = bid.known
        /\ \/ bid.known /\ bid'.pc = "location" /\ bid'.space = ids
           \/ ~bid.known /\ bid'.pc = "group" /\ bid'.list = ids
    BY <1>1, <1>3, <1>4 DEF Bid
  <1>7. ASSUME NEW g \in Groups, ok, Undisturbed, Wanted(g) PROVE InPlay(g)'
    <2>1. g \in Elems(ids)
      BY <1>5, <1>7 DEF Wanted, Fits, Filters
    <2> QED BY <1>6, <2>1 DEF InPlay, GroupPhase, GroupPCs
  <1>8. ok /\ Undisturbed => (bid'.pc \in {"location", "merge"} => bid.known /\ Rising(bid'.space))
    BY <1>5, <1>6
  <1>9. bid'.pc # "merge"
    BY <1>6
  <1>10. Undisturbed' => ok /\ Undisturbed
    BY <1>3, <1>6, UndisturbedStep
  <1> QED BY <1>3, <1>6, <1>7, <1>8, <1>9, <1>10, ReadPlays

LEMMA LocationPlays ==
    ASSUME TypeOK, Remembered, AllInPlay, ReadLocation
    PROVE  AllInPlay'
  <1>1. bid \in Bid /\ bid.pc = "location" /\ MdbTypeOK /\ GroupsOnly(data)
    BY TypeParts DEF ReadLocation
  <1> DEFINE key == CellKey(bid.pos)
  <1>2. PICK ok \in BOOLEAN : \E s \in Lists(key, ok) :
          /\ Read("ad", key, ok)
          /\ bid' = [bid EXCEPT !.pc = "merge", !.location = Ids(s)]
    BY DEF ReadLocation
  <1>3. PICK s \in Lists(key, ok) :
          /\ Read("ad", key, ok)
          /\ bid' = [bid EXCEPT !.pc = "merge", !.location = Ids(s)]
    BY <1>2
  <1>4. PICK ids : ids = Ids(s)
    OBVIOUS
  <1>5. /\ bid'.known = bid.known /\ bid'.pc = "merge" /\ bid'.space = bid.space
        /\ bid'.location = ids /\ bid'.list = bid.list
    BY <1>1, <1>3, <1>4 DEF Bid
  <1>6. ASSUME Undisturbed PROVE bid.pos = Position
    <2>1. \A a \in Axes : bid.pos[a] = NumberAt(PosKey(a), 0)
      BY <1>1, <1>6 DEF Remembered, Positions, Past, Clean, Undisturbed
    <2>2. bid.pos = [a \in Axes |-> bid.pos[a]]
      BY <1>1 DEF Bid
    <2> QED BY <2>1, <2>2 DEF Position
  <1>7. ASSUME ok, Undisturbed
        PROVE  /\ StoredIds(CellKey(Position)) \subseteq Elems(ids)
               /\ bid.known => Rising(ids)
    <2>1. key = CellKey(Position)
      BY <1>6, <1>7
    <2>2. s \in Lists(key, TRUE)
      BY <1>7 DEF Lists
    <2>3. StoredIds(key) \subseteq Elems(Ids(s)) /\ (Sorted(key) => Rising(Ids(s)))
      BY <1>1, <1>7, <2>2, ListComplete DEF Undisturbed
    <2> QED BY <1>4, <1>7, <2>1, <2>3 DEF Undisturbed
  <1>8. Undisturbed => bid.known /\ Rising(bid.space)
    BY <1>1 DEF AllInPlay
  <1>9. ASSUME NEW g \in Groups, ok, Undisturbed, Wanted(g), InPlay(g) PROVE InPlay(g)'
    <2>1. g \in Elems(bid.space)
      BY <1>1, <1>9 DEF InPlay
    <2>2. g \in Elems(ids)
      BY <1>7, <1>8, <1>9 DEF Wanted, Fits, Filters, FitsLocation
    <2> QED BY <1>5, <2>1, <2>2 DEF InPlay, GroupPhase, GroupPCs
  <1>10. Undisturbed' => ok /\ Undisturbed
    BY <1>3, <1>5, UndisturbedStep
  <1> QED BY <1>3, <1>5, <1>7, <1>8, <1>9, <1>10, ReadPlays

LEMMA LabelsPlays ==
    ASSUME TypeOK, AllInPlay, ReadLabels
    PROVE  AllInPlay'
  <1>1. bid \in Bid /\ bid.pc = "labels"
    BY TypeParts DEF ReadLabels
  <1>2. PICK ok \in BOOLEAN :
          /\ Read("ad", LabelsKey, ok)
          /\ bid' = [bid EXCEPT !.pc = "group",
                        !.labels = IF ok THEN {e.field : e \in Hget(backend, data, LabelsKey)} ELSE {}]
    BY DEF ReadLabels
  <1>3. bid'.known = bid.known /\ bid'.pc = "group" /\ bid'.list = bid.list
    BY <1>1, <1>2 DEF Bid
  <1>4. \A g \in Groups : InPlay(g) => InPlay(g)'
    BY <1>1, <1>3 DEF InPlay, GroupPhase, GroupPCs
  <1> QED BY <1>2, <1>3, <1>4, ReadPlays

---------------------------------------------------------------------------
(* The steps that read nothing.                                            *)

\* The same for a step that leaves the data alone.
LEMMA LocalPlays ==
    ASSUME AllInPlay, UNCHANGED <<mdbVars, edited, missed, refused>>, bid'.known = bid.known,
           Undisturbed => /\ bid'.pc \in {"location", "merge"} => bid.known /\ Rising(bid'.space)
                          /\ bid'.pc = "merge" => Rising(bid'.location),
           \A g \in Groups : Undisturbed /\ Wanted(g) /\ InPlay(g) => InPlay(g)'
    PROVE  AllInPlay'
  <1> SUFFICES ASSUME Undisturbed'
               PROVE  /\ Undisturbed
                      /\ \A g \in Groups : Wanted(g)' => InPlay(g)'
    BY DEF AllInPlay
  <1>1. data' = data /\ backend' = backend /\ whole' = whole /\ edited' = edited /\ missed' = missed
    BY DEF mdbVars
  <1>2. missed = {}
    BY <1>1 DEF Undisturbed
  <1>3. Undisturbed /\ \A g : Wanted(g)' <=> Wanted(g)
    BY <1>1, <1>2, SameWanted
  <1> QED BY <1>3 DEF AllInPlay

\* A step that leaves the request alone as well.
LEMMA IdlePlays ==
    ASSUME AllInPlay, data' = data, backend' = backend, whole' = whole, edited' = edited,
           missed' = missed, bid' = bid
    PROVE  AllInPlay'
  <1>1. Undisturbed' => missed = {}
    BY DEF Undisturbed
  <1>2. (Undisturbed' => Undisturbed) /\ \A g : Wanted(g)' <=> Wanted(g)
    BY <1>1, SameWanted
  <1>3. \A g : InPlay(g)' <=> InPlay(g)
    BY DEF InPlay
  <1> QED BY <1>2, <1>3 DEF AllInPlay

LEMMA MergePlays ==
    ASSUME TypeOK, AllInPlay, Merge
    PROVE  AllInPlay'
  <1>1. bid \in Bid /\ bid.pc = "merge" /\ UNCHANGED <<mdbVars, edited, missed, refused>>
    BY TypeParts DEF Merge
  <1>2. bid.space \in Seq(Groups) /\ bid.location \in Seq(Groups) /\ bid.list \in Seq(Groups)
    BY <1>1 DEF Bid
  <1>3. Undisturbed => bid.known /\ Rising(bid.space) /\ Rising(bid.location)
    BY <1>1 DEF AllInPlay
  <1>4. CASE bid.space = <<>> \/ bid.location = <<>>
    <2>1. bid'.pc = "labels" /\ bid'.list = bid.list /\ bid'.known = bid.known
      BY <1>1, <1>4 DEF Merge, Bid
    <2>2. Elems(bid.space) \cap Elems(bid.location) = {}
      BY <1>2, <1>4, ElemsOf
    <2>3. \A g \in Groups : InPlay(g) => InPlay(g)'
      BY <1>1, <2>1, <2>2 DEF InPlay, GroupPhase, GroupPCs
    <2> QED BY <1>1, <2>1, <2>3, LocalPlays
  <1>5. CASE bid.space # <<>> /\ bid.location # <<>>
    <2> DEFINE m == Merged(bid.space, bid.location, bid.list)
    <2>1. bid' = [bid EXCEPT !.space = m.s, !.location = m.l, !.list = m.out]
      BY <1>5 DEF Merge
    <2>2. ASSUME Undisturbed
          PROVE  /\ Rising(m.s) /\ Rising(m.l)
                 /\ Elems(bid.list) \cup (Elems(bid.space) \cap Elems(bid.location))
                       \subseteq Elems(m.out) \cup (Elems(m.s) \cap Elems(m.l))
      BY <1>2, <1>3, <1>5, <2>2, MergedKeeps
    <2> HIDE DEF m
    <2>4. /\ bid'.pc = "merge" /\ bid'.known = bid.known /\ bid'.space = m.s
          /\ bid'.location = m.l /\ bid'.list = m.out
      BY <1>1, <2>1 DEF Bid
    <2>5. ASSUME NEW g \in Groups, Undisturbed, InPlay(g) PROVE InPlay(g)'
      <3>1. g \in Elems(m.out) \cup (Elems(m.s) \cap Elems(m.l))
        BY <1>1, <2>2, <2>5 DEF InPlay
      <3> QED BY <2>4, <3>1 DEF InPlay, GroupPhase, GroupPCs
    <2> QED BY <1>1, <1>3, <2>2, <2>4, <2>5, LocalPlays
  <1> QED BY <1>4, <1>5

LEMMA DonePlays ==
    ASSUME TypeOK, AllInPlay, Done
    PROVE  AllInPlay'
  <1>1. bid \in Bid /\ bid.pc = "group" /\ bid.list = <<>> /\ UNCHANGED <<mdbVars, edited, missed, refused>>
    BY TypeParts DEF Done
  <1>2. bid'.pc = "done" /\ bid'.known = bid.known /\ bid'.offered = bid.offered
    BY DEF Done, NoBid
  <1>3. Elems(bid.list) = {}
    BY <1>1, ElemsOf DEF Bid
  <1>4. \A g \in Groups : InPlay(g) => InPlay(g)'
    BY <1>1, <1>2, <1>3 DEF InPlay, GroupPhase, GroupPCs
  <1> QED BY <1>1, <1>2, <1>4, LocalPlays

\* A write that another program makes ends what is said of the request.
LEMMA OtherPlays ==
    ASSUME TypeOK, AllInPlay, Other \/ OtherRestart
    PROVE  AllInPlay'
  <1>1. CASE Other
    <2>1. edited' # {}
      BY <1>1 DEF Other
    <2> QED BY <2>1 DEF AllInPlay, Undisturbed
  <1>2. CASE OtherRestart
    <2>1. data' = data /\ backend' = backend /\ whole' = whole /\ edited' = edited
          /\ missed' = missed /\ bid' = bid
      BY <1>2 DEF OtherRestart
    <2> QED BY <2>1, IdlePlays
  <1> QED BY <1>1, <1>2

---------------------------------------------------------------------------
(* All steps.                                                              *)

LEMMA StepPlays == TypeOK /\ Remembered /\ AllInPlay /\ [Next]_vars => AllInPlay'
  <1> SUFFICES ASSUME TypeOK, Remembered, AllInPlay, [Next]_vars PROVE AllInPlay'
    OBVIOUS
  <1>1. CASE Request \/ Restart
    <2>1. bid'.pc \in {"idle", "x"}
      BY <1>1, NoBidType DEF Request, Restart, Bid
    <2> QED BY <2>1, EarlyPlays
  <1>2. CASE ReadPosition
    <2>1. bid'.pc \in {"y", "z", "space"}
      BY <1>2, TypeParts DEF ReadPosition, AfterAxis, Axes, Bid
    <2> QED BY <2>1, EarlyPlays
  <1>3. CASE ReadSpace \/ ReadLocation \/ Merge \/ ReadLabels
    BY <1>3, SpacePlays, LocationPlays, MergePlays, LabelsPlays
  <1>4. CASE ReadShops \/ ReadUserShop \/ ReadValid
    BY <1>4, ShopsPlays, UserShopPlays, ValidPlays
  <1>5. CASE ReadStart \/ ReadEnd \/ ReadCron
    BY <1>5, StartPlays, EndPlays, CronPlays
  <1>6. CASE ReadTargets \/ ReadAds \/ ReadPrice \/ Done
    BY <1>6, TargetsPlays, AdsPlays, PricePlays, DonePlays
  <1>7. CASE Other \/ OtherRestart
    BY <1>7, OtherPlays
  <1>8. CASE UNCHANGED vars
    BY <1>8, IdlePlays DEF vars, mdbVars
  <1> QED BY <1>1, <1>2, <1>3, <1>4, <1>5, <1>6, <1>7, <1>8 DEF Next

\* Whatever groups, data and commands there are, a request that no write and
\* no failed read disturbs puts up every group that fits it: NoneMissed of
\* every run.
THEOREM NoGroupIsMissed == Spec => []NoneMissed
  <1>1. Init => AllInPlay
    BY NoBidType DEF Init, AllInPlay, InPlay, GroupPhase, GroupPCs
  <1>2. TypeOK /\ Remembered /\ AllInPlay /\ [Next]_vars => AllInPlay'
    BY StepPlays
  <1>3. AllInPlay => NoneMissed
    BY DEF AllInPlay, NoneMissed, Undisturbed, Wanted, InPlay
  <1> QED BY <1>1, <1>2, <1>3, TypeCorrect, RemembersRight, PTL DEF Spec

---------------------------------------------------------------------------
(* What is put up is exactly what fits.                                    *)

\* What has been put up still fits, as far as the keys of the filter are clean.
Explained == \A g \in bid.offered : \A f \in Filters : Held(f, g)

\* But for a new request and a restart, no step makes a key clean or changes
\* what a clean key holds.
LEMMA StepFramed ==
    ASSUME TypeOK, Remembered, [Next]_vars, ~Request, ~Restart
    PROVE  Framed
  <1>1. bid \in Bid
    BY TypeParts
  <1>2. ASSUME data' = data, edited' = edited, missed \subseteq missed', bid'.known = bid.known
        PROVE  Framed
    BY <1>2 DEF Framed, Clean
  <1>3. ASSUME ReadPosition \/ ReadSpace \/ ReadLocation \/ ReadLabels PROVE Framed
    <2>1. data' = data /\ edited' = edited /\ missed \subseteq missed'
      BY <1>3 DEF ReadPosition, ReadSpace, ReadLocation, ReadLabels, Read
    <2>2. bid'.known = bid.known
      BY <1>1, <1>3 DEF ReadPosition, ReadSpace, ReadLocation, ReadLabels, Bid
    <2> QED BY <1>2, <2>1, <2>2
  <1>4. ASSUME ReadShops PROVE Framed
    <2>1. PICK ok \in BOOLEAN :
            Read("ad", ShopsKey(Head(bid.list)), ok) /\ bid'.known = bid.known
      BY <1>4, ShopsStep
    <2>2. data' = data /\ edited' = edited /\ missed \subseteq missed'
      BY <2>1 DEF Read
    <2> QED BY <1>2, <2>1, <2>2
  <1>5. \A holds, loc : Filter(holds, loc).known = bid.known
    BY <1>1 DEF Filter, Pass, Skip, Bid
  <1>6. ASSUME ReadUserShop \/ ReadValid \/ ReadEnd \/ ReadCron \/ ReadTargets \/ ReadAds
        PROVE  Framed
    <2>1. data' = data /\ edited' = edited /\ missed \subseteq missed'
      BY <1>6 DEF ReadUserShop, ReadValid, ReadEnd, ReadCron, ReadTargets, ReadAds, Read
    <2>2. bid'.known = bid.known
      BY <1>5, <1>6 DEF ReadUserShop, ReadValid, ReadEnd, ReadCron, ReadTargets, ReadAds
    <2> QED BY <1>2, <2>1, <2>2
  <1>7. ASSUME ReadStart \/ ReadPrice PROVE Framed
    <2>1. data' = data /\ edited' = edited /\ missed \subseteq missed'
      BY <1>7 DEF ReadStart, ReadPrice, Read
    <2>2. bid'.known = bid.known
      BY <1>1, <1>7 DEF ReadStart, ReadPrice, Skip, Bid
    <2> QED BY <1>2, <2>1, <2>2
  <1>8. ASSUME Merge \/ Done PROVE Framed
    <2>1. data' = data /\ edited' = edited /\ missed' = missed
      BY <1>8 DEF Merge, Done, mdbVars
    <2>2. bid'.known = bid.known
      BY <1>1, <1>8 DEF Merge, Done, NoBid, Bid
    <2> QED BY <1>2, <2>1, <2>2
  <1>9. ASSUME Other \/ OtherRestart PROVE Framed
    BY <1>9, OtherFrame DEF Remembered
  <1>10. ASSUME UNCHANGED vars PROVE Framed
    BY <1>2, <1>10 DEF vars, mdbVars
  <1> QED BY <1>3, <1>4, <1>6, <1>7, <1>8, <1>9, <1>10 DEF Next

LEMMA StepExplained == TypeOK /\ Remembered /\ Explained /\ [Next]_vars => Explained'
  <1> SUFFICES ASSUME TypeOK, Remembered, Explained, [Next]_vars PROVE Explained'
    OBVIOUS
  <1>1. CASE Request \/ Restart
    <2>1. bid'.offered = {}
      <3>1. NoBid.offered = {}
        BY DEF NoBid
      <3> QED BY <1>1, <3>1, NoBidType DEF Request, Restart, Bid
    <2> QED BY <2>1 DEF Explained
  <1>2. CASE ~Request /\ ~Restart
    <2>1. Framed
      BY <1>2, StepFramed
    <2> SUFFICES ASSUME NEW g \in bid'.offered, NEW f \in Filters PROVE Held(f, g)'
      BY DEF Explained
    <2>2. CASE g \in bid.offered
      <3>1. g \in Groups /\ Held(f, g)
        BY <2>2, TypeParts DEF Bid, Explained
      <3> QED BY <2>1, <3>1, HeldFrame
    <2>3. CASE g \notin bid.offered
      <3>1. bid.offered # bid'.offered
        BY <2>3
      <3>2. Next
        BY <3>1 DEF vars
      <3>3. ReadPrice
        BY <2>3, <3>2, OnlyPriceOffers
      <3>4. g \in Groups
        BY <2>3, <3>3, TypeParts DEF ReadPrice, Skip, Bid, GroupPCs
      <3>5. ASSUME \A k \in KeysOf(f, g) : Clean(k) PROVE Fits(f, g)
        <4>1. \A k \in KeysOf(f, g) : Reliable(k)
          BY <3>5 DEF Clean, Reliable
        <4> QED BY <2>3, <3>3, <4>1, PriceFits
      <3>6. Held(f, g)
        BY <3>5 DEF Held
      <3> QED BY <2>1, <3>4, <3>6, HeldFrame
    <2> QED BY <2>2, <2>3
  <1> QED BY <1>1, <1>2

\* When an undisturbed request ends, the groups that are put up are those that
\* fit it, no fewer and no more, but for groups whose shops have both signs or
\* whose cron times may or may not match: of these, none that does not fit.
THEOREM OffersExactly ==
    Spec => [](At("done") /\ Undisturbed =>
                  \A g \in Groups :
                      /\ g \in bid.offered => \A f \in Filters : Fits(f, g)
                      /\ Wanted(g) => g \in bid.offered)
  <1>1. Init => Explained
    BY DEF Init, NoBid, Explained
  <1>2. TypeOK /\ Remembered /\ Explained /\ [Next]_vars => Explained'
    BY StepExplained
  <1>3. Spec => []Explained
    BY <1>1, <1>2, TypeCorrect, RemembersRight, PTL DEF Spec
  <1>4. Explained /\ NoneMissed =>
           (At("done") /\ Undisturbed =>
                \A g \in Groups :
                    /\ g \in bid.offered => \A f \in Filters : Fits(f, g)
                    /\ Wanted(g) => g \in bid.offered)
    <2>1. Undisturbed => \A k : Clean(k)
      BY DEF Undisturbed, Clean
    <2> QED BY <2>1 DEF Explained, Held, NoneMissed, Undisturbed, Wanted
  <1> QED BY <1>3, <1>4, NoGroupIsMissed, PTL
============================================================================
