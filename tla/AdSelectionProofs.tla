------------------------- MODULE AdSelectionProofs -------------------------
(***************************************************************************)
(* Theorems about AdSelection, for any groups, keys, data and commands of  *)
(* the other programs, and any number of writes and failed reads.          *)
(***************************************************************************)
EXTENDS AdSelection, MemoryDbProofs, SequenceTheorems

USE DEF At

GroupPCs == {"usershop", "valid", "start", "end", "cron", "target", "ads", "price"}
Bid == [pc : PCs, known : BOOLEAN, pos : [Axes -> Words \cup {0}], space : Seq(Groups),
        location : Seq(Groups), list : Seq(Groups), labels : SUBSET Words,
        group : Groups \cup {0}, shops : SUBSET Words, reverse : BOOLEAN,
        start : Values \cup {Absent}, offered : SUBSET Groups]
GroupsOnly(d) == \A k \in ZsetKeys : \A e \in d[k] : e.member[1] \in Groups

LEMMA TypeParts ==
    TypeOK <=> MdbTypeOK /\ bid \in Bid /\ (bid.pc \in GroupPCs => bid.group \in Groups)
               /\ GroupsOnly(data)
  BY DEF TypeOK, Bid, GroupPCs, GroupsOnly

LEMMA NoBidType == NoBid \in Bid /\ NoBid.pc = "idle" /\ NoBid.known = FALSE
  <1>1. <<>> \in Seq(Groups) /\ [a \in Axes |-> 0] \in [Axes -> Words \cup {0}]
    OBVIOUS
  <1> QED BY <1>1 DEF NoBid, Bid, PCs

---------------------------------------------------------------------------
(* What reads return.                                                      *)

\* Every group key is a string key or a set key.
LEMMA KeyKinds ==
    ASSUME NEW g \in Groups
    PROVE  /\ {ValidKey(g), StartKey(g), EndKey(g), PriceKey(g)} \subseteq StrKeys
           /\ {ShopsKey(g), CronKey(g), TargetKey(g), AdsKey(g)} \subseteq SetKeys
  BY KeysNamed

\* A read of a string gives its first word, or the default.
LEMMA ValueRead ==
    ASSUME MdbTypeOK, NEW k \in StrKeys, NEW default, NEW ok \in BOOLEAN
    PROVE  LET v == Value(k, default, ok) IN
           /\ ~ok => v = default
           /\ ok => IF data[k] = Absent THEN v = default
                    ELSE v # Absent /\ v \in Values /\ v[1] = data[k][1] /\ v[1] \in Words
  <1>1. data[k] = Absent \/ data[k] \in Values
    BY DEF MdbTypeOK, DataOK
  <1>2. \A v \in Values : /\ v # Absent /\ v[1] \in Words /\ FirstWord(v) \in Values
                          /\ FirstWord(v)[1] = v[1]
    BY ValueWords DEF FirstWord
  <1>3. \A v \in Values : FirstWord(v) # Absent
    BY <1>2
  <1> QED BY <1>1, <1>2, <1>3, KeysTyped DEF Value, Get, RedisGet, TairGet, AsRead

\* A read of a number gives the number that is stored, or the default.
LEMMA NumberRead ==
    ASSUME MdbTypeOK, NEW k \in StrKeys, NEW n, NEW ok \in BOOLEAN
    PROVE  /\ Value(k, <<n>>, ok)[1] \in Words \cup {n}
           /\ ok => Value(k, <<n>>, ok)[1] = NumberAt(k, n)
  BY ValueRead DEF NumberAt

\* A read of a set; what matters of its members is in their first words, and
\* on Redis they have no other.
LEMMA MembersRead ==
    ASSUME MdbTypeOK, NEW k \in SetKeys, NEW ok \in BOOLEAN
    PROVE  /\ ~ok => Members(k, ok) = {}
           /\ ok => Members(k, ok) = data[k]
           /\ Members(k, ok) \subseteq Values
           /\ \A v \in Members(k, ok) : v[1] \in Words
  <1>1. data[k] \subseteq Values /\ backend \in {"REDIS", "TAIR"}
    BY DEF MdbTypeOK, DataOK
  <1>2. backend = "REDIS" => \A v \in data[k] : Plain(v)
    BY DEF MdbTypeOK, AllPlain
  <1>3. \A v \in Values : v[1] \in Words /\ (Plain(v) => FirstWord(v) = v)
    BY ValueWords
  <1>4. backend = "REDIS" => RedisSmembers(data, k) = data[k]
    BY <1>1, <1>2, <1>3 DEF RedisSmembers
  <1>5. Smembers(backend, data, k) = data[k]
    BY <1>4, KeysTyped DEF Smembers, TairSmembers, AsRead
  <1> QED BY <1>1, <1>3, <1>5 DEF Members

\* The members of a sorted set read as they were written.
LEMMA EntriesRead ==
    ASSUME MdbTypeOK, NEW k
    PROVE  EntriesAsRead(k, Stored(data, k)) = Stored(data, k)
  <1>1. CASE k \in ZsetKeys
    <2>1. \A e \in data[k] : e = [member |-> AsRead(k, e.member), score |-> e.score]
      BY <1>1, KeysTyped DEF MdbTypeOK, DataOK, Entry, AsRead
    <2> QED BY <1>1, <2>1 DEF EntriesAsRead, Stored
  <1>2. CASE k \notin ZsetKeys
    BY <1>2 DEF EntriesAsRead, Stored
  <1> QED BY <1>1, <1>2

\* The ids a read of a sorted set lists are ids it holds.
LEMMA ListRead ==
    ASSUME MdbTypeOK, GroupsOnly(data), NEW k, NEW ok \in BOOLEAN, NEW s \in Lists(k, ok)
    PROVE  /\ Ids(s) \in Seq(Groups)
           /\ \A i \in 1..Len(Ids(s)) : Ids(s)[i] \in StoredIds(k)
  <1> DEFINE z == IF ok THEN Zmembers(backend, data, k, whole) ELSE {}
             n == Cardinality(z)
  <1>1. z \subseteq Stored(data, k)
    BY EntriesRead DEF Zmembers, RedisZmembers, TairZmembers
  <1>2. /\ IsFiniteSet(Stored(data, k))
        /\ \A e \in Stored(data, k) : e.member[1] \in Groups
    BY FS_EmptySet DEF MdbTypeOK, DataOK, Stored, GroupsOnly
  <1>3. IsFiniteSet(z)
    BY <1>1, <1>2, FS_Subset
  <1> HIDE DEF z
  <1>4. n \in Nat
    BY <1>3, FS_CardinalityType
  <1>5. s \in [1..n -> z]
    BY DEF Lists, Listings, z
  <1> HIDE DEF n
  <1>6. Ids(s) = [i \in 1..n |-> s[i].member[1]]
    BY <1>5 DEF Ids
  <1>7. \A i \in 1..n : s[i] \in z
    BY <1>5
  <1>8. \A i \in 1..n : s[i].member[1] \in Groups /\ s[i].member[1] \in StoredIds(k)
    BY <1>1, <1>2, <1>7 DEF StoredIds
  <1>9. Ids(s) \in [1..n -> Groups]
    BY <1>6, <1>8
  <1>10. Ids(s) \in Seq(Groups) /\ Len(Ids(s)) = n
    BY <1>4, <1>9
  <1> QED BY <1>6, <1>8, <1>10

\* The fields of a hash.
LEMMA HashRead ==
    ASSUME MdbTypeOK, NEW k \in HashKeys
    PROVE  /\ {e.field : e \in Hget(backend, data, k)} = {e.field : e \in data[k]}
           /\ {e.field : e \in data[k]} \subseteq Words
  <1>1. \A e \in data[k] : e.field \in Words
    BY DEF MdbTypeOK, DataOK, FieldValue
  <1> DEFINE read(e) == [field |-> e.field, value |-> FirstWord(e.value)]
  <1>2. RedisHget(data, k) = {read(e) : e \in data[k]} /\ \A e \in data[k] : read(e).field = e.field
    BY DEF RedisHget
  <1> HIDE DEF read
  <1>3. {e.field : e \in RedisHget(data, k)} = {e.field : e \in data[k]}
    BY <1>2
  <1> DEFINE bytes(e) == [field |-> e.field, value |-> AsRead(k, e.value)]
  <1>4. TairHget(data, k) = {bytes(e) : e \in data[k]} /\ \A e \in data[k] : bytes(e).field = e.field
    BY DEF TairHget
  <1> HIDE DEF bytes
  <1>5. {e.field : e \in TairHget(data, k)} = {e.field : e \in data[k]}
    BY <1>4
  <1> QED BY <1>1, <1>3, <1>5 DEF Hget
---------------------------------------------------------------------------
(* Type correctness.                                                       *)

LEMMA InitType == Init => TypeOK
  <1> SUFFICES ASSUME Init PROVE TypeOK
    OBVIOUS
  <1>1. data \in InitialData
    BY DEF Init, MdbInit
  <1>2. DataOK(data) /\ AllPlain(data) /\ GroupsOnly(data)
    BY <1>1, InitialType, GroupsListed DEF GroupsOnly
  <1>3. backend \in {"REDIS", "TAIR"} /\ writes \in 0..MaxWrites /\ link \in [Conns -> BOOLEAN]
    BY WritesType DEF Init, MdbInit
  <1>4. whole \in BOOLEAN
    <2>1. \A S : whole \in (IF backend = "REDIS" THEN BOOLEAN ELSE {TRUE}) => whole \in BOOLEAN
      OBVIOUS
    <2> QED BY <2>1 DEF Init, MdbInit
  <1>5. MdbTypeOK
    BY <1>2, <1>3, <1>4 DEF MdbTypeOK
  <1> QED BY <1>2, <1>5, NoBidType, TypeParts DEF Init, GroupPCs

\* A read changes nothing on the server.
LEMMA ReadType ==
    ASSUME TypeOK, NEW c \in Conns, NEW k, NEW ok \in BOOLEAN, Read(c, k, ok),
           bid' \in Bid, bid'.pc \in GroupPCs => bid'.group \in Groups
    PROVE  TypeOK'
  <1>1. /\ UNCHANGED <<backend, whole, data, writes>>
        /\ link' = link \/ link' = [link EXCEPT ![c] = FALSE]
    BY DEF Read, Dropped
  <1>2. MdbTypeOK'
    BY <1>1, TypeParts DEF MdbTypeOK, DataOK, AllPlain
  <1>3. GroupsOnly(data)'
    BY <1>1, TypeParts DEF GroupsOnly
  <1>4. TypeOK' <=> MdbTypeOK' /\ bid' \in Bid /\ (bid'.pc \in GroupPCs => bid'.group \in Groups)
                    /\ GroupsOnly(data)'
    BY DEF TypeOK, Bid, GroupPCs, GroupsOnly
  <1> QED BY <1>2, <1>3, <1>4

\* A filter lets the group pass or skips it.
LEMMA FilterType ==
    ASSUME TypeOK, NEW holds \in BOOLEAN, NEW loc \in PCs, bid.pc \in GroupPCs
    PROVE  /\ Filter(holds, loc) \in Bid
           /\ Filter(holds, loc).pc \in GroupPCs => Filter(holds, loc).group \in Groups
           /\ Skip \in Bid /\ Skip.pc = "group"
           /\ \A f \in Filters : Skip.offered = bid.offered
  <1>1. bid \in Bid /\ bid.group \in Groups
    BY TypeParts
  <1>2. Skip \in Bid /\ Skip.pc = "group" /\ Skip.offered = bid.offered
    BY <1>1 DEF Skip, Bid, PCs
  <1>3. Pass(loc) \in Bid /\ Pass(loc).group = bid.group
    BY <1>1 DEF Pass, Bid
  <1> QED BY <1>1, <1>2, <1>3 DEF Filter, GroupPCs

\* The steps of the worker, and what they do to the data.
LEMMA MergeType ==
    ASSUME TypeOK, bid.pc = "merge", bid.space # <<>>, bid.location # <<>>
    PROVE  LET m == Merged(bid.space, bid.location, bid.list) IN
           m.s \in Seq(Groups) /\ m.l \in Seq(Groups) /\ m.out \in Seq(Groups)
  <1>1. bid.space \in Seq(Groups) /\ bid.location \in Seq(Groups) /\ bid.list \in Seq(Groups)
    BY TypeParts DEF Bid
  <1>2. /\ Tail(bid.space) \in Seq(Groups) /\ Tail(bid.location) \in Seq(Groups)
        /\ Append(bid.list, Head(bid.space)) \in Seq(Groups)
    BY <1>1
  <1> QED BY <1>1, <1>2 DEF Merged

LEMMA ShopsType ==
    ASSUME NEW n \in Bid, n.pc = "group"
    PROVE  /\ [n EXCEPT !.pc = "valid"] \in Bid
           /\ [n EXCEPT !.pc = "valid"].group = n.group
           /\ [n EXCEPT !.pc = "usershop", !.reverse = TRUE] \in Bid
           /\ [n EXCEPT !.pc = "usershop", !.reverse = TRUE].group = n.group
           /\ [n EXCEPT !.pc = "usershop", !.reverse = FALSE] \in Bid
           /\ [n EXCEPT !.pc = "usershop", !.reverse = FALSE].group = n.group
           /\ [n EXCEPT !.group = 0, !.shops = {}] \in Bid
           /\ [n EXCEPT !.group = 0, !.shops = {}].pc = "group"
  <1>1. [n EXCEPT !.pc = "valid"] \in Bid /\ [n EXCEPT !.pc = "valid"].group = n.group
    BY DEF Bid, PCs
  <1>2. \A r \in BOOLEAN : [n EXCEPT !.pc = "usershop", !.reverse = r] \in Bid
    BY DEF Bid, PCs
  <1>3. \A r \in BOOLEAN : [n EXCEPT !.pc = "usershop", !.reverse = r].group = n.group
    BY DEF Bid
  <1>4. [n EXCEPT !.group = 0, !.shops = {}] \in Bid
    BY DEF Bid
  <1>5. [n EXCEPT !.group = 0, !.shops = {}].pc = "group"
    BY DEF Bid
  <1> QED BY <1>1, <1>2, <1>3, <1>4, <1>5

LEMMA WorkerType ==
    ASSUME TypeOK,
           \/ Request \/ ReadPosition \/ ReadSpace \/ ReadLocation \/ Merge \/ ReadLabels
           \/ ReadShops \/ ReadUserShop \/ ReadValid \/ ReadStart \/ ReadEnd \/ ReadCron
           \/ ReadTargets \/ ReadAds \/ ReadPrice \/ Done \/ Restart
    PROVE  TypeOK'
  <1> USE ConnsAre
  <1>1. MdbTypeOK /\ bid \in Bid /\ GroupsOnly(data) /\ (bid.pc \in GroupPCs => bid.group \in Groups)
    BY TypeParts
  <1>2. ASSUME UNCHANGED <<backend, whole, data, writes>>, link' \in [Conns -> BOOLEAN],
               bid' \in Bid, bid'.pc \in GroupPCs => bid'.group \in Groups
        PROVE  TypeOK'
    <2>1. MdbTypeOK' /\ GroupsOnly(data)'
      BY <1>1, <1>2 DEF MdbTypeOK, DataOK, AllPlain, GroupsOnly
    <2> QED BY <1>2, <2>1 DEF TypeOK, Bid, GroupPCs, GroupsOnly
  <1>3. link \in [Conns -> BOOLEAN]
    BY <1>1 DEF MdbTypeOK
  <1>4. CASE Request
    <2>1. PICK known \in BOOLEAN : bid' = [NoBid EXCEPT !.pc = "x", !.known = known]
      BY <1>4 DEF Request
    <2>2. bid' \in Bid /\ bid'.pc \notin GroupPCs
      BY <2>1, NoBidType DEF Bid, PCs, GroupPCs
    <2> QED BY <1>2, <1>3, <1>4, <2>2 DEF Request, mdbVars
  <1>5. CASE ReadPosition
    <2>1. PICK a \in Axes, ok \in BOOLEAN :
             /\ Read("user", PosKey(a), ok)
             /\ bid' = [bid EXCEPT !.pc = AfterAxis(a),
                           !.pos = [bid.pos EXCEPT ![a] = Value(PosKey(a), <<0>>, ok)[1]]]
      BY <1>5 DEF ReadPosition
    <2>2. Value(PosKey(a), <<0>>, ok)[1] \in Words \cup {0}
      BY <1>1, KeysNamed, NumberRead
    <2>3. AfterAxis(a) \in PCs /\ AfterAxis(a) \notin GroupPCs
      BY DEF AfterAxis, Axes, PCs, GroupPCs
    <2>4. bid' \in Bid /\ bid'.pc \notin GroupPCs
      BY <1>1, <2>1, <2>2, <2>3 DEF Bid
    <2> QED BY <2>1, <2>4, ReadType
  <1>6. CASE ReadSpace
    <2> PICK ok \in BOOLEAN : \E s \in Lists(SpaceKey, ok) :
             /\ Read("ad", SpaceKey, ok)
             /\ bid' = IF bid.known THEN [bid EXCEPT !.pc = "location", !.space = Ids(s)]
                       ELSE [bid EXCEPT !.pc = "group", !.list = Ids(s)]
      BY <1>6 DEF ReadSpace
    <2>1. PICK s \in Lists(SpaceKey, ok) :
             /\ Read("ad", SpaceKey, ok)
             /\ bid' = IF bid.known THEN [bid EXCEPT !.pc = "location", !.space = Ids(s)]
                       ELSE [bid EXCEPT !.pc = "group", !.list = Ids(s)]
      OBVIOUS
    <2>2. Ids(s) \in Seq(Groups)
      BY <1>1, ListRead
    <2>3. bid' \in Bid /\ bid'.pc \notin GroupPCs
      BY <1>1, <2>1, <2>2 DEF Bid, PCs, GroupPCs
    <2> QED BY <2>1, <2>3, ReadType
  <1>7. CASE ReadLocation
    <2> PICK ok \in BOOLEAN : \E s \in Lists(CellKey(bid.pos), ok) :
             /\ Read("ad", CellKey(bid.pos), ok)
             /\ bid' = [bid EXCEPT !.pc = "merge", !.location = Ids(s)]
      BY <1>7 DEF ReadLocation
    <2>1. PICK s \in Lists(CellKey(bid.pos), ok) :
             /\ Read("ad", CellKey(bid.pos), ok)
             /\ bid' = [bid EXCEPT !.pc = "merge", !.location = Ids(s)]
      OBVIOUS
    <2>2. Ids(s) \in Seq(Groups)
      BY <1>1, ListRead
    <2>3. bid' \in Bid /\ bid'.pc \notin GroupPCs
      BY <1>1, <2>1, <2>2 DEF Bid, PCs, GroupPCs
    <2> QED BY <2>1, <2>3, ReadType
  <1>8. CASE Merge
    <2>1. bid' \in Bid /\ bid'.pc \notin GroupPCs
      <3>1. CASE bid.space = <<>> \/ bid.location = <<>>
        BY <1>1, <1>8, <3>1 DEF Merge, Bid, PCs, GroupPCs
      <3>2. CASE ~(bid.space = <<>> \/ bid.location = <<>>)
        <4>1. bid.pc = "merge"
          BY <1>8 DEF Merge
        <4> DEFINE m == Merged(bid.space, bid.location, bid.list)
        <4>2. m.s \in Seq(Groups) /\ m.l \in Seq(Groups) /\ m.out \in Seq(Groups)
          BY <3>2, <4>1, MergeType
        <4>3. bid' = [bid EXCEPT !.space = m.s, !.location = m.l, !.list = m.out]
          BY <1>8, <3>2 DEF Merge
        <4> HIDE DEF m
        <4> QED BY <1>1, <4>1, <4>2, <4>3 DEF Bid, GroupPCs
      <3> QED BY <3>1, <3>2
    <2> QED BY <1>2, <1>3, <1>8, <2>1 DEF Merge, mdbVars
  <1>9. CASE ReadLabels
    <2>1. PICK ok \in BOOLEAN :
             /\ Read("ad", LabelsKey, ok)
             /\ bid' = [bid EXCEPT !.pc = "group",
                           !.labels = IF ok THEN {e.field : e \in Hget(backend, data, LabelsKey)}
                                      ELSE {}]
      BY <1>9 DEF ReadLabels
    <2>2. {e.field : e \in Hget(backend, data, LabelsKey)} \subseteq Words
      BY <1>1, KeysNamed, HashRead
    <2>3. bid' \in Bid /\ bid'.pc \notin GroupPCs
      BY <1>1, <2>1, <2>2 DEF Bid, PCs, GroupPCs
    <2> QED BY <2>1, <2>3, ReadType
  <1>10. CASE ReadShops
    <2> DEFINE g == Head(bid.list)
               shopsOf(ok) == {v[1] : v \in Members(ShopsKey(g), ok)}
               next(ok) == [bid EXCEPT !.list = Tail(bid.list), !.group = g, !.shops = shopsOf(ok)]
    <2>1. bid.list # <<>> /\ bid.list \in Seq(Groups) /\ bid.pc = "group"
      BY <1>1, <1>10 DEF ReadShops, Bid
    <2>2. g \in Groups /\ Tail(bid.list) \in Seq(Groups)
      BY <2>1
    <2> HIDE DEF g
    <2>3. PICK ok \in BOOLEAN :
             /\ Read("ad", ShopsKey(g), ok)
             /\ \/ bid' = [next(ok) EXCEPT !.pc = "valid"]
                \/ bid' = [next(ok) EXCEPT !.pc = "usershop", !.reverse = TRUE]
                \/ bid' = [next(ok) EXCEPT !.pc = "usershop", !.reverse = FALSE]
                \/ bid' = [next(ok) EXCEPT !.group = 0, !.shops = {}]
      <3>1. PICK ok \in BOOLEAN :
               /\ Read("ad", ShopsKey(g), ok)
               /\ IF shopsOf(ok) = {} THEN bid' = [next(ok) EXCEPT !.pc = "valid"]
                  ELSE \E first \in shopsOf(ok) :
                          bid' = CASE bid.known -> [next(ok) EXCEPT !.pc = "usershop",
                                                              !.reverse = first < 0]
                                   [] ~bid.known /\ first < 0 -> [next(ok) EXCEPT !.pc = "valid"]
                                   [] OTHER -> [next(ok) EXCEPT !.group = 0, !.shops = {}]
        BY <1>10 DEF ReadShops, g
      <3> HIDE DEF next, shopsOf
      <3>2. \A first : (first < 0) \in BOOLEAN
        OBVIOUS
      <3> QED BY <3>1, <3>2
    <2>4. shopsOf(ok) \subseteq Words
      BY <1>1, <2>2, KeyKinds, MembersRead
    <2> HIDE DEF shopsOf
    <2>5. next(ok) \in Bid /\ next(ok).group = g /\ next(ok).pc = "group"
      BY <1>1, <2>1, <2>2, <2>4 DEF Bid
    <2> HIDE DEF next
    <2>7. bid' \in Bid /\ (bid'.pc \in GroupPCs => bid'.group \in Groups)
      BY <2>2, <2>3, <2>5, ShopsType DEF GroupPCs
    <2> QED BY <2>3, <2>7, ReadType
  <1>11. ASSUME bid.pc \in GroupPCs, NEW c \in Conns, NEW k, NEW ok \in BOOLEAN, Read(c, k, ok),
                NEW holds \in BOOLEAN, NEW loc \in PCs, bid' = Filter(holds, loc)
         PROVE  TypeOK'
    <2>1. /\ Filter(holds, loc) \in Bid
          /\ Filter(holds, loc).pc \in GroupPCs => Filter(holds, loc).group \in Groups
      BY <1>11, FilterType
    <2> QED BY <1>11, <2>1, ReadType
  <1>12. \A S, T : (S # T) \in BOOLEAN
    OBVIOUS
  <1>13. CASE ReadUserShop
    <2>1. PICK ok \in BOOLEAN :
             /\ Read("user", UserShopKey, ok)
             /\ bid' = Filter(ShopFits(Value(UserShopKey, <<0>>, ok)[1], bid.shops, bid.reverse),
                              "valid")
      BY <1>13 DEF ReadUserShop
    <2>2. bid.reverse \in BOOLEAN /\ bid.pc \in GroupPCs /\ "valid" \in PCs
      BY <1>1, <1>13 DEF ReadUserShop, GroupPCs, PCs, Bid
    <2>3. \A n : ShopFits(n, bid.shops, bid.reverse) \in BOOLEAN
      BY DEF ShopFits
    <2> QED BY <1>11, <2>1, <2>2, <2>3
  <1>14. CASE ReadValid
    <2>1. PICK ok \in BOOLEAN :
             /\ Read("ad", ValidKey(bid.group), ok)
             /\ bid' = Filter(Value(ValidKey(bid.group), <<1>>, ok)[1] # 0, "start")
      BY <1>14 DEF ReadValid
    <2>2. bid.pc \in GroupPCs /\ "start" \in PCs
      BY <1>14 DEF ReadValid, GroupPCs, PCs
    <2> QED BY <1>11, <1>12, <2>1, <2>2
  <1>15. CASE ReadStart
    <2>1. PICK ok \in BOOLEAN :
             /\ Read("ad", StartKey(bid.group), ok)
             /\ bid' = [bid EXCEPT !.pc = "end", !.start = Value(StartKey(bid.group), Absent, ok)]
      BY <1>15 DEF ReadStart
    <2>2. bid.pc \in GroupPCs /\ bid.group \in Groups
      BY <1>1, <1>15 DEF ReadStart, GroupPCs
    <2>3. Value(StartKey(bid.group), Absent, ok) \in Values \cup {Absent}
      BY <1>1, <2>2, KeyKinds, ValueRead
    <2>4. bid' \in Bid /\ bid'.group \in Groups
      BY <1>1, <2>1, <2>2, <2>3 DEF Bid, PCs
    <2> QED BY <2>1, <2>4, ReadType
  <1>16. CASE ReadEnd
    <2>1. PICK ok \in BOOLEAN :
             /\ Read("ad", EndKey(bid.group), ok)
             /\ bid' = Filter(InWindow(bid.start, Value(EndKey(bid.group), Absent, ok)), "cron")
      BY <1>16 DEF ReadEnd
    <2>2. bid.pc \in GroupPCs /\ "cron" \in PCs
      BY <1>16 DEF ReadEnd, GroupPCs, PCs
    <2>3. \A a, b : InWindow(a, b) \in BOOLEAN
      BY DEF InWindow
    <2> QED BY <1>11, <2>1, <2>2, <2>3
  <1>17. CASE ReadCron
    <2>1. PICK ok \in BOOLEAN, answer \in BOOLEAN :
             Read("ad", CronKey(bid.group), ok) /\ bid' = Filter(answer, "target")
      BY <1>17 DEF ReadCron
    <2>2. bid.pc \in GroupPCs /\ "target" \in PCs
      BY <1>17 DEF ReadCron, GroupPCs, PCs
    <2> QED BY <1>11, <2>1, <2>2
  <1>18. CASE ReadTargets
    <2> DEFINE targets(ok) == Members(TargetKey(bid.group), ok)
               holds(ok) == ~bid.known \/ targets(ok) = {} \/
                                 check_intersection(bid.labels, targets(ok))
    <2>1. PICK ok \in BOOLEAN :
             Read("ad", TargetKey(bid.group), ok) /\ bid' = Filter(holds(ok), "ads")
      BY <1>18 DEF ReadTargets
    <2>2. bid.pc \in GroupPCs /\ "ads" \in PCs
      BY <1>18 DEF ReadTargets, GroupPCs, PCs
    <2>3. holds(ok) \in BOOLEAN
      OBVIOUS
    <2> HIDE DEF holds
    <2> QED BY <1>11, <2>1, <2>2, <2>3
  <1>19. CASE ReadAds
    <2>1. PICK ok \in BOOLEAN :
             /\ Read("ad", AdsKey(bid.group), ok)
             /\ bid' = Filter(Members(AdsKey(bid.group), ok) # {}, "price")
      BY <1>19 DEF ReadAds
    <2>2. bid.pc \in GroupPCs /\ "price" \in PCs
      BY <1>19 DEF ReadAds, GroupPCs, PCs
    <2> QED BY <1>11, <1>12, <2>1, <2>2
  <1>20. CASE ReadPrice
    <2>1. PICK ok \in BOOLEAN :
             /\ Read("ad", PriceKey(bid.group), ok)
             /\ bid' = Skip \/ bid' = [Skip EXCEPT !.offered = bid.offered \cup {bid.group}]
      BY <1>20 DEF ReadPrice
    <2>2. bid.pc \in GroupPCs /\ bid.group \in Groups /\ "valid" \in PCs
      BY <1>1, <1>20 DEF ReadPrice, GroupPCs, PCs
    <2>3. Skip \in Bid /\ Skip.pc = "group"
      BY <2>2, FilterType
    <2>4. bid.offered \cup {bid.group} \subseteq Groups
      BY <1>1, <2>2 DEF Bid
    <2>5. bid' \in Bid /\ bid'.pc \notin GroupPCs
      BY <2>1, <2>3, <2>4 DEF Bid, GroupPCs
    <2> QED BY <2>1, <2>5, ReadType
  <1>21. CASE Done
    <2>1. bid' = [NoBid EXCEPT !.pc = "done", !.known = bid.known, !.offered = bid.offered]
      BY <1>21 DEF Done
    <2>2. bid' \in Bid /\ bid'.pc \notin GroupPCs
      BY <1>1, <2>1, NoBidType DEF Bid, PCs, GroupPCs
    <2> QED BY <1>2, <1>3, <1>21, <2>2 DEF Done, mdbVars
  <1>22. CASE Restart
    <2>1. link' \in [Conns -> BOOLEAN]
      BY <1>22 DEF Restart, Connect
    <2> QED BY <1>2, <1>22, <2>1, NoBidType DEF Restart, GroupPCs
  <1> QED BY <1>4, <1>5, <1>6, <1>7, <1>8, <1>9, <1>10, <1>13, <1>14, <1>15, <1>16, <1>17,
             <1>18, <1>19, <1>20, <1>21, <1>22

LEMMA OthersType == TypeOK /\ (Other \/ OtherRestart) => TypeOK'
  <1> SUFFICES ASSUME TypeOK, Other \/ OtherRestart PROVE TypeOK'
    OBVIOUS
  <1> USE ConnsAre
  <1>1. MdbTypeOK /\ GroupsOnly(data) /\ bid' = bid /\ backend' = backend /\ whole' = whole
    BY TypeParts DEF Other, OtherRestart, Write
  <1>2. DataOK(data') /\ GroupsOnly(data') /\ (backend = "REDIS" => AllPlain(data'))
    <2>1. CASE data' = data
      BY <1>1, <2>1 DEF MdbTypeOK
    <2>2. CASE data' # data
      <3>1. PICK w \in Commands : data' = Executed(backend, data, w).data
        BY <2>2 DEF Other, OtherRestart, Write
      <3>2. DataOK(data) /\ backend \in {"REDIS", "TAIR"} /\ (backend = "REDIS" => AllPlain(data))
        BY <1>1 DEF MdbTypeOK
      <3> DEFINE x == Executed(backend, data, w).data
      <3>10. \E v : Puts(backend, data, w, v) /\ x = [data EXCEPT ![w.key] = v]
        BY <3>2, WritePuts, SMTT(40)
      <3> HIDE DEF x
      <3>3. PICK v : Puts(backend, data, w, v) /\ x = [data EXCEPT ![w.key] = v] /\ x = data'
        BY <3>1, <3>10 DEF x
      <3>4. w.key \in Keys /\ Holds(w.key, v) /\ data' = [data EXCEPT ![w.key] = v]
        BY <3>3, CommandsType DEF Puts, Command
      <3> DEFINE n == Put(data, w.key, v)
      <3>9. data' = n
        BY <3>4 DEF Put
      <3>11. /\ DataOK(n) /\ n[w.key] = v
             /\ AllPlain(data) /\ HoldsPlain(w.key, v) => AllPlain(n)
             /\ \A k \in Keys : k # w.key => n[k] = data[k]
        BY <3>2, <3>4, DataPut
      <3> HIDE DEF n
      <3>5. /\ DataOK(data') /\ data'[w.key] = v
            /\ AllPlain(data) /\ HoldsPlain(w.key, v) => AllPlain(data')
            /\ \A k \in Keys : k # w.key => data'[k] = data[k]
        BY <3>9, <3>11
      <3>6. w.key \in ZsetKeys => \A e \in v : e.member[1] \in Groups
        BY <1>1, <3>3, GroupsListed DEF Puts, GroupsOnly
      <3>7. GroupsOnly(data')
        BY <1>1, <3>5, <3>6 DEF GroupsOnly, Keys
      <3> QED BY <3>2, <3>3, <3>5, <3>7 DEF Puts
    <2> QED BY <2>1, <2>2
  <1>3. link' \in [Conns -> BOOLEAN]
    BY <1>1 DEF MdbTypeOK, Other, OtherRestart, Write, Connect, Dropped
  <1>4. writes' \in 0..MaxWrites
    BY <1>1, WritesType DEF MdbTypeOK, Other, OtherRestart, Write
  <1>5. MdbTypeOK'
    BY <1>1, <1>2, <1>3, <1>4 DEF MdbTypeOK, DataOK, AllPlain
  <1>6. GroupsOnly(data)' /\ bid' \in Bid /\ (bid'.pc \in GroupPCs => bid'.group \in Groups)
    BY <1>1, <1>2, TypeParts DEF GroupsOnly
  <1> QED BY <1>5, <1>6 DEF TypeOK, Bid, GroupPCs, GroupsOnly

LEMMA StepType == TypeOK /\ [Next]_vars => TypeOK'
  <1>1. TypeOK /\ UNCHANGED vars => TypeOK'
    BY DEF vars, mdbVars, TypeOK, MdbTypeOK, DataOK, AllPlain
  <1> QED BY <1>1, WorkerType, OthersType DEF Next

\* Values, lists and the locals of a request keep their types, and on Redis no
\* stored value has more than one word, whatever the other programs write.
THEOREM TypeCorrect == Spec => []TypeOK
  <1> QED BY InitType, StepType, PTL DEF Spec

\* What a wrapper acknowledges can be read back through it, for any commands
\* and any contents of a freed reply.
THEOREM AcksAreStored == Spec => []AckedIsStored
  <1>1. TypeOK => AckedIsStored
    BY AckedStored DEF TypeOK
  <1> QED BY <1>1, TypeCorrect, PTL

---------------------------------------------------------------------------
(* What the steps do to the request, field by field.                       *)

\* A record with new fields has its other fields as before.
LEMMA ShopsFields ==
    ASSUME NEW n \in Bid, NEW r
    PROVE  /\ LET m == [n EXCEPT !.pc = "valid"] IN
              /\ m.pc = "valid" /\ m.known = n.known /\ m.pos = n.pos /\ m.list = n.list
              /\ m.labels = n.labels /\ m.group = n.group /\ m.shops = n.shops
              /\ m.offered = n.offered
           /\ LET m == [n EXCEPT !.pc = "usershop", !.reverse = r] IN
              /\ m.pc = "usershop" /\ m.known = n.known /\ m.pos = n.pos /\ m.list = n.list
              /\ m.labels = n.labels /\ m.group = n.group /\ m.shops = n.shops
              /\ m.reverse = r /\ m.offered = n.offered
           /\ LET m == [n EXCEPT !.group = 0, !.shops = {}] IN
              /\ m.pc = n.pc /\ m.known = n.known /\ m.pos = n.pos /\ m.list = n.list
              /\ m.labels = n.labels /\ m.offered = n.offered
  <1>1. DOMAIN n = {"pc", "known", "pos", "space", "location", "list", "labels", "group", "shops",
                    "reverse", "start", "offered"}
    BY DEF Bid
  <1> QED BY <1>1

LEMMA ShopsStep ==
    ASSUME TypeOK, ReadShops
    PROVE  \E ok \in BOOLEAN :
             LET g == Head(bid.list)
                 shops == {v[1] : v \in Members(ShopsKey(g), ok)}
             IN /\ bid.pc = "group" /\ bid.list # <<>> /\ g \in Groups
                /\ Read("ad", ShopsKey(g), ok)
                /\ bid'.known = bid.known /\ bid'.pos = bid.pos /\ bid'.list = Tail(bid.list)
                /\ bid'.labels = bid.labels /\ bid'.offered = bid.offered
                /\ \/ /\ bid'.pc = "valid" /\ bid'.group = g
                      /\ shops = {} \/ (~bid.known /\ \E first \in shops : first < 0)
                   \/ /\ bid'.pc = "usershop" /\ bid'.group = g /\ bid'.shops = shops
                      /\ bid.known /\ \E first \in shops : bid'.reverse = (first < 0)
                   \/ /\ bid'.pc = "group"
                      /\ ~bid.known /\ \E first \in shops : ~(first < 0)
  <1> DEFINE g == Head(bid.list)
             shopsOf(ok) == {v[1] : v \in Members(ShopsKey(g), ok)}
             next(ok) == [bid EXCEPT !.list = Tail(bid.list), !.group = g, !.shops = shopsOf(ok)]
  <1>1. bid.list # <<>> /\ bid.list \in Seq(Groups) /\ bid.pc = "group" /\ bid \in Bid
        /\ bid.known \in BOOLEAN
    BY TypeParts DEF ReadShops, Bid
  <1>2. g \in Groups /\ Tail(bid.list) \in Seq(Groups)
    BY <1>1
  <1>3. PICK ok \in BOOLEAN :
           /\ Read("ad", ShopsKey(g), ok)
           /\ IF shopsOf(ok) = {} THEN bid' = [next(ok) EXCEPT !.pc = "valid"]
              ELSE \E first \in shopsOf(ok) :
                      bid' = CASE bid.known -> [next(ok) EXCEPT !.pc = "usershop",
                                                          !.reverse = first < 0]
                               [] ~bid.known /\ first < 0 -> [next(ok) EXCEPT !.pc = "valid"]
                               [] OTHER -> [next(ok) EXCEPT !.group = 0, !.shops = {}]
    BY DEF ReadShops
  <1> HIDE DEF g
  <1>4. shopsOf(ok) \subseteq Words
    BY <1>2, TypeParts, KeyKinds, MembersRead
  <1> DEFINE shops == shopsOf(ok)
             n == next(ok)
  <1> HIDE DEF shopsOf
  <1>5. /\ n \in Bid /\ n.pc = "group" /\ n.known = bid.known /\ n.pos = bid.pos
        /\ n.list = Tail(bid.list) /\ n.labels = bid.labels /\ n.group = g /\ n.shops = shops
        /\ n.offered = bid.offered
    BY <1>1, <1>2, <1>4 DEF Bid
  <1>6. \/ shops = {} /\ bid' = [n EXCEPT !.pc = "valid"]
        \/ \E first \in shops :
              \/ bid.known /\ bid' = [n EXCEPT !.pc = "usershop", !.reverse = first < 0]
              \/ ~bid.known /\ first < 0 /\ bid' = [n EXCEPT !.pc = "valid"]
              \/ ~bid.known /\ ~(first < 0) /\ bid' = [n EXCEPT !.group = 0, !.shops = {}]
    BY <1>1, <1>3
  <1> HIDE DEF n, shops
  <1>7. /\ bid'.known = bid.known /\ bid'.pos = bid.pos /\ bid'.list = Tail(bid.list)
        /\ bid'.labels = bid.labels /\ bid'.offered = bid.offered
        /\ \/ /\ bid'.pc = "valid" /\ bid'.group = g
              /\ shops = {} \/ (~bid.known /\ \E first \in shops : first < 0)
           \/ /\ bid'.pc = "usershop" /\ bid'.group = g /\ bid'.shops = shops
              /\ bid.known /\ \E first \in shops : bid'.reverse = (first < 0)
           \/ bid'.pc = "group" /\ ~bid.known /\ \E first \in shops : ~(first < 0)
    <2>1. CASE shops = {} /\ bid' = [n EXCEPT !.pc = "valid"]
      BY <1>5, <2>1, ShopsFields
    <2>2. CASE \E first \in shops : ~bid.known /\ first < 0 /\ bid' = [n EXCEPT !.pc = "valid"]
      BY <1>5, <2>2, ShopsFields
    <2>3. CASE \E first \in shops :
                  bid.known /\ bid' = [n EXCEPT !.pc = "usershop", !.reverse = first < 0]
      <3>1. PICK first \in shops :
              bid.known /\ bid' = [n EXCEPT !.pc = "usershop", !.reverse = first < 0]
        BY <2>3
      <3>2. PICK r : r = (first < 0)
        OBVIOUS
      <3>3. bid' = [n EXCEPT !.pc = "usershop", !.reverse = r]
        BY <3>1, <3>2
      <3>4. /\ bid'.pc = "usershop" /\ bid'.known = n.known /\ bid'.pos = n.pos
            /\ bid'.list = n.list /\ bid'.labels = n.labels /\ bid'.group = n.group
            /\ bid'.shops = n.shops /\ bid'.reverse = r /\ bid'.offered = n.offered
        BY <1>5, <3>3, ShopsFields
      <3> QED BY <1>5, <3>1, <3>2, <3>4
    <2>4. CASE \E first \in shops :
                  ~bid.known /\ ~(first < 0) /\ bid' = [n EXCEPT !.group = 0, !.shops = {}]
      BY <1>5, <2>4, ShopsFields
    <2> QED BY <1>6, <2>1, <2>2, <2>3, <2>4
  <1> QED BY <1>1, <1>2, <1>3, <1>7 DEF g, shops, shopsOf

---------------------------------------------------------------------------
(* A broken connection.                                                    *)

\* Only the price puts a group up.
LEMMA OnlyPriceOffers ==
    ASSUME TypeOK, Next, ~ReadPrice
    PROVE  bid'.offered \subseteq bid.offered
  <1>2. bid \in Bid
    BY TypeParts
  <1> DEFINE kept == bid'.offered = bid.offered
  <1>3. Request \/ Restart => bid'.offered = {}
    <2>1. NoBid.offered = {}
      BY DEF NoBid
    <2> QED BY <2>1, NoBidType DEF Request, Restart, Bid
  <1>4. Done => kept
    BY DEF Done, NoBid
  <1>5. ReadPosition => kept
    BY <1>2 DEF ReadPosition, Bid
  <1>6. ReadSpace \/ ReadLocation => kept
    BY <1>2 DEF ReadSpace, ReadLocation, Bid
  <1>7. Merge \/ ReadLabels => kept
    BY <1>2 DEF Merge, ReadLabels, Bid
  <1>8. ASSUME ReadShops PROVE kept
    <2> PICK ok \in BOOLEAN : bid'.offered = bid.offered
      BY <1>8, ShopsStep
    <2> QED OBVIOUS
  <1>9. \A holds, loc : Filter(holds, loc).offered = bid.offered
    BY <1>2 DEF Filter, Pass, Skip, Bid
  <1>10. ReadUserShop \/ ReadValid \/ ReadEnd => kept
    BY <1>9 DEF ReadUserShop, ReadValid, ReadEnd
  <1>11. ReadCron \/ ReadTargets \/ ReadAds => kept
    BY <1>9 DEF ReadCron, ReadTargets, ReadAds
  <1>12. ReadStart => kept
    BY <1>2 DEF ReadStart, Bid
  <1>13. Other \/ OtherRestart => kept
    BY DEF Other, OtherRestart
  <1> QED BY <1>3, <1>4, <1>5, <1>6, <1>7, <1>8, <1>10, <1>11, <1>12, <1>13 DEF Next

\* Only a price that was read puts a group up.
LEMMA SilentStep ==
    ASSUME TypeOK, Next, backend = "REDIS", ~link'["ad"]
    PROVE  bid'.offered \subseteq bid.offered
  <1>1. CASE ReadPrice
    <2>1. PICK ok \in BOOLEAN :
            /\ Read("ad", PriceKey(bid.group), ok)
            /\ bid' = IF Value(PriceKey(bid.group), <<0>>, ok)[1] > 0
                      THEN [Skip EXCEPT !.offered = bid.offered \cup {bid.group}] ELSE Skip
      BY <1>1 DEF ReadPrice
    <2>2. ~ok
      BY <2>1 DEF Read
    <2>3. Value(PriceKey(bid.group), <<0>>, ok)[1] = 0
      BY <2>2 DEF Value
    <2>4. bid' = Skip
      BY <2>1, <2>3
    <2> QED BY <2>4, TypeParts DEF Skip, Bid
  <1>2. CASE ~ReadPrice
    BY <1>2, OnlyPriceOffers
  <1> QED BY <1>1, <1>2

\* On Redis a worker puts up no group from the read at which its connection
\* breaks to its next start, for any data, groups and commands.
THEOREM BrokenIsSilent == Spec => BrokenOffersNothing
  <1>1. TypeOK /\ [Next]_vars
          => [backend = "REDIS" /\ ~link'["ad"] => bid'.offered \subseteq bid.offered]_vars
    BY SilentStep
  <1> QED BY <1>1, TypeCorrect, PTL DEF Spec, BrokenOffersNothing
============================================================================
