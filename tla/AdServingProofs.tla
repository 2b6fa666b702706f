-------------------------- MODULE AdServingProofs --------------------------
(***************************************************************************)
(* For any number of workers, groups, ads, weights and slots: the          *)
(* invariant IInv of AdServing is inductive, so every charge has a show or *)
(* click that was counted or whose increment the server refused, the slots *)
(* stay ranked, and concurrent workers keep the rotation by weight within  *)
(* its bound, refused increments or not.  A second                         *)
(* invariant, SInv, shows that what is shown was valid, and every step is  *)
(* a step of AdLedger or none of its own.                                  *)
(***************************************************************************)
EXTENDS AdServing, FiniteSetTheorems, SequenceTheorems, TLAPS

---------------------------------------------------------------------------
(* The request of one worker.                                              *)

Sound(r) == r \in Req /\ Shaped(r) /\ Ranked(r)

\* What the insertion loop returns, when the table is ranked.
LEMMA InsertKeeps ==
    ASSUME NEW slots \in Seq(Slot), NEW s \in Slot, NEW n \in Nat \ {0}, Len(slots) <= n
    PROVE  /\ Insert(slots, s, n) \in Seq(Slot)
           /\ Len(Insert(slots, s, n)) <= n
           /\ \A k \in DOMAIN Insert(slots, s, n) :
                 \/ Insert(slots, s, n)[k] = s
                 \/ \E j \in DOMAIN slots : Insert(slots, s, n)[k] = slots[j]
<1> DEFINE m == IF Len(slots) < n THEN Len(slots) + 1 ELSE n
           t == Insert(slots, s, n)
<1>1. slots \in [1..Len(slots) -> Slot] /\ Len(slots) \in Nat /\ DOMAIN slots = 1..Len(slots)
  BY LenProperties
<1>2. CASE s.ecpm = 0
  BY <1>1, <1>2 DEF Insert
<1>3. CASE s.ecpm # 0
  <2>1. m \in Nat /\ m <= n /\ m <= Len(slots) + 1
    BY <1>1
  <2>2. t = [j \in 1..m |->
                IF j <= Len(slots) /\ slots[j].ecpm >= s.ecpm THEN slots[j]
                ELSE IF j = 1 \/ slots[j-1].ecpm >= s.ecpm THEN s
                ELSE slots[j-1]]
    BY <1>3 DEF Insert
  <2> HIDE DEF m, t
  <2>3. \A k \in 1..m : t[k] = s \/ \E j \in 1..Len(slots) : t[k] = slots[j]
    <3> TAKE k \in 1..m
    <3>1. CASE k <= Len(slots) /\ slots[k].ecpm >= s.ecpm
      BY <1>1, <2>1, <2>2, <3>1
    <3>2. CASE ~(k <= Len(slots) /\ slots[k].ecpm >= s.ecpm)
      <4>1. CASE k = 1 \/ slots[k-1].ecpm >= s.ecpm
        BY <2>2, <3>2, <4>1
      <4>2. CASE ~(k = 1 \/ slots[k-1].ecpm >= s.ecpm)
        <5>1. k - 1 \in 1..Len(slots)
          BY <1>1, <2>1, <4>2
        <5>2. t[k] = slots[k-1]
          BY <2>2, <3>2, <4>2
        <5> QED BY <5>1, <5>2
      <4> QED BY <4>1, <4>2
    <3> QED BY <3>1, <3>2
  <2>4. \A k \in 1..m : t[k] \in Slot
    BY <1>1, <2>3
  <2>5. t \in [1..m -> Slot]
    BY <2>2, <2>4
  <2>6. t \in Seq(Slot)
    BY <2>1, <2>5, SeqDef
  <2>7. DOMAIN t = 1..m /\ Len(t) = m
    BY <2>1, <2>5, <2>6, LenProperties
  <2> QED BY <1>1, <2>1, <2>3, <2>6, <2>7 DEF t
<1> QED BY <1>2, <1>3

\* Entry k of the new table: an old slot before s, s, or an old slot moved by
\* one place.
LEMMA InsertEntry ==
    ASSUME NEW slots \in Seq(Slot), NEW s \in Slot, NEW n \in Nat \ {0}, Len(slots) <= n,
           s.ecpm # 0, NEW k \in DOMAIN Insert(slots, s, n)
    PROVE  LET e == Insert(slots, s, n)[k] IN
           \/ k \in DOMAIN slots /\ slots[k].ecpm >= s.ecpm /\ e = slots[k]
           \/ /\ k \in DOMAIN slots => slots[k].ecpm < s.ecpm
              /\ k - 1 \in DOMAIN slots => slots[k-1].ecpm >= s.ecpm
              /\ e = s
           \/ k - 1 \in DOMAIN slots /\ slots[k-1].ecpm < s.ecpm /\ e = slots[k-1]
<1> DEFINE m == IF Len(slots) < n THEN Len(slots) + 1 ELSE n
           e == IF k <= Len(slots) /\ slots[k].ecpm >= s.ecpm THEN slots[k]
                ELSE IF k = 1 \/ slots[k-1].ecpm >= s.ecpm THEN s
                ELSE slots[k-1]
<1>1. slots \in [1..Len(slots) -> Slot] /\ Len(slots) \in Nat /\ DOMAIN slots = 1..Len(slots)
  BY LenProperties
<1>2. m \in Nat /\ m <= Len(slots) + 1
  BY <1>1
<1>3. k \in 1..m /\ Insert(slots, s, n)[k] = e
  BY DEF Insert
<1> HIDE DEF m
<1>4. s.ecpm \in Nat /\ \A j \in 1..Len(slots) : slots[j].ecpm \in Nat
  BY <1>1 DEF Slot
<1>5. CASE k <= Len(slots) /\ slots[k].ecpm >= s.ecpm
  BY <1>1, <1>2, <1>3, <1>5
<1>6. CASE ~(k <= Len(slots) /\ slots[k].ecpm >= s.ecpm)
  <2>1. CASE k = 1 \/ slots[k-1].ecpm >= s.ecpm
    BY <1>1, <1>2, <1>3, <1>4, <1>6, <2>1
  <2>2. CASE ~(k = 1 \/ slots[k-1].ecpm >= s.ecpm)
    <3>1. k - 1 \in 1..Len(slots)
      BY <1>1, <1>2, <1>3, <2>2
    <3> QED BY <1>1, <1>2, <1>3, <1>4, <1>6, <2>2, <3>1
  <2> QED BY <2>1, <2>2
<1> QED BY <1>5, <1>6

\* A ranked table stays ranked, and keeps one slot for a group.
LEMMA InsertRanks ==
    ASSUME NEW slots \in Seq(Slot), NEW s \in Slot, NEW n \in Nat \ {0}, Len(slots) <= n,
           \A k \in DOMAIN slots : GroupOf[slots[k].ad] # GroupOf[s.ad],
           \A j, k \in DOMAIN slots : j < k =>
              slots[j].ecpm >= slots[k].ecpm /\ GroupOf[slots[j].ad] # GroupOf[slots[k].ad]
    PROVE  LET t == Insert(slots, s, n) IN
           \A j, k \in DOMAIN t : j < k =>
              t[j].ecpm >= t[k].ecpm /\ GroupOf[t[j].ad] # GroupOf[t[k].ad]
<1> DEFINE t == Insert(slots, s, n)
           Old(k) == k \in DOMAIN slots /\ slots[k].ecpm >= s.ecpm /\ t[k] = slots[k]
           New(k) == /\ k \in DOMAIN slots => slots[k].ecpm < s.ecpm
                     /\ k - 1 \in DOMAIN slots => slots[k-1].ecpm >= s.ecpm
                     /\ t[k] = s
           Moved(k) == k - 1 \in DOMAIN slots /\ slots[k-1].ecpm < s.ecpm /\ t[k] = slots[k-1]
<1>1. slots \in [1..Len(slots) -> Slot] /\ Len(slots) \in Nat /\ DOMAIN slots = 1..Len(slots)
  BY LenProperties
<1>2. CASE s.ecpm = 0
  BY <1>2 DEF Insert
<1>3. CASE s.ecpm # 0
  <2> SUFFICES ASSUME NEW j \in DOMAIN t, NEW k \in DOMAIN t, j < k
               PROVE  t[j].ecpm >= t[k].ecpm /\ GroupOf[t[j].ad] # GroupOf[t[k].ad]
    OBVIOUS
  <2>1. t \in Seq(Slot) /\ DOMAIN t = 1..Len(t) /\ Len(t) \in Nat
    BY InsertKeeps, LenProperties
  <2>2. (Old(j) \/ New(j) \/ Moved(j)) /\ (Old(k) \/ New(k) \/ Moved(k))
    BY <1>3, InsertEntry
  <2>3. /\ s.ecpm \in Nat
        /\ \A i \in DOMAIN slots : slots[i].ecpm \in Nat
        /\ j \in Nat \ {0} /\ k \in Nat \ {0}
    BY <1>1, <2>1 DEF Slot
  <2> HIDE DEF t
  <2>4. CASE Old(j)
    <3>1. CASE Old(k)
      BY <2>4, <3>1
    <3>2. CASE New(k)
      BY <2>4, <3>2
    <3>3. CASE Moved(k)
      BY <1>1, <2>3, <2>4, <3>3
    <3> QED BY <2>2, <3>1, <3>2, <3>3
  <2>5. CASE New(j)
    <3>1. ~Old(k)
      BY <1>1, <2>3, <2>5
    <3>2. ~New(k) \/ k - 1 \notin DOMAIN slots
      BY <1>1, <2>3, <2>5
    <3>3. CASE Moved(k)
      BY <2>3, <2>5, <3>3
    <3>4. k - 1 \in DOMAIN slots
      <4>1. k <= Len(slots) + 1
        BY <2>1, <1>3, <1>1 DEF Insert, t
      <4> QED BY <1>1, <2>3, <4>1
    <3> QED BY <2>2, <3>1, <3>2, <3>3, <3>4
  <2>6. CASE Moved(j)
    <3>1. ~Old(k)
      BY <1>1, <2>3, <2>6
    <3>2. ~New(k)
      <4>1. k <= Len(slots) + 1
        BY <2>1, <1>3, <1>1 DEF Insert, t
      <4>2. k - 1 \in DOMAIN slots
        BY <1>1, <2>3, <4>1
      <4> QED BY <1>1, <2>3, <2>6, <4>2
    <3>3. CASE Moved(k)
      BY <1>1, <2>3, <2>6, <3>3
    <3> QED BY <2>2, <3>1, <3>2, <3>3
  <2> QED BY <2>2, <2>4, <2>5, <2>6
<1> QED BY <1>2, <1>3

LEMMA NoBestType == NoBest \in Best
  BY DEF NoBest, Best

LEMMA NoReqSound == Sound(NoReq)
<1>1. NoReq \in Req
  BY EmptySeq, BoundsType DEF NoReq, Req, PCs, NoBest, Best
<1>2. NoReq.slots = <<>> /\ DOMAIN NoReq.slots = {} /\ Len(NoReq.slots) = 0
  BY DEF NoReq
<1>3. Shaped(NoReq)
  BY NoAdIsNoAd DEF NoReq, Shaped, NoBest
<1>4. Ranked(NoReq)
  BY <1>2 DEF Ranked, NoReq
<1> QED BY <1>1, <1>3, <1>4 DEF Sound

LEMMA SlotsHaveAds ==
    ASSUME NEW slots \in Seq(Slot)
    PROVE  \A k \in DOMAIN slots : slots[k].ad \in Ads /\ slots[k].read \in Nat
<1>1. slots \in [1..Len(slots) -> Slot]
  BY LenProperties
<1> QED BY <1>1 DEF Slot

\* What the slots and the rest of a request know can be kept separately.
LEMMA SameSlots ==
    ASSUME NEW r, Sound(r), NEW q \in Req, q.slots = r.slots, q.n = r.n,
           q.groups \cup {q.group} \subseteq r.groups \cup {r.group, NoGroup}, Shaped(q)
    PROVE  Sound(q)
<1>1. \A k \in DOMAIN r.slots : r.slots[k].ad \in Ads
  <2>1. r.slots \in Seq(Slot)
    BY DEF Sound, Req
  <2> QED BY <2>1, SlotsHaveAds
<1>2. \A k \in DOMAIN r.slots : GroupOf[r.slots[k].ad] # NoGroup
  BY <1>1, GroupOfType, NoAdIsNoAd
<1> QED BY <1>2 DEF Sound, Ranked

LEMMA NextSlotSound ==
    ASSUME NEW r, Sound(r), r.pc \in {"groups", "charge"}
    PROVE  Sound(NextSlot(r))
<1>1. CASE r.slots = <<>>
  BY <1>1, NoReqSound DEF NextSlot
<1>2. CASE r.slots # <<>>
  <2> DEFINE q == [r EXCEPT !.pc = "show", !.ad = NoAd]
  <2>1. q \in Req /\ q.slots = r.slots /\ q.n = r.n /\ q.groups = r.groups /\ q.group = r.group
        /\ q.pc = "show" /\ q.ads = r.ads /\ q.best = r.best
    BY DEF Sound, Req, PCs
  <2>4. q.groups \cup {q.group} \subseteq r.groups \cup {r.group, NoGroup}
    BY <2>1
  <2> HIDE DEF q
  <2>2. Shaped(q)
    BY <1>2, <2>1 DEF Sound, Shaped
  <2>3. Sound(q)
    BY <2>1, <2>2, <2>4, SameSlots
  <2> QED BY <1>2, <2>3 DEF NextSlot, q
<1> QED BY <1>1, <1>2

LEMMA TailSound ==
    ASSUME NEW r, Sound(r), r.pc = "show"
    PROVE  /\ Head(r.slots) \in Slot
           /\ Sound([r EXCEPT !.pc = "charge", !.ad = Head(r.slots).ad, !.slots = Tail(@)])
           /\ DOMAIN Tail(r.slots) = 1..(Len(r.slots) - 1)
           /\ \A k \in DOMAIN Tail(r.slots) :
                 k + 1 \in DOMAIN r.slots /\ Tail(r.slots)[k] = r.slots[k+1]
           /\ 1 \in DOMAIN r.slots /\ Head(r.slots) = r.slots[1]
<1> DEFINE q == [r EXCEPT !.pc = "charge", !.ad = Head(r.slots).ad, !.slots = Tail(@)]
<1>1. r.slots \in Seq(Slot) /\ r.slots # <<>> /\ r \in Req
  BY DEF Sound, Shaped, Req
<1>2. /\ Head(r.slots) \in Slot /\ Tail(r.slots) \in Seq(Slot)
      /\ Len(Tail(r.slots)) = Len(r.slots) - 1
      /\ \A k \in 1..Len(Tail(r.slots)) : Tail(r.slots)[k] = r.slots[k+1]
      /\ DOMAIN r.slots = 1..Len(r.slots) /\ DOMAIN Tail(r.slots) = 1..(Len(r.slots) - 1)
      /\ Len(r.slots) \in Nat \ {0}
  BY <1>1, HeadTailProperties, LenProperties, EmptySeq
<1>3. \A k \in DOMAIN Tail(r.slots) :
         k + 1 \in DOMAIN r.slots /\ Tail(r.slots)[k] = r.slots[k+1]
  BY <1>2
<1>4. q \in Req
  BY <1>1, <1>2 DEF Req, PCs, Slot
<1>5. Shaped(q)
  <2>1. q.ad \in Ads /\ q.pc = "charge"
    BY <1>1, <1>2 DEF Slot, Req
  <2>2. q.group = r.group /\ q.groups = r.groups /\ q.ads = r.ads /\ q.best = r.best
    BY <1>1 DEF Req
  <2> HIDE DEF q
  <2> QED BY <2>1, <2>2 DEF Sound, Shaped
<1>6. Ranked(q)
  <2>1. q.slots = Tail(r.slots) /\ q.n = r.n /\ q.groups = r.groups /\ q.group = r.group
    BY <1>1 DEF Req
  <2>2. r.n \in Nat
    BY <1>1 DEF Req
  <2>3. \A j, k \in DOMAIN Tail(r.slots) : j < k => j + 1 < k + 1
    BY <1>2
  <2> HIDE DEF q
  <2>4. Ranked(r)
    BY DEF Sound
  <2>5. Len(q.slots) <= q.n
    BY <1>2, <2>1, <2>2, <2>4 DEF Ranked
  <2>6. \A k \in DOMAIN q.slots : GroupOf[q.slots[k].ad] \notin q.groups \cup {q.group}
    BY <1>3, <2>1, <2>4 DEF Ranked
  <2>7. \A j, k \in DOMAIN q.slots : j < k =>
          /\ q.slots[j].ecpm >= q.slots[k].ecpm
          /\ GroupOf[q.slots[j].ad] # GroupOf[q.slots[k].ad]
    BY <1>3, <2>1, <2>3, <2>4 DEF Ranked
  <2> QED BY <2>5, <2>6, <2>7 DEF Ranked
<1>7. Head(r.slots) = r.slots[1]
  BY <1>1
<1> QED BY <1>2, <1>3, <1>4, <1>5, <1>6, <1>7 DEF Sound

---------------------------------------------------------------------------
(* Types, shapes and ranking survive every step.                           *)

\* A step of one worker changes its own request only.
LEMMA OneRequest ==
    ASSUME TypeOK, ReqShape, SlotsRanked, NEW p \in Procs, NEW r, Sound(r),
           req' = [req EXCEPT ![p] = r]
    PROVE  req' \in [Procs -> Req] /\ ReqShape' /\ SlotsRanked'
  BY DEF TypeOK, ReqShape, SlotsRanked, Sound

\* An increment that reaches the server is counted or refused.
Moved(counter, new, refused, fresh, a) ==
    \/ new = [counter EXCEPT ![a] = counter[a] + 1] /\ fresh = refused
    \/ new = counter /\ fresh = [refused EXCEPT ![a] = refused[a] + 1]

\* A counter and what was refused of it add up to what reached the server.
LEMMA MovedSum ==
    ASSUME NEW counter \in [Ads -> Nat], NEW refused \in [Ads -> Nat], NEW new, NEW fresh,
           NEW a \in Ads, Moved(counter, new, refused, fresh, a)
    PROVE  /\ new \in [Ads -> Nat] /\ fresh \in [Ads -> Nat]
           /\ \A b \in Ads \ {a} : new[b] = counter[b] /\ fresh[b] = refused[b]
           /\ new[a] = counter[a] \/ new[a] = counter[a] + 1
           /\ new[a] + fresh[a] = counter[a] + refused[a] + 1
<1>1. counter[a] \in Nat /\ refused[a] \in Nat
  OBVIOUS
<1>2. CASE new = [counter EXCEPT ![a] = counter[a] + 1] /\ fresh = refused
  BY <1>1, <1>2
<1>3. CASE new = counter /\ fresh = [refused EXCEPT ![a] = refused[a] + 1]
  BY <1>1, <1>3
<1> QED BY <1>2, <1>3 DEF Moved

LEMMA ShowMoved ==
    ASSUME TypeOK, ReqShape, SlotsRanked, NEW p \in Procs, CountShow(p)
    PROVE  /\ Head(req[p].slots).ad \in Ads
           /\ link[p] => Moved(shows, shows', lost_shows, lost_shows', Head(req[p].slots).ad)
           /\ ~link[p] => UNCHANGED <<shows, lost_shows>>
<1> DEFINE a == Head(req[p].slots).ad
<1>1. a \in Ads
  BY TailSound DEF CountShow, At, Slot, TypeOK, ReqShape, SlotsRanked, Sound
<1>2. shows \in [Ads -> Nat] /\ lost_shows \in [Ads -> Nat]
  BY DEF TypeOK
<1>3. Incremented(shows, lost_shows, p, a, TRUE) \/ Incremented(shows, lost_shows, p, a, FALSE)
  BY DEF CountShow
<1> HIDE DEF a
<1>4. /\ [shows EXCEPT ![a] = shows[a]] = shows
      /\ [lost_shows EXCEPT ![a] = lost_shows[a]] = lost_shows
  BY <1>2
<1>5. CASE Incremented(shows, lost_shows, p, a, TRUE)
  <2>1. link[p] /\ shows' = [shows EXCEPT ![a] = shows[a] + 1] /\ lost_shows' = lost_shows
    BY <1>4, <1>5 DEF Incremented
  <2> QED BY <1>1, <2>1 DEF Moved, a
<1>6. CASE Incremented(shows, lost_shows, p, a, FALSE)
  <2>1. shows' = shows
    BY <1>4, <1>6 DEF Incremented
  <2>2. CASE link[p]
    <3>1. lost_shows' = [lost_shows EXCEPT ![a] = lost_shows[a] + 1]
      BY <1>6, <2>2 DEF Incremented
    <3> QED BY <1>1, <2>1, <2>2, <3>1 DEF Moved, a
  <2>3. CASE ~link[p]
    <3>1. lost_shows' = lost_shows
      BY <1>4, <1>6, <2>3 DEF Incremented
    <3> QED BY <1>1, <2>1, <2>3, <3>1 DEF a
  <2> QED BY <2>2, <2>3
<1> QED BY <1>3, <1>5, <1>6

LEMMA ClickMoved ==
    ASSUME TypeOK, ReqShape, NEW p \in Procs, CountClick(p)
    PROVE  /\ req[p].ad \in Ads
           /\ link[p] => Moved(clicks, clicks', lost_clicks, lost_clicks', req[p].ad)
           /\ ~link[p] => UNCHANGED <<clicks, lost_clicks>>
<1> DEFINE a == req[p].ad
<1>1. a \in Ads
  BY DEF CountClick, At, ReqShape, Shaped
<1>2. clicks \in [Ads -> Nat] /\ lost_clicks \in [Ads -> Nat]
  BY DEF TypeOK
<1>3. Incremented(clicks, lost_clicks, p, a, TRUE) \/ Incremented(clicks, lost_clicks, p, a, FALSE)
  BY DEF CountClick
<1> HIDE DEF a
<1>4. /\ [clicks EXCEPT ![a] = clicks[a]] = clicks
      /\ [lost_clicks EXCEPT ![a] = lost_clicks[a]] = lost_clicks
  BY <1>2
<1>5. CASE Incremented(clicks, lost_clicks, p, a, TRUE)
  <2>1. link[p] /\ clicks' = [clicks EXCEPT ![a] = clicks[a] + 1] /\ lost_clicks' = lost_clicks
    BY <1>4, <1>5 DEF Incremented
  <2> QED BY <1>1, <2>1 DEF Moved, a
<1>6. CASE Incremented(clicks, lost_clicks, p, a, FALSE)
  <2>1. clicks' = clicks
    BY <1>4, <1>6 DEF Incremented
  <2>2. CASE link[p]
    <3>1. lost_clicks' = [lost_clicks EXCEPT ![a] = lost_clicks[a] + 1]
      BY <1>6, <2>2 DEF Incremented
    <3> QED BY <1>1, <2>1, <2>2, <3>1 DEF Moved, a
  <2>3. CASE ~link[p]
    <3>1. lost_clicks' = lost_clicks
      BY <1>4, <1>6, <2>3 DEF Incremented
    <3> QED BY <1>1, <2>1, <2>3, <3>1 DEF a
  <2> QED BY <2>2, <2>3
<1> QED BY <1>3, <1>5, <1>6

LEMMA NextTypes ==
    ASSUME TypeOK, ReqShape, SlotsRanked, [Next]_vars
    PROVE  (TypeOK /\ ReqShape /\ SlotsRanked)'
<1> DEFINE Goal == (TypeOK /\ ReqShape /\ SlotsRanked)'
<1>0. ASSUME NEW p \in Procs PROVE Sound(req[p]) /\ req[p] \in Req
  BY DEF TypeOK, ReqShape, SlotsRanked, Sound
<1>1. ASSUME NEW p \in Procs, Request(p) PROVE Goal
  <2>1. PICK n \in 1..MaxN, G \in SUBSET Groups :
           req' = [req EXCEPT ![p] = [NoReq EXCEPT !.pc = "groups", !.n = n,
                                          !.groups = IF link[p] THEN G ELSE {}]]
    BY <1>1 DEF Request
  <2> DEFINE r == [NoReq EXCEPT !.pc = "groups", !.n = n,
                                !.groups = IF link[p] THEN G ELSE {}]
  <2>2. /\ r \in Req /\ r.slots = <<>> /\ r.pc = "groups" /\ r.group = NoGroup
        /\ r.groups \subseteq Groups /\ r.ads = {} /\ r.ad = NoAd /\ r.best = NoBest
    BY NoReqSound, BoundsType DEF Sound, Req, PCs, NoReq
  <2> HIDE DEF r
  <2>3. Sound(r)
    BY <2>2, NoAdIsNoAd DEF Sound, Shaped, Ranked, NoBest, Req
  <2>4. req' \in [Procs -> Req] /\ ReqShape' /\ SlotsRanked'
    BY <2>1, <2>3, OneRequest DEF r
  <2> QED BY <1>1, <2>4 DEF Request, TypeOK, flags, counters
<1>2. ASSUME NEW p \in Procs, FilterGroup(p) PROVE Goal
  <2>1. PICK g \in req[p].groups :
          \/ req' = [req EXCEPT ![p] = [req[p] EXCEPT !.groups = @ \ {g}]]
          \/ req' = [req EXCEPT ![p] = [req[p] EXCEPT !.groups = @ \ {g}, !.pc = "scan",
                                                 !.group = g, !.ads = AdsOf(g)]]
    BY <1>2 DEF FilterGroup
  <2>2. g \in Groups /\ req[p].group = NoGroup /\ req[p].pc = "groups" /\ req[p].ad = NoAd
    BY <1>0, <1>2 DEF FilterGroup, At, Req, Sound, Shaped
  <2>3. CASE req' = [req EXCEPT ![p] = [req[p] EXCEPT !.groups = @ \ {g}]]
    <3> DEFINE r == [req[p] EXCEPT !.groups = @ \ {g}]
    <3>1. /\ r \in Req /\ r.slots = req[p].slots /\ r.n = req[p].n /\ r.group = req[p].group
          /\ r.groups = req[p].groups \ {g} /\ r.pc = req[p].pc /\ r.ads = req[p].ads
          /\ r.ad = req[p].ad /\ r.best = req[p].best
      BY <1>0 DEF Req
    <3> HIDE DEF r
    <3>2. Shaped(r)
      BY <1>0, <3>1 DEF Sound, Shaped
    <3>3. r.groups \cup {r.group} \subseteq req[p].groups \cup {req[p].group, NoGroup}
      BY <3>1
    <3>4. Sound(r)
      BY <1>0, <3>1, <3>2, <3>3, SameSlots
    <3>5. req' \in [Procs -> Req] /\ ReqShape' /\ SlotsRanked'
      BY <2>3, <3>4, OneRequest DEF r
    <3> QED BY <1>2, <3>5 DEF FilterGroup, TypeOK, flags, counters
  <2>4. CASE req' = [req EXCEPT ![p] = [req[p] EXCEPT !.groups = @ \ {g}, !.pc = "scan",
                                                 !.group = g, !.ads = AdsOf(g)]]
    <3> DEFINE r == [req[p] EXCEPT !.groups = @ \ {g}, !.pc = "scan", !.group = g,
                                   !.ads = AdsOf(g)]
    <3>1. /\ r \in Req /\ r.slots = req[p].slots /\ r.n = req[p].n /\ r.group = g
          /\ r.groups = req[p].groups \ {g} /\ r.pc = "scan" /\ r.ads = AdsOf(g)
          /\ r.ad = req[p].ad /\ r.best = req[p].best
      BY <1>0, <2>2 DEF Req, PCs, AdsOf
    <3> HIDE DEF r
    <3>2. Shaped(r)
      BY <1>0, <2>2, <3>1, GroupOfType, NoAdIsNoAd DEF Sound, Shaped, AdsOf
    <3>3. r.groups \cup {r.group} \subseteq req[p].groups \cup {req[p].group, NoGroup}
      BY <3>1
    <3>4. Sound(r)
      BY <1>0, <3>1, <3>2, <3>3, SameSlots
    <3>5. req' \in [Procs -> Req] /\ ReqShape' /\ SlotsRanked'
      BY <2>4, <3>4, OneRequest DEF r
    <3> QED BY <1>2, <3>5 DEF FilterGroup, TypeOK, flags, counters
  <2> QED BY <2>1, <2>3, <2>4
<1>3. ASSUME NEW p \in Procs, CheckAd(p) PROVE Goal
  <2>1. PICK a \in req[p].ads : \E b \in {a, NoAd} :
           req' = [req EXCEPT ![p] = [req[p] EXCEPT !.ads = @ \ {a}, !.ad = b]]
    BY <1>3 DEF CheckAd
  <2>2. PICK b \in {a, NoAd} :
           req' = [req EXCEPT ![p] = [req[p] EXCEPT !.ads = @ \ {a}, !.ad = b]]
    BY <2>1
  <2> DEFINE r == [req[p] EXCEPT !.ads = @ \ {a}, !.ad = b]
  <2>3. /\ r \in Req /\ r.slots = req[p].slots /\ r.n = req[p].n /\ r.group = req[p].group
        /\ r.groups = req[p].groups /\ r.pc = req[p].pc /\ r.ads = req[p].ads \ {a}
        /\ r.ad = b /\ r.best = req[p].best
    BY <1>0 DEF Req
  <2> HIDE DEF r
  <2>4. Shaped(r)
    BY <1>0, <1>3, <2>3 DEF Sound, Shaped, CheckAd, At
  <2>5. r.groups \cup {r.group} \subseteq req[p].groups \cup {req[p].group, NoGroup}
    BY <2>3
  <2>6. Sound(r)
    BY <1>0, <2>3, <2>4, <2>5, SameSlots
  <2>7. req' \in [Procs -> Req] /\ ReqShape' /\ SlotsRanked'
    BY <2>2, <2>6, OneRequest DEF r
  <2> QED BY <1>3, <2>7 DEF CheckAd, TypeOK, flags, counters
<1>4. ASSUME NEW p \in Procs, ReadAd(p) PROVE Goal
  <2> DEFINE a == req[p].ad
             c == [ad |-> a, read |-> IF link[p] THEN shows[a] ELSE 0,
                   weight |-> IF link[p] THEN EffWeight(a) ELSE 1]
             best == IF Lighter(c, req[p].best) THEN c ELSE req[p].best
             r == [req[p] EXCEPT !.ad = NoAd, !.best = best]
  <2>1. a \in AdsOf(req[p].group) \ req[p].ads /\ req[p].pc = "scan"
    BY <1>0, <1>4 DEF ReadAd, At, Sound, Shaped
  <2>2. c \in Best
    <3>1. EffWeight(a) \in Nat \ {0} /\ shows[a] \in Nat /\ a \in Ads
      BY <2>1, WeightType DEF EffWeight, TypeOK, AdsOf
    <3> QED BY <3>1 DEF Best
  <2>3. best \in Best /\ best.ad \in AdsOf(req[p].group) \cup {NoAd}
    BY <1>0, <2>1, <2>2 DEF Req, Sound, Shaped
  <2>4. req' = [req EXCEPT ![p] = r]
    BY <1>4 DEF ReadAd
  <2> HIDE DEF best
  <2>5. /\ r \in Req /\ r.slots = req[p].slots /\ r.n = req[p].n /\ r.group = req[p].group
        /\ r.groups = req[p].groups /\ r.pc = req[p].pc /\ r.ads = req[p].ads
        /\ r.ad = NoAd /\ r.best = best
    BY <1>0, <2>3 DEF Req
  <2> HIDE DEF r
  <2>6. Shaped(r)
    BY <1>0, <2>1, <2>3, <2>5 DEF Sound, Shaped
  <2>7. r.groups \cup {r.group} \subseteq req[p].groups \cup {req[p].group, NoGroup}
    BY <2>5
  <2>8. Sound(r)
    BY <1>0, <2>5, <2>6, <2>7, SameSlots
  <2>9. req' \in [Procs -> Req] /\ ReqShape' /\ SlotsRanked'
    BY <2>4, <2>8, OneRequest
  <2> QED BY <1>4, <2>9 DEF ReadAd, TypeOK, flags, counters
<1>5. ASSUME NEW p \in Procs, RankGroup(p) PROVE Goal
  <2>1. PICK e \in Ecpms :
          LET s == [ad |-> req[p].best.ad, ecpm |-> e, read |-> req[p].best.read]
          IN req' = [req EXCEPT ![p] =
                        [req[p] EXCEPT !.pc = "groups", !.group = NoGroup, !.best = NoBest,
                                  !.slots = IF s.ad = NoAd THEN @ ELSE Insert(@, s, req[p].n)]]
    BY <1>5 DEF RankGroup
  <2> DEFINE s == [ad |-> req[p].best.ad, ecpm |-> e, read |-> req[p].best.read]
             slots == IF s.ad = NoAd THEN req[p].slots ELSE Insert(req[p].slots, s, req[p].n)
             r == [req[p] EXCEPT !.pc = "groups", !.group = NoGroup, !.best = NoBest,
                                 !.slots = slots]
  <2>2. /\ req[p].pc = "scan" /\ req[p].ads = {} /\ req[p].ad = NoAd
        /\ req[p].best.ad \in AdsOf(req[p].group) \cup {NoAd}
        /\ req[p].slots \in Seq(Slot) /\ req[p].n \in Nat \ {0} /\ Len(req[p].slots) <= req[p].n
        /\ req[p].group \in Groups \ req[p].groups
    BY <1>0, <1>5, BoundsType DEF RankGroup, At, Sound, Shaped, Ranked, Req
  <2>3. CASE s.ad = NoAd
    <3>1. slots = req[p].slots
      BY <2>3
    <3> HIDE DEF slots
    <3>2. /\ r \in Req /\ r.slots = req[p].slots /\ r.n = req[p].n /\ r.group = NoGroup
          /\ r.groups = req[p].groups /\ r.pc = "groups" /\ r.ads = req[p].ads
          /\ r.ad = req[p].ad /\ r.best = NoBest
      BY <1>0, <3>1, NoBestType DEF Req, PCs
    <3> HIDE DEF r
    <3>3. Shaped(r)
      BY <1>0, <2>2, <3>2, NoAdIsNoAd DEF Sound, Shaped, NoBest, Req
    <3>4. r.groups \cup {r.group} \subseteq req[p].groups \cup {req[p].group, NoGroup}
      BY <3>2
    <3>5. Sound(r)
      BY <1>0, <3>2, <3>3, <3>4, SameSlots
    <3>6. req' \in [Procs -> Req] /\ ReqShape' /\ SlotsRanked'
      BY <2>1, <3>5, OneRequest DEF r, slots
    <3> QED BY <1>5, <3>6 DEF RankGroup, TypeOK, flags, counters
  <2>4. CASE s.ad # NoAd
    <3>1. s \in Slot /\ GroupOf[s.ad] = req[p].group
      BY <1>0, <2>2, <2>4, EcpmsType DEF Slot, AdsOf, Req, Best
    <3>2. slots = Insert(req[p].slots, s, req[p].n)
      BY <2>4
    <3>3. /\ \A k \in DOMAIN req[p].slots :
                GroupOf[req[p].slots[k].ad] \notin req[p].groups \cup {GroupOf[s.ad], NoGroup}
          /\ \A j, k \in DOMAIN req[p].slots : j < k =>
                /\ req[p].slots[j].ecpm >= req[p].slots[k].ecpm
                /\ GroupOf[req[p].slots[j].ad] # GroupOf[req[p].slots[k].ad]
      <4>1. \A k \in DOMAIN req[p].slots : req[p].slots[k].ad \in Ads
        BY <2>2, SlotsHaveAds
      <4>2. \A k \in DOMAIN req[p].slots : GroupOf[req[p].slots[k].ad] # NoGroup
        BY <4>1, GroupOfType, NoAdIsNoAd
      <4> QED BY <1>0, <3>1, <4>2 DEF Sound, Ranked
    <3>4. /\ slots \in Seq(Slot) /\ Len(slots) <= req[p].n
          /\ \A k \in DOMAIN slots : \/ slots[k] = s
                                     \/ \E j \in DOMAIN req[p].slots : slots[k] = req[p].slots[j]
      BY <2>2, <3>1, <3>2, InsertKeeps
    <3>5. \A j, k \in DOMAIN slots : j < k =>
             slots[j].ecpm >= slots[k].ecpm /\ GroupOf[slots[j].ad] # GroupOf[slots[k].ad]
      <4>1. \A k \in DOMAIN req[p].slots : GroupOf[req[p].slots[k].ad] # GroupOf[s.ad]
        BY <3>3
      <4> HIDE DEF s
      <4> QED BY <2>2, <3>1, <3>2, <3>3, <4>1, InsertRanks
    <3> HIDE DEF slots, s
    <3>6. /\ r \in Req /\ r.slots = slots /\ r.n = req[p].n /\ r.group = NoGroup
          /\ r.groups = req[p].groups /\ r.pc = "groups" /\ r.ads = req[p].ads
          /\ r.ad = req[p].ad /\ r.best = NoBest
      BY <1>0, <3>4, NoBestType DEF Req, PCs
    <3> HIDE DEF r
    <3>7. Shaped(r)
      BY <1>0, <2>2, <3>6, NoAdIsNoAd DEF Sound, Shaped, NoBest, Req
    <3>8. \A k \in DOMAIN slots : GroupOf[slots[k].ad] \notin req[p].groups \cup {NoGroup}
      BY <2>2, <3>1, <3>3, <3>4, NoAdIsNoAd
    <3>9. Ranked(r)
      BY <3>4, <3>5, <3>6, <3>8 DEF Ranked
    <3>10. req' \in [Procs -> Req] /\ ReqShape' /\ SlotsRanked'
      BY <2>1, <3>6, <3>7, <3>9, OneRequest DEF Sound, r, slots, s
    <3> QED BY <1>5, <3>10 DEF RankGroup, TypeOK, flags, counters
  <2> QED BY <2>3, <2>4
<1>6. ASSUME NEW p \in Procs, Answer(p) PROVE Goal
  <2>1. req' \in [Procs -> Req] /\ ReqShape' /\ SlotsRanked'
    BY <1>0, <1>6, NextSlotSound, OneRequest DEF Answer, At
  <2> QED BY <1>6, <2>1 DEF Answer, TypeOK, flags, counters
<1>7. ASSUME NEW p \in Procs, CountShow(p) PROVE Goal
  <2>1. req' \in [Procs -> Req] /\ ReqShape' /\ SlotsRanked'
    BY <1>0, <1>7, TailSound, OneRequest DEF CountShow, At
  <2>2. shows' \in [Ads -> Nat] /\ lost_shows' \in [Ads -> Nat]
    <3>1. shows \in [Ads -> Nat] /\ lost_shows \in [Ads -> Nat]
      BY DEF TypeOK
    <3> QED BY <1>7, <3>1, ShowMoved, MovedSum
  <2> QED BY <1>7, <2>1, <2>2 DEF CountShow, TypeOK, flags
<1>8. ASSUME NEW p \in Procs, ChargeShow(p) PROVE Goal
  <2>1. req' \in [Procs -> Req] /\ ReqShape' /\ SlotsRanked'
    BY <1>0, <1>8, NextSlotSound, OneRequest DEF ChargeShow, At
  <2>2. show_rows' \in [Ads -> Nat]
    BY <1>8 DEF ChargeShow, TypeOK
  <2> QED BY <1>8, <2>1, <2>2 DEF ChargeShow, TypeOK, flags, lost
<1>9. ASSUME NEW p \in Procs, Click(p) PROVE Goal
  <2>1. PICK a \in Ads : req' = [req EXCEPT ![p] = [NoReq EXCEPT !.pc = "click", !.ad = a]]
    BY <1>9 DEF Click
  <2> DEFINE r == [NoReq EXCEPT !.pc = "click", !.ad = a]
  <2>2. /\ r \in Req /\ r.slots = <<>> /\ r.pc = "click" /\ r.group = NoGroup /\ r.groups = {}
        /\ r.ads = {} /\ r.ad = a /\ r.best = NoBest /\ r.n = 1
    BY NoReqSound DEF Sound, Req, PCs, NoReq
  <2> HIDE DEF r
  <2>3. Sound(r)
    BY <2>2, NoAdIsNoAd DEF Sound, Shaped, Ranked, NoBest, Req
  <2>4. req' \in [Procs -> Req] /\ ReqShape' /\ SlotsRanked'
    BY <2>1, <2>3, OneRequest DEF r
  <2> QED BY <1>9, <2>4 DEF Click, TypeOK, flags, counters
<1>10. ASSUME NEW p \in Procs, CountClick(p) PROVE Goal
  <2> DEFINE r == [req[p] EXCEPT !.pc = "click_charge"]
  <2>1. /\ r \in Req /\ r.slots = req[p].slots /\ r.n = req[p].n /\ r.group = req[p].group
        /\ r.groups = req[p].groups /\ r.pc = "click_charge" /\ r.ads = req[p].ads
        /\ r.ad = req[p].ad /\ r.best = req[p].best
    BY <1>0 DEF Req, PCs
  <2>0. req[p].pc = "click" /\ req' = [req EXCEPT ![p] = r]
    BY <1>10 DEF CountClick, At
  <2> HIDE DEF r
  <2>2. Shaped(r)
    BY <1>0, <2>0, <2>1 DEF Sound, Shaped
  <2>3. r.groups \cup {r.group} \subseteq req[p].groups \cup {req[p].group, NoGroup}
    BY <2>1
  <2>4. Sound(r)
    BY <1>0, <2>1, <2>2, <2>3, SameSlots
  <2>5. req' \in [Procs -> Req] /\ ReqShape' /\ SlotsRanked'
    BY <2>0, <2>4, OneRequest
  <2>6. clicks' \in [Ads -> Nat] /\ lost_clicks' \in [Ads -> Nat]
    <3>1. clicks \in [Ads -> Nat] /\ lost_clicks \in [Ads -> Nat]
      BY DEF TypeOK
    <3> QED BY <1>10, <3>1, ClickMoved, MovedSum
  <2> QED BY <1>10, <2>5, <2>6 DEF CountClick, TypeOK, flags
<1>11. ASSUME NEW p \in Procs, ChargeClick(p) \/ Restart(p) PROVE Goal
  <2>1. req' = [req EXCEPT ![p] = NoReq]
    BY <1>11 DEF ChargeClick, Restart
  <2>2. req' \in [Procs -> Req] /\ ReqShape' /\ SlotsRanked'
    BY <2>1, NoReqSound, OneRequest
  <2>3. CASE ChargeClick(p)
    <3>1. click_rows' \in [Ads -> Nat]
      BY <2>3 DEF ChargeClick, TypeOK
    <3> QED BY <2>2, <2>3, <3>1 DEF ChargeClick, TypeOK, flags, lost
  <2>4. CASE Restart(p)
    BY <2>2, <2>4 DEF Restart, TypeOK, flags, counters
  <2> QED BY <1>11, <2>3, <2>4
<1>12. ASSUME NEW a \in Fickle, ToggleAd(a) PROVE Goal
  <2>1. a \in Ads
    BY FickleType
  <2>2. valid' \in [Ads -> BOOLEAN] /\ seen' \in [Procs -> SUBSET Ads]
    BY <1>12, <2>1 DEF ToggleAd, TypeOK
  <2> QED BY <1>12, <2>2 DEF ToggleAd, TypeOK, ReqShape, SlotsRanked, counters
<1>13. ASSUME NEW g \in Groups, ToggleGroup(g) PROVE Goal
  BY <1>13 DEF ToggleGroup, TypeOK, ReqShape, SlotsRanked, counters
<1>14. ASSUME NEW p \in Procs, DropLink(p) PROVE Goal
  BY <1>14 DEF DropLink, TypeOK, ReqShape, SlotsRanked, flags, counters
<1>15. CASE UNCHANGED vars
  BY <1>15 DEF vars, TypeOK, ReqShape, SlotsRanked
<1> QED
  BY <1>1, <1>2, <1>3, <1>4, <1>5, <1>6, <1>7, <1>8, <1>9, <1>10, <1>11, <1>12, <1>13,
     <1>14, <1>15 DEF Next

---------------------------------------------------------------------------
(* Counts and charges.                                                     *)

\* A set of workers is finite.
LEMMA ProcsCount ==
    ASSUME NEW S \in SUBSET Procs
    PROVE  IsFiniteSet(S) /\ Cardinality(S) \in Nat /\ Cardinality(S) <= Cardinality(Procs)
  BY ProcsFinite, FS_Subset, FS_CardinalityType

\* Fewer workers owe.
LEMMA FewerWorkers ==
    ASSUME NEW S \in SUBSET Procs, NEW T \in SUBSET S
    PROVE  Cardinality(T) <= Cardinality(S)
  BY ProcsCount, FS_Subset

\* Covered survives a step that leaves the counters and makes nobody owe.
LEMMA CoveredKept ==
    ASSUME TypeOK, Covered, UNCHANGED counters,
           \A q \in Procs :
              link'[q] /\ req'[q].pc \in {"charge", "click_charge"} =>
                 link[q] /\ req'[q].pc = req[q].pc /\ req'[q].ad = req[q].ad
    PROVE  Covered'
<1> SUFFICES ASSUME NEW a \in Ads
             PROVE  /\ show_rows[a] + Cardinality(Owing("charge", a)') <= shows[a] + lost_shows[a]
                    /\ click_rows[a] + Cardinality(Owing("click_charge", a)') <= clicks[a] + lost_clicks[a]
  BY DEF Covered, counters
<1>1. /\ Owing("charge", a)' \subseteq Owing("charge", a)
      /\ Owing("click_charge", a)' \subseteq Owing("click_charge", a)
  BY DEF Owing, At
<1>2. /\ Owing("charge", a) \subseteq Procs
      /\ Owing("click_charge", a) \subseteq Procs
  BY DEF Owing
<1>3. /\ Cardinality(Owing("charge", a)') <= Cardinality(Owing("charge", a))
      /\ Cardinality(Owing("click_charge", a)') <= Cardinality(Owing("click_charge", a))
  BY <1>1, <1>2, FewerWorkers
<1>4. /\ Cardinality(Owing("charge", a)') \in Nat /\ Cardinality(Owing("charge", a)) \in Nat
      /\ Cardinality(Owing("click_charge", a)') \in Nat
      /\ Cardinality(Owing("click_charge", a)) \in Nat
  BY <1>1, <1>2, ProcsCount
<1>5. /\ show_rows[a] \in Nat /\ shows[a] \in Nat /\ click_rows[a] \in Nat /\ clicks[a] \in Nat
      /\ lost_shows[a] \in Nat /\ lost_clicks[a] \in Nat
      /\ show_rows[a] + Cardinality(Owing("charge", a)) <= shows[a] + lost_shows[a]
      /\ click_rows[a] + Cardinality(Owing("click_charge", a)) <= clicks[a] + lost_clicks[a]
  BY DEF TypeOK, Covered
<1> QED BY <1>3, <1>4, <1>5

\* A worker that counts joins those who owe, one that charges leaves them.
LEMMA CountThenCharge ==
    ASSUME NEW S \in SUBSET Procs, NEW T \in SUBSET Procs, NEW p \in Procs,
           NEW rows \in Nat, NEW count \in Nat, rows + Cardinality(S) <= count
    PROVE  /\ p \notin S /\ T = S \cup {p} => rows + Cardinality(T) <= count + 1
           /\ p \in S /\ T = S \ {p} => rows + 1 + Cardinality(T) <= count
           /\ T \subseteq S => rows + Cardinality(T) <= count
<1>1. IsFiniteSet(S) /\ Cardinality(S) \in Nat /\ Cardinality(T) \in Nat
  BY ProcsCount
<1>2. p \notin S /\ T = S \cup {p} => Cardinality(T) = Cardinality(S) + 1
  BY <1>1, FS_AddElement
<1>3. p \in S /\ T = S \ {p} => Cardinality(T) = Cardinality(S) - 1
  BY <1>1, FS_RemoveElement
<1>4. T \subseteq S => Cardinality(T) <= Cardinality(S)
  BY FewerWorkers
<1> QED BY <1>1, <1>2, <1>3, <1>4

LEMMA NextCovered ==
    ASSUME TypeOK, ReqShape, SlotsRanked, Covered, [Next]_vars
    PROVE  Covered'
<1>0. ASSUME NEW p \in Procs PROVE Sound(req[p]) /\ req[p] \in Req
  BY DEF TypeOK, ReqShape, SlotsRanked, Sound
<1>1. ASSUME NEW p \in Procs, CountShow(p) PROVE Covered'
  <2> DEFINE a == Head(req[p].slots).ad
  <2>1. a \in Ads
    BY <1>0, <1>1, TailSound DEF CountShow, At, Slot
  <2>2. /\ req[p].pc = "show" /\ req'[p].pc = "charge" /\ req'[p].ad = a
        /\ \A q \in Procs \ {p} : req'[q] = req[q]
        /\ UNCHANGED <<show_rows, clicks, click_rows, lost_clicks, link>>
    BY <1>0, <1>1 DEF CountShow, At, TypeOK, Req
  <2>7. /\ ~link[p] => UNCHANGED <<shows, lost_shows>>
        /\ link[p] => /\ \A b \in Ads \ {a} : shows'[b] = shows[b] /\ lost_shows'[b] = lost_shows[b]
                      /\ shows'[a] + lost_shows'[a] = shows[a] + lost_shows[a] + 1
    <3>1. shows \in [Ads -> Nat] /\ lost_shows \in [Ads -> Nat]
      BY DEF TypeOK
    <3>2. /\ link[p] => Moved(shows, shows', lost_shows, lost_shows', a)
          /\ ~link[p] => UNCHANGED <<shows, lost_shows>>
      BY <1>1, ShowMoved DEF a
    <3> QED BY <2>1, <3>1, <3>2, MovedSum
  <2> HIDE DEF a
  <2> SUFFICES ASSUME NEW b \in Ads
               PROVE  /\ show_rows[b] + Cardinality(Owing("charge", b)') <= shows'[b] + lost_shows'[b]
                      /\ click_rows[b] + Cardinality(Owing("click_charge", b)') <= clicks[b] + lost_clicks[b]
    BY <2>2 DEF Covered
  <2>3. /\ Owing("charge", b) \subseteq Procs /\ Owing("charge", b)' \subseteq Procs
        /\ Owing("click_charge", b) \subseteq Procs
        /\ show_rows[b] \in Nat /\ shows[b] \in Nat
        /\ lost_shows[b] \in Nat /\ lost_clicks[b] \in Nat /\ shows[b] + lost_shows[b] \in Nat
        /\ show_rows[b] + Cardinality(Owing("charge", b)) <= shows[b] + lost_shows[b]
        /\ click_rows[b] + Cardinality(Owing("click_charge", b)) <= clicks[b] + lost_clicks[b]
    <3>1. /\ shows[b] \in Nat /\ clicks[b] \in Nat /\ show_rows[b] \in Nat
          /\ click_rows[b] \in Nat /\ lost_shows[b] \in Nat /\ lost_clicks[b] \in Nat
      BY DEF TypeOK
    <3>2. /\ Owing("charge", b) \subseteq Procs /\ Owing("charge", b)' \subseteq Procs
          /\ Owing("click_charge", b) \subseteq Procs
          /\ Owing("click_charge", b)' \subseteq Procs
      BY DEF Owing
    <3> QED BY <3>1, <3>2 DEF Covered
  <2>4. Owing("click_charge", b)' = Owing("click_charge", b)
    BY <2>2 DEF Owing, At
  <2>5. CASE link[p] /\ b = a
    <3>1. p \notin Owing("charge", b) /\ Owing("charge", b)' = Owing("charge", b) \cup {p}
      BY <2>2, <2>5 DEF Owing, At
    <3>2. shows'[b] + lost_shows'[b] = shows[b] + lost_shows[b] + 1
      BY <2>1, <2>5, <2>7
    <3> QED BY <2>3, <2>4, <3>1, <3>2, CountThenCharge
  <2>6. CASE ~(link[p] /\ b = a)
    <3>1. Owing("charge", b)' = Owing("charge", b)
      BY <2>2, <2>6 DEF Owing, At
    <3>2. shows'[b] + lost_shows'[b] = shows[b] + lost_shows[b]
      BY <2>1, <2>3, <2>6, <2>7
    <3> QED BY <2>3, <2>4, <3>1, <3>2
  <2> QED BY <2>5, <2>6
<1>2. ASSUME NEW p \in Procs, ChargeShow(p) PROVE Covered'
  <2> DEFINE a == req[p].ad
  <2>1. a \in Ads
    BY <1>0, <1>2 DEF ChargeShow, At, Sound, Shaped
  <2>2. /\ req[p].pc = "charge" /\ req'[p].pc \notin {"charge", "click_charge"}
        /\ \A q \in Procs \ {p} : req'[q] = req[q]
        /\ \/ UNCHANGED show_rows
           \/ link[p] /\ show_rows' = [show_rows EXCEPT ![a] = show_rows[a] + 1]
        /\ UNCHANGED <<shows, clicks, click_rows, lost_shows, lost_clicks, link>>
    BY <1>0, <1>2 DEF lost, ChargeShow, At, TypeOK, Req, NextSlot, NoReq
  <2> HIDE DEF a
  <2> SUFFICES ASSUME NEW b \in Ads
               PROVE  /\ show_rows'[b] + Cardinality(Owing("charge", b)') <= shows[b] + lost_shows[b]
                      /\ click_rows[b] + Cardinality(Owing("click_charge", b)') <= clicks[b] + lost_clicks[b]
    BY <2>2 DEF Covered
  <2>3. /\ Owing("charge", b) \subseteq Procs /\ Owing("charge", b)' \subseteq Procs
        /\ show_rows[b] \in Nat /\ shows[b] \in Nat
        /\ lost_shows[b] \in Nat /\ lost_clicks[b] \in Nat /\ shows[b] + lost_shows[b] \in Nat
        /\ show_rows[b] + Cardinality(Owing("charge", b)) <= shows[b] + lost_shows[b]
        /\ click_rows[b] + Cardinality(Owing("click_charge", b)) <= clicks[b] + lost_clicks[b]
    <3>1. /\ shows[b] \in Nat /\ clicks[b] \in Nat /\ show_rows[b] \in Nat
          /\ click_rows[b] \in Nat /\ lost_shows[b] \in Nat /\ lost_clicks[b] \in Nat
      BY DEF TypeOK
    <3>2. /\ Owing("charge", b) \subseteq Procs /\ Owing("charge", b)' \subseteq Procs
          /\ Owing("click_charge", b) \subseteq Procs
          /\ Owing("click_charge", b)' \subseteq Procs
      BY DEF Owing
    <3> QED BY <3>1, <3>2 DEF Covered
  <2>4. Owing("click_charge", b)' = Owing("click_charge", b)
    BY <2>2 DEF Owing, At
  <2>5. CASE link[p] /\ b = a
    <3>1. p \in Owing("charge", b) /\ Owing("charge", b)' = Owing("charge", b) \ {p}
      BY <2>2, <2>5 DEF Owing, At, a
    <3>2. show_rows'[b] = show_rows[b] \/ show_rows'[b] = show_rows[b] + 1
      BY <2>1, <2>2, <2>5 DEF TypeOK
    <3>3. /\ show_rows[b] + 1 + Cardinality(Owing("charge", b)') <= shows[b] + lost_shows[b]
          /\ Cardinality(Owing("charge", b)') \in Nat
      <4> DEFINE count == shows[b] + lost_shows[b]  rows == show_rows[b]
                 S == Owing("charge", b)  T == Owing("charge", b)'
      <4>1. /\ S \in SUBSET Procs /\ T \in SUBSET Procs /\ p \in S /\ T = S \ {p}
            /\ rows \in Nat /\ count \in Nat /\ rows + Cardinality(S) <= count
        BY <2>3, <3>1
      <4> HIDE DEF count, rows, S, T
      <4>2. rows + 1 + Cardinality(T) <= count /\ Cardinality(T) \in Nat
        BY <4>1, CountThenCharge, ProcsCount
      <4> QED BY <4>2 DEF count, rows, S, T
    <3> QED BY <2>3, <2>4, <3>2, <3>3
  <2>6. CASE ~(link[p] /\ b = a)
    <3>1. Owing("charge", b)' \subseteq Owing("charge", b)
      BY <2>2, <2>6 DEF Owing, At
    <3>2. show_rows'[b] = show_rows[b]
      BY <2>1, <2>2, <2>6 DEF TypeOK
    <3> QED BY <2>3, <2>4, <3>1, <3>2, CountThenCharge
  <2> QED BY <2>5, <2>6
<1>3. ASSUME NEW p \in Procs, CountClick(p) PROVE Covered'
  <2> DEFINE a == req[p].ad
  <2>1. a \in Ads
    BY <1>0, <1>3 DEF CountClick, At, Sound, Shaped
  <2>2. /\ req[p].pc = "click" /\ req'[p].pc = "click_charge" /\ req'[p].ad = a
        /\ \A q \in Procs \ {p} : req'[q] = req[q]
        /\ UNCHANGED <<show_rows, shows, click_rows, lost_shows, link>>
    BY <1>0, <1>3 DEF CountClick, At, TypeOK, Req
  <2>7. /\ ~link[p] => UNCHANGED <<clicks, lost_clicks>>
        /\ link[p] => /\ \A b \in Ads \ {a} : clicks'[b] = clicks[b] /\ lost_clicks'[b] = lost_clicks[b]
                      /\ clicks'[a] + lost_clicks'[a] = clicks[a] + lost_clicks[a] + 1
    <3>1. clicks \in [Ads -> Nat] /\ lost_clicks \in [Ads -> Nat]
      BY DEF TypeOK
    <3>2. /\ link[p] => Moved(clicks, clicks', lost_clicks, lost_clicks', a)
          /\ ~link[p] => UNCHANGED <<clicks, lost_clicks>>
      BY <1>3, ClickMoved DEF a
    <3> QED BY <2>1, <3>1, <3>2, MovedSum
  <2> HIDE DEF a
  <2> SUFFICES ASSUME NEW b \in Ads
               PROVE  /\ show_rows[b] + Cardinality(Owing("charge", b)') <= shows[b] + lost_shows[b]
                      /\ click_rows[b] + Cardinality(Owing("click_charge", b)') <= clicks'[b] + lost_clicks'[b]
    BY <2>2 DEF Covered
  <2>3. /\ Owing("click_charge", b) \subseteq Procs /\ Owing("click_charge", b)' \subseteq Procs
        /\ click_rows[b] \in Nat /\ clicks[b] \in Nat
        /\ lost_shows[b] \in Nat /\ lost_clicks[b] \in Nat /\ clicks[b] + lost_clicks[b] \in Nat
        /\ show_rows[b] + Cardinality(Owing("charge", b)) <= shows[b] + lost_shows[b]
        /\ click_rows[b] + Cardinality(Owing("click_charge", b)) <= clicks[b] + lost_clicks[b]
    <3>1. /\ shows[b] \in Nat /\ clicks[b] \in Nat /\ show_rows[b] \in Nat
          /\ click_rows[b] \in Nat /\ lost_shows[b] \in Nat /\ lost_clicks[b] \in Nat
      BY DEF TypeOK
    <3>2. /\ Owing("charge", b) \subseteq Procs /\ Owing("charge", b)' \subseteq Procs
          /\ Owing("click_charge", b) \subseteq Procs
          /\ Owing("click_charge", b)' \subseteq Procs
      BY DEF Owing
    <3> QED BY <3>1, <3>2 DEF Covered
  <2>4. Owing("charge", b)' = Owing("charge", b)
    BY <2>2 DEF Owing, At
  <2>5. CASE link[p] /\ b = a
    <3>1. /\ p \notin Owing("click_charge", b)
          /\ Owing("click_charge", b)' = Owing("click_charge", b) \cup {p}
      BY <2>2, <2>5 DEF Owing, At
    <3>2. clicks'[b] + lost_clicks'[b] = clicks[b] + lost_clicks[b] + 1
      BY <2>1, <2>5, <2>7
    <3> QED BY <2>3, <2>4, <3>1, <3>2, CountThenCharge
  <2>6. CASE ~(link[p] /\ b = a)
    <3>1. Owing("click_charge", b)' = Owing("click_charge", b)
      BY <2>2, <2>6 DEF Owing, At
    <3>2. clicks'[b] + lost_clicks'[b] = clicks[b] + lost_clicks[b]
      BY <2>1, <2>3, <2>6, <2>7
    <3> QED BY <2>3, <2>4, <3>1, <3>2
  <2> QED BY <2>5, <2>6
<1>4. ASSUME NEW p \in Procs, ChargeClick(p) PROVE Covered'
  <2> DEFINE a == req[p].ad
  <2>1. a \in Ads
    BY <1>0, <1>4 DEF ChargeClick, At, Sound, Shaped
  <2>2. /\ req[p].pc = "click_charge" /\ req'[p].pc \notin {"charge", "click_charge"}
        /\ \A q \in Procs \ {p} : req'[q] = req[q]
        /\ \/ UNCHANGED click_rows
           \/ link[p] /\ click_rows' = [click_rows EXCEPT ![a] = click_rows[a] + 1]
        /\ UNCHANGED <<shows, clicks, show_rows, lost_shows, lost_clicks, link>>
    BY <1>0, <1>4 DEF lost, ChargeClick, At, TypeOK, Req, NoReq
  <2> HIDE DEF a
  <2> SUFFICES ASSUME NEW b \in Ads
               PROVE  /\ show_rows[b] + Cardinality(Owing("charge", b)') <= shows[b] + lost_shows[b]
                      /\ click_rows'[b] + Cardinality(Owing("click_charge", b)') <= clicks[b] + lost_clicks[b]
    BY <2>2 DEF Covered
  <2>3. /\ Owing("click_charge", b) \subseteq Procs /\ Owing("click_charge", b)' \subseteq Procs
        /\ click_rows[b] \in Nat /\ clicks[b] \in Nat
        /\ lost_shows[b] \in Nat /\ lost_clicks[b] \in Nat /\ clicks[b] + lost_clicks[b] \in Nat
        /\ show_rows[b] + Cardinality(Owing("charge", b)) <= shows[b] + lost_shows[b]
        /\ click_rows[b] + Cardinality(Owing("click_charge", b)) <= clicks[b] + lost_clicks[b]
    <3>1. /\ shows[b] \in Nat /\ clicks[b] \in Nat /\ show_rows[b] \in Nat
          /\ click_rows[b] \in Nat /\ lost_shows[b] \in Nat /\ lost_clicks[b] \in Nat
      BY DEF TypeOK
    <3>2. /\ Owing("charge", b) \subseteq Procs /\ Owing("charge", b)' \subseteq Procs
          /\ Owing("click_charge", b) \subseteq Procs
          /\ Owing("click_charge", b)' \subseteq Procs
      BY DEF Owing
    <3> QED BY <3>1, <3>2 DEF Covered
  <2>4. Owing("charge", b)' = Owing("charge", b)
    BY <2>2 DEF Owing, At
  <2>5. CASE link[p] /\ b = a
    <3>1. /\ p \in Owing("click_charge", b)
          /\ Owing("click_charge", b)' = Owing("click_charge", b) \ {p}
      BY <2>2, <2>5 DEF Owing, At, a
    <3>2. click_rows'[b] = click_rows[b] \/ click_rows'[b] = click_rows[b] + 1
      BY <2>1, <2>2, <2>5 DEF TypeOK
    <3>3. /\ click_rows[b] + 1 + Cardinality(Owing("click_charge", b)') <= clicks[b] + lost_clicks[b]
          /\ Cardinality(Owing("click_charge", b)') \in Nat
      <4> DEFINE count == clicks[b] + lost_clicks[b]  rows == click_rows[b]
                 S == Owing("click_charge", b)  T == Owing("click_charge", b)'
      <4>1. /\ S \in SUBSET Procs /\ T \in SUBSET Procs /\ p \in S /\ T = S \ {p}
            /\ rows \in Nat /\ count \in Nat /\ rows + Cardinality(S) <= count
        BY <2>3, <3>1
      <4> HIDE DEF count, rows, S, T
      <4>2. rows + 1 + Cardinality(T) <= count /\ Cardinality(T) \in Nat
        BY <4>1, CountThenCharge, ProcsCount
      <4> QED BY <4>2 DEF count, rows, S, T
    <3> QED BY <2>3, <2>4, <3>2, <3>3
  <2>6. CASE ~(link[p] /\ b = a)
    <3>1. Owing("click_charge", b)' \subseteq Owing("click_charge", b)
      BY <2>2, <2>6 DEF Owing, At
    <3>2. click_rows'[b] = click_rows[b]
      BY <2>1, <2>2, <2>6 DEF TypeOK
    <3> QED BY <2>3, <2>4, <3>1, <3>2, CountThenCharge
  <2> QED BY <2>5, <2>6
<1>5. ASSUME NEW p \in Procs,
             \/ Request(p) \/ FilterGroup(p) \/ CheckAd(p) \/ ReadAd(p) \/ RankGroup(p)
             \/ Answer(p) \/ Click(p)
      PROVE  Covered'
  <2>1. /\ UNCHANGED <<counters, link>>
        /\ \A q \in Procs \ {p} : req'[q] = req[q]
        /\ req'[p].pc \notin {"charge", "click_charge"}
    <3>1. CASE Request(p)
      BY <3>1 DEF Request, TypeOK, NoReq
    <3>6. CASE Click(p)
      BY <3>6 DEF Click, TypeOK, NoReq, counters
    <3>2. CASE FilterGroup(p)
      <4>1. PICK g \in req[p].groups :
              \/ req' = [req EXCEPT ![p] = [req[p] EXCEPT !.groups = @ \ {g}]]
              \/ req' = [req EXCEPT ![p] = [req[p] EXCEPT !.groups = @ \ {g}, !.pc = "scan",
                                                     !.group = g, !.ads = AdsOf(g)]]
        BY <3>2 DEF FilterGroup
      <4>2. req[p].pc = "groups" /\ req \in [Procs -> Req]
        BY <3>2 DEF FilterGroup, At, TypeOK
      <4>3. req'[p].pc \in {"groups", "scan"}
        BY <1>0, <4>1, <4>2 DEF Req
      <4> QED BY <3>2, <4>1, <4>2, <4>3 DEF FilterGroup
    <3>3. CASE CheckAd(p) \/ ReadAd(p)
      <4>1. PICK ads, ad, best : req' = [req EXCEPT ![p] =
                [req[p] EXCEPT !.ads = ads, !.ad = ad, !.best = best]]
        <5>1. CASE CheckAd(p)
          <6>1. PICK a \in req[p].ads : req' = [req EXCEPT ![p] =
                   [req[p] EXCEPT !.ads = @ \ {a},
                                  !.ad = IF link[p] => valid[a] THEN a ELSE NoAd]]
            BY <5>1 DEF CheckAd
          <6> WITNESS req[p].ads \ {a}, IF link[p] => valid[a] THEN a ELSE NoAd, req[p].best
          <6> QED BY <1>0, <6>1 DEF Req
        <5>2. CASE ReadAd(p)
          <6> DEFINE c == [ad |-> req[p].ad, read |-> IF link[p] THEN shows[req[p].ad] ELSE 0,
                           weight |-> IF link[p] THEN EffWeight(req[p].ad) ELSE 1]
          <6>1. req' = [req EXCEPT ![p] =
                   [req[p] EXCEPT !.ad = NoAd,
                                  !.best = IF Lighter(c, req[p].best) THEN c ELSE req[p].best]]
            BY <5>2 DEF ReadAd
          <6> HIDE DEF c
          <6> WITNESS req[p].ads, NoAd, IF Lighter(c, req[p].best) THEN c ELSE req[p].best
          <6> QED BY <1>0, <6>1 DEF Req
        <5> QED BY <3>3, <5>1, <5>2
      <4>2. req[p].pc = "scan" /\ req \in [Procs -> Req]
        BY <3>3 DEF CheckAd, ReadAd, At, TypeOK
      <4>3. req'[p].pc = "scan"
        BY <1>0, <4>1, <4>2 DEF Req
      <4> QED BY <3>3, <4>1, <4>2, <4>3 DEF CheckAd, ReadAd
    <3>4. CASE RankGroup(p)
      <4>1. PICK slots : req' = [req EXCEPT ![p] = [req[p] EXCEPT !.pc = "groups",
                           !.group = NoGroup, !.best = NoBest, !.slots = slots]]
        BY <3>4 DEF RankGroup
      <4>2. req'[p].pc = "groups" /\ req \in [Procs -> Req]
        BY <1>0, <4>1 DEF TypeOK, Req
      <4> QED BY <3>4, <4>1, <4>2 DEF RankGroup
    <3>5. CASE Answer(p)
      BY <1>0, <3>5 DEF Answer, NextSlot, NoReq, TypeOK, Req
    <3> QED BY <1>5, <3>1, <3>2, <3>3, <3>4, <3>5, <3>6
  <2> QED BY <2>1, CoveredKept
<1>6. ASSUME NEW p \in Procs, DropLink(p) \/ Restart(p) PROVE Covered'
  <2>1. /\ UNCHANGED counters
        /\ \A q \in Procs \ {p} : req'[q] = req[q] /\ link'[q] = link[q]
        /\ \/ ~link'[p]
           \/ req'[p].pc \notin {"charge", "click_charge"}
    BY <1>6 DEF DropLink, Restart, TypeOK, NoReq
  <2> QED BY <2>1, CoveredKept
<1>7. CASE \/ \E a \in Fickle : ToggleAd(a)
           \/ \E g \in Groups : ToggleGroup(g)
           \/ UNCHANGED vars
  <2>1. UNCHANGED <<counters, link, req>>
    BY <1>7 DEF ToggleAd, ToggleGroup, vars, counters
  <2> QED BY <2>1, CoveredKept
<1> QED
  BY <1>1, <1>2, <1>3, <1>4, <1>5, <1>6, <1>7 DEF Next

---------------------------------------------------------------------------
(* The choices of a worker.                                                *)

LEMMA WeightPositive ==
    ASSUME NEW a \in Ads
    PROVE  EffWeight(a) \in Nat \ {0}
  BY WeightType DEF EffWeight

\* Being lighter is transitive: x / wc < y / wb and y / wb <= z / wj.
LEMMA LighterTransitive ==
    ASSUME NEW x \in Nat, NEW y \in Nat, NEW z \in Nat,
           NEW wb \in Nat \ {0}, NEW wc \in Nat \ {0}, NEW wj \in Nat \ {0},
           x * wb < y * wc, y * wj <= z * wb
    PROVE  x * wj <= z * wc
<1> DEFINE a == x * wb  b == y * wc  c == y * wj  d == z * wb  e == x * wj  f == z * wc
<1>1. a \in Nat /\ b \in Nat /\ c \in Nat /\ d \in Nat /\ e \in Nat /\ f \in Nat
  OBVIOUS
<1>2. e * wb = a * wj /\ b * wj = c * wc /\ d * wc = f * wb
  OBVIOUS
<1>3. a < b /\ c <= d
  OBVIOUS
<1> HIDE DEF a, b, c, d, e, f
<1>4. a * wj <= b * wj
  BY <1>1, <1>3
<1>5. c * wc <= d * wc
  BY <1>1, <1>3
<1>6. e * wb <= f * wb
  <2>1. e * wb \in Nat /\ b * wj \in Nat /\ d * wc \in Nat
    BY <1>1
  <2> QED BY <2>1, <1>2, <1>4, <1>5
<1>7. e <= f
  BY <1>1, <1>6
<1> QED BY <1>7 DEF e, f

\* Counters that grow make the other ads heavier only.
LEMMA NoHeavierGrows ==
    ASSUME NEW c, c.read \in Nat, c.ad \in Ads, NEW j \in Ads,
           NEW s \in [Ads -> Nat], NEW t \in [Ads -> Nat], \A a \in Ads : s[a] <= t[a],
           NoHeavier(c, j, s)
    PROVE  NoHeavier(c, j, t)
<1> DEFINE w == EffWeight(c.ad)  x == (c.read + 1) * EffWeight(j)
<1>1. w \in Nat /\ x \in Nat /\ s[j] \in Nat /\ t[j] \in Nat /\ s[j] <= t[j]
  BY WeightPositive
<1>2. x <= (s[j] + 1) * w
  BY DEF NoHeavier
<1> HIDE DEF w, x
<1>3. (s[j] + 1) * w <= (t[j] + 1) * w
  BY <1>1
<1>4. x <= (t[j] + 1) * w
  BY <1>1, <1>2, <1>3
<1> QED BY <1>4 DEF NoHeavier, w, x

LEMMA FreshJustified ==
    ASSUME NEW r, r.slots = <<>>, r.group = NoGroup, r.best = NoBest, NEW s
    PROVE  Justified(r, s)
<1>1. AdsOf(NoGroup) = {}
  BY GroupOfType, NoAdIsNoAd DEF AdsOf
<1> QED BY <1>1 DEF Justified, NoBest

\* A request between two groups, or past them, with slots of an earlier state
\* of it.
LEMMA SlotsJustified ==
    ASSUME NEW r, Sound(r), NEW q, q.group = NoGroup,
           q.best = r.best \/ q.best = NoBest,
           \A k \in DOMAIN q.slots : \E l \in DOMAIN r.slots : q.slots[k] = r.slots[l],
           NEW s \in [Ads -> Nat], NEW t \in [Ads -> Nat], \A a \in Ads : s[a] <= t[a],
           Justified(r, s)
    PROVE  Justified(q, t)
<1>1. AdsOf(NoGroup) = {}
  BY GroupOfType, NoAdIsNoAd DEF AdsOf
<1>2. q.best.ad # NoAd => q.best.weight = EffWeight(q.best.ad)
  BY DEF Justified, NoBest
<1>3. ASSUME NEW k \in DOMAIN q.slots, NEW j \in Ads \ Fickle,
             GroupOf[j] = GroupOf[q.slots[k].ad]
      PROVE  NoHeavier(q.slots[k], j, t)
  <2>1. PICK l \in DOMAIN r.slots : q.slots[k] = r.slots[l]
    OBVIOUS
  <2>2. NoHeavier(r.slots[l], j, s)
    BY <1>3, <2>1 DEF Justified
  <2>3. r.slots[l].ad \in Ads /\ r.slots[l].read \in Nat
    BY SlotsHaveAds DEF Sound, Req
  <2> QED BY <2>1, <2>2, <2>3, NoHeavierGrows
<1> QED BY <1>1, <1>2, <1>3 DEF Justified

LEMMA JustifiedGrows ==
    ASSUME NEW r, Sound(r), NEW s \in [Ads -> Nat], NEW t \in [Ads -> Nat],
           \A a \in Ads : s[a] <= t[a], Justified(r, s)
    PROVE  Justified(r, t)
<1>1. ASSUME NEW k \in DOMAIN r.slots, NEW j \in Ads \ Fickle,
             GroupOf[j] = GroupOf[r.slots[k].ad]
      PROVE  NoHeavier(r.slots[k], j, t)
  <2>1. NoHeavier(r.slots[k], j, s)
    BY <1>1 DEF Justified
  <2>2. r.slots[k].ad \in Ads /\ r.slots[k].read \in Nat
    BY SlotsHaveAds DEF Sound, Req
  <2> QED BY <2>1, <2>2, NoHeavierGrows
<1>2. ASSUME NEW j \in AdsOf(r.group) \ (Fickle \cup r.ads \cup {r.ad})
      PROVE  r.best.ad # NoAd /\ NoHeavier(r.best, j, t)
  <2>1. r.best.ad # NoAd /\ NoHeavier(r.best, j, s) /\ j \in Ads
    BY DEF Justified, AdsOf
  <2>2. r.best.ad \in Ads /\ r.best.read \in Nat
    BY <2>1 DEF Sound, Req, Best
  <2> QED BY <2>1, <2>2, NoHeavierGrows
<1>3. r.best.ad # NoAd => r.best.weight = EffWeight(r.best.ad)
  BY DEF Justified
<1> QED BY <1>1, <1>2, <1>3 DEF Justified

\* get_eCPM compares one more ad with the best so far.
LEMMA ReadJustified ==
    ASSUME NEW r, Sound(r), r.pc = "scan", r.ad # NoAd, NEW s \in [Ads -> Nat], Justified(r, s),
           NEW c, c = [ad |-> r.ad, read |-> s[r.ad], weight |-> EffWeight(r.ad)],
           NEW best, best = IF Lighter(c, r.best) THEN c ELSE r.best
    PROVE  Justified([r EXCEPT !.ad = NoAd, !.best = best], s)
<1> DEFINE q == [r EXCEPT !.ad = NoAd, !.best = best]
<1>1. /\ r \in Req /\ r.ad \in AdsOf(r.group) \ r.ads /\ r.ad \in Ads
      /\ r.best \in Best
  BY DEF Sound, Shaped, AdsOf, Req
<1>2. /\ c.ad = r.ad /\ c.read = s[r.ad] /\ c.weight = EffWeight(r.ad)
      /\ s[r.ad] \in Nat
  BY <1>1
<1>3. /\ q.slots = r.slots /\ q.best = best /\ q.ad = NoAd /\ q.ads = r.ads
      /\ q.group = r.group
  BY <1>1 DEF Req
<1>4. r.best.ad # NoAd => /\ r.best.weight = EffWeight(r.best.ad)
                          /\ r.best.ad \in Ads /\ r.best.read \in Nat
  BY <1>1 DEF Justified, Best
<1> HIDE DEF q
<1>5. best.ad # NoAd /\ best.weight = EffWeight(best.ad)
  <2>1. CASE Lighter(c, r.best)
    BY <1>1, <1>2, <2>1, NoAdIsNoAd
  <2>2. CASE ~Lighter(c, r.best)
    BY <1>4, <2>2 DEF Lighter
  <2> QED BY <2>1, <2>2
<1>6. ASSUME NEW j \in AdsOf(r.group) \ (Fickle \cup r.ads)
      PROVE  NoHeavier(best, j, s)
  <2>1. j \in Ads /\ s[j] \in Nat /\ EffWeight(j) \in Nat \ {0}
        /\ EffWeight(r.ad) \in Nat \ {0}
    BY <1>1, WeightPositive DEF AdsOf
  <2>2. CASE Lighter(c, r.best)
    <3>1. CASE j = r.ad
      BY <1>2, <2>1, <2>2, <3>1 DEF NoHeavier
    <3>2. CASE j # r.ad
      <4>1. r.best.ad # NoAd /\ NoHeavier(r.best, j, s)
        BY <3>2 DEF Justified
      <4>2. (c.read + 1) * EffWeight(r.best.ad) < (r.best.read + 1) * EffWeight(c.ad)
        BY <1>2, <1>4, <2>2, <4>1 DEF Lighter
      <4>3. (r.best.read + 1) * EffWeight(j) <= (s[j] + 1) * EffWeight(r.best.ad)
        BY <4>1 DEF NoHeavier
      <4>4. EffWeight(r.best.ad) \in Nat \ {0} /\ EffWeight(c.ad) \in Nat \ {0}
        BY <1>2, <1>4, <2>1, <4>1, WeightPositive
      <4>5. c.read + 1 \in Nat /\ r.best.read + 1 \in Nat /\ s[j] + 1 \in Nat
        BY <1>2, <1>4, <2>1, <4>1
      <4>6. (c.read + 1) * EffWeight(j) <= (s[j] + 1) * EffWeight(c.ad)
        BY <2>1, <4>2, <4>3, <4>4, <4>5, LighterTransitive
      <4> QED BY <2>2, <4>6 DEF NoHeavier
    <3> QED BY <3>1, <3>2
  <2>3. CASE ~Lighter(c, r.best)
    <3>1. CASE j = r.ad
      <4>1. r.best.ad # NoAd /\ ~((c.read + 1) * r.best.weight < (r.best.read + 1) * c.weight)
        BY <2>3 DEF Lighter
      <4>2. /\ EffWeight(r.best.ad) \in Nat \ {0} /\ r.best.weight = EffWeight(r.best.ad)
            /\ c.weight = EffWeight(j) /\ c.read = s[j] /\ r.best.read \in Nat
        BY <1>2, <1>4, <3>1, <4>1, WeightPositive
      <4>3. (r.best.read + 1) * EffWeight(j) <= (s[j] + 1) * EffWeight(r.best.ad)
        BY <2>1, <4>1, <4>2
      <4> QED BY <2>3, <4>3 DEF NoHeavier
    <3>2. CASE j # r.ad
      <4>1. NoHeavier(r.best, j, s)
        BY <3>2 DEF Justified
      <4> QED BY <2>3, <4>1
    <3> QED BY <3>1, <3>2
  <2> QED BY <2>2, <2>3
<1>7. Justified(q, s)
  BY <1>3, <1>5, <1>6 DEF Justified
<1> QED BY <1>7 DEF q

\* The best ad of a group is ranked.
LEMMA RankJustified ==
    ASSUME NEW r, Sound(r), r.pc = "scan", r.ads = {}, r.ad = NoAd,
           NEW s \in [Ads -> Nat], Justified(r, s), NEW q, q.group = NoGroup, q.best = NoBest,
           NEW e,
           \A k \in DOMAIN q.slots :
              \/ \E l \in DOMAIN r.slots : q.slots[k] = r.slots[l]
              \/ /\ r.best.ad # NoAd
                 /\ q.slots[k] = [ad |-> r.best.ad, ecpm |-> e, read |-> r.best.read]
    PROVE  Justified(q, s)
<1>1. AdsOf(NoGroup) = {}
  BY GroupOfType, NoAdIsNoAd DEF AdsOf
<1>2. ASSUME NEW k \in DOMAIN q.slots, NEW j \in Ads \ Fickle,
             GroupOf[j] = GroupOf[q.slots[k].ad]
      PROVE  NoHeavier(q.slots[k], j, s)
  <2>1. CASE \E l \in DOMAIN r.slots : q.slots[k] = r.slots[l]
    BY <1>2, <2>1 DEF Justified
  <2>2. CASE /\ r.best.ad # NoAd
             /\ q.slots[k] = [ad |-> r.best.ad, ecpm |-> e, read |-> r.best.read]
    <3>1. q.slots[k].ad = r.best.ad /\ q.slots[k].read = r.best.read
      BY <2>2
    <3>2. r.best.ad \in AdsOf(r.group)
      BY <2>2 DEF Sound, Shaped
    <3>3. j \in AdsOf(r.group) /\ j # NoAd
      BY <1>2, <3>1, <3>2, NoAdIsNoAd DEF AdsOf
    <3>4. NoHeavier(r.best, j, s)
      BY <3>3 DEF Justified
    <3> QED BY <3>1, <3>4 DEF NoHeavier
  <2> QED BY <2>1, <2>2
<1> QED BY <1>1, <1>2 DEF Justified, NoBest

\* What a step does to one worker is all there is to look at.
LEMMA OneJustified ==
    ASSUME TypeOK, ReqShape, SlotsRanked, ChoicesJustified, NEW p \in Procs,
           \A q \in Procs \ {p} : req'[q] = req[q] /\ (link'[q] => link[q]),
           shows' \in [Ads -> Nat], \A a \in Ads : shows[a] <= shows'[a],
           link'[p] => Justified(req'[p], shows')
    PROVE  ChoicesJustified'
<1> SUFFICES ASSUME NEW q \in Procs, q # p, link'[q]
             PROVE  Justified(req'[q], shows')
  BY DEF ChoicesJustified
<1>1. Justified(req[q], shows) /\ Sound(req[q]) /\ shows \in [Ads -> Nat]
  BY DEF ChoicesJustified, TypeOK, ReqShape, SlotsRanked, Sound
<1> QED BY <1>1, JustifiedGrows

LEMMA NextSteady ==
    ASSUME TypeOK, SteadyValid, [Next]_vars
    PROVE  SteadyValid'
<1>1. ASSUME NEW a \in Fickle, ToggleAd(a) PROVE SteadyValid'
  BY <1>1 DEF ToggleAd, SteadyValid, TypeOK
<1>2. CASE UNCHANGED valid
  BY <1>2 DEF SteadyValid
<1>3. (\E a \in Fickle : ToggleAd(a)) \/ UNCHANGED valid
  BY DEF Next, vars, flags, Request, FilterGroup, CheckAd, ReadAd, RankGroup, Answer,
         CountShow, ChargeShow, Click, CountClick, ChargeClick, DropLink, Restart, ToggleGroup
<1> QED BY <1>1, <1>2, <1>3

LEMMA NextJustified ==
    ASSUME TypeOK, ReqShape, SlotsRanked, SteadyValid, ChoicesJustified, [Next]_vars
    PROVE  ChoicesJustified'
<1>0. ASSUME NEW p \in Procs
      PROVE  /\ Sound(req[p]) /\ req[p] \in Req
             /\ link[p] => Justified(req[p], shows)
  BY DEF TypeOK, ReqShape, SlotsRanked, Sound, ChoicesJustified
<1>00. shows \in [Ads -> Nat] /\ req \in [Procs -> Req] /\ link \in [Procs -> BOOLEAN]
       /\ \A a \in Ads : shows[a] <= shows[a]
  BY DEF TypeOK
<1>1. ASSUME NEW p \in Procs, Request(p) \/ Click(p) \/ ChargeClick(p) \/ Restart(p)
      PROVE  ChoicesJustified'
  <2>1. /\ UNCHANGED shows
        /\ \A q \in Procs \ {p} : req'[q] = req[q] /\ link'[q] = link[q]
        /\ req'[p].slots = <<>> /\ req'[p].group = NoGroup /\ req'[p].best = NoBest
    <3>1. CASE Request(p)
      BY <1>00, <3>1 DEF Request, NoReq, counters
    <3>2. CASE Click(p)
      BY <1>00, <3>2 DEF Click, NoReq, counters
    <3>3. CASE ChargeClick(p)
      BY <1>00, <3>3 DEF ChargeClick, NoReq
    <3>4. CASE Restart(p)
      BY <1>00, <3>4 DEF Restart, NoReq, counters
    <3> QED BY <1>1, <3>1, <3>2, <3>3, <3>4
  <2>2. Justified(req'[p], shows')
    BY <2>1, FreshJustified
  <2> QED BY <1>00, <2>1, <2>2, OneJustified
<1>2. ASSUME NEW p \in Procs, FilterGroup(p) PROVE ChoicesJustified'
  <2>1. PICK g \in req[p].groups :
          \/ req' = [req EXCEPT ![p] = [req[p] EXCEPT !.groups = @ \ {g}]]
          \/ req' = [req EXCEPT ![p] = [req[p] EXCEPT !.groups = @ \ {g}, !.pc = "scan",
                                                 !.group = g, !.ads = AdsOf(g)]]
    BY <1>2 DEF FilterGroup
  <2>2. UNCHANGED <<shows, link>> /\ req[p].group = NoGroup
    BY <1>0, <1>2 DEF FilterGroup, counters, At, Sound, Shaped
  <2>3. /\ \A q \in Procs \ {p} : req'[q] = req[q]
        /\ req'[p].slots = req[p].slots /\ req'[p].best = req[p].best
        /\ \/ req'[p].group = NoGroup
           \/ req'[p].ads = AdsOf(req'[p].group)
    <3>1. CASE req' = [req EXCEPT ![p] = [req[p] EXCEPT !.groups = @ \ {g}]]
      BY <1>0, <1>00, <2>2, <3>1 DEF Req
    <3>2. CASE req' = [req EXCEPT ![p] = [req[p] EXCEPT !.groups = @ \ {g}, !.pc = "scan",
                                                   !.group = g, !.ads = AdsOf(g)]]
      BY <1>0, <1>00, <3>2 DEF Req
    <3> QED BY <2>1, <3>1, <3>2
  <2>4. link[p] => Justified(req'[p], shows)
    <3>1. AdsOf(NoGroup) = {}
      BY GroupOfType, NoAdIsNoAd DEF AdsOf
    <3> QED BY <1>0, <2>3, <3>1 DEF Justified
  <2> QED BY <1>00, <2>2, <2>3, <2>4, OneJustified
<1>3. ASSUME NEW p \in Procs, CheckAd(p) PROVE ChoicesJustified'
  <2>1. PICK a \in req[p].ads : req' = [req EXCEPT ![p] =
           [req[p] EXCEPT !.ads = @ \ {a}, !.ad = IF link[p] => valid[a] THEN a ELSE NoAd]]
    BY <1>3 DEF CheckAd
  <2>2. UNCHANGED <<shows, link>> /\ req[p].ad = NoAd
    BY <1>3 DEF CheckAd, counters
  <2>3. /\ \A q \in Procs \ {p} : req'[q] = req[q]
        /\ req'[p].slots = req[p].slots /\ req'[p].best = req[p].best
        /\ req'[p].group = req[p].group /\ req'[p].ads = req[p].ads \ {a}
        /\ req'[p].ad = IF link[p] => valid[a] THEN a ELSE NoAd
    BY <1>0, <1>00, <2>1 DEF Req
  <2>4. link[p] => Justified(req'[p], shows)
    <3> SUFFICES ASSUME link[p] PROVE Justified(req'[p], shows)
      OBVIOUS
    <3>1. a \in Ads
      BY <1>0 DEF Req
    <3>2. a \in Fickle \/ req'[p].ad = a
      BY <2>3, <3>1 DEF SteadyValid
    <3>3. \A j \in AdsOf(req'[p].group) \ (Fickle \cup req'[p].ads \cup {req'[p].ad}) :
             j \in AdsOf(req[p].group) \ (Fickle \cup req[p].ads \cup {req[p].ad})
      BY <2>2, <2>3, <3>2, NoAdIsNoAd DEF AdsOf
    <3> QED BY <1>0, <2>3, <3>3 DEF Justified
  <2> QED BY <1>00, <2>2, <2>3, <2>4, OneJustified
<1>4. ASSUME NEW p \in Procs, ReadAd(p) PROVE ChoicesJustified'
  <2> DEFINE c == [ad |-> req[p].ad, read |-> IF link[p] THEN shows[req[p].ad] ELSE 0,
                   weight |-> IF link[p] THEN EffWeight(req[p].ad) ELSE 1]
             best == IF Lighter(c, req[p].best) THEN c ELSE req[p].best
  <2>1. req' = [req EXCEPT ![p] = [req[p] EXCEPT !.ad = NoAd, !.best = best]]
    BY <1>4 DEF ReadAd
  <2>2. UNCHANGED <<shows, link>> /\ req[p].ad # NoAd /\ req[p].pc = "scan"
    BY <1>4 DEF ReadAd, counters, At
  <2>3. req'[p] = [req[p] EXCEPT !.ad = NoAd, !.best = best]
        /\ \A q \in Procs \ {p} : req'[q] = req[q]
    BY <1>00, <2>1
  <2>4. link[p] => Justified(req'[p], shows)
    <3> SUFFICES ASSUME link[p] PROVE Justified(req'[p], shows)
      OBVIOUS
    <3>1. c = [ad |-> req[p].ad, read |-> shows[req[p].ad], weight |-> EffWeight(req[p].ad)]
      OBVIOUS
    <3>2. Justified([req[p] EXCEPT !.ad = NoAd, !.best = best], shows)
      <4> HIDE DEF c
      <4>1. best = IF Lighter(c, req[p].best) THEN c ELSE req[p].best
        OBVIOUS
      <4> HIDE DEF best
      <4> QED BY <1>0, <1>00, <2>2, <3>1, <4>1, ReadJustified
    <3> QED BY <2>3, <3>2
  <2> QED BY <1>00, <2>2, <2>3, <2>4, OneJustified
<1>5. ASSUME NEW p \in Procs, RankGroup(p) PROVE ChoicesJustified'
  <2>1. PICK e \in Ecpms :
          LET s == [ad |-> req[p].best.ad, ecpm |-> e, read |-> req[p].best.read]
          IN req' = [req EXCEPT ![p] =
                        [req[p] EXCEPT !.pc = "groups", !.group = NoGroup, !.best = NoBest,
                                  !.slots = IF s.ad = NoAd THEN @ ELSE Insert(@, s, req[p].n)]]
    BY <1>5 DEF RankGroup
  <2> DEFINE s == [ad |-> req[p].best.ad, ecpm |-> e, read |-> req[p].best.read]
             slots == IF s.ad = NoAd THEN req[p].slots ELSE Insert(req[p].slots, s, req[p].n)
  <2>2. /\ UNCHANGED <<shows, link>>
        /\ req[p].pc = "scan" /\ req[p].ads = {} /\ req[p].ad = NoAd
        /\ req[p].slots \in Seq(Slot) /\ req[p].n \in Nat \ {0} /\ Len(req[p].slots) <= req[p].n
    BY <1>0, <1>5, BoundsType DEF RankGroup, At, Sound, Ranked, Req, counters
  <2>3. /\ \A q \in Procs \ {p} : req'[q] = req[q]
        /\ req'[p].slots = slots /\ req'[p].group = NoGroup /\ req'[p].best = NoBest
    <3>1. req' = [req EXCEPT ![p] = [req[p] EXCEPT !.pc = "groups", !.group = NoGroup,
                                                   !.best = NoBest, !.slots = slots]]
      BY <2>1
    <3> HIDE DEF slots
    <3> QED BY <1>0, <1>00, <3>1 DEF Req
  <2>4. \A k \in DOMAIN slots :
           \/ \E l \in DOMAIN req[p].slots : slots[k] = req[p].slots[l]
           \/ req[p].best.ad # NoAd /\ slots[k] = s
    <3>1. CASE s.ad = NoAd
      BY <3>1
    <3>2. CASE s.ad # NoAd
      <4>1. s \in Slot
        <5>1. req[p].best \in Best
          BY <1>0 DEF Req
        <5> QED BY <3>2, <5>1, EcpmsType DEF Slot, Best
      <4> QED BY <2>2, <3>2, <4>1, InsertKeeps
    <3> QED BY <3>1, <3>2
  <2>5. link[p] => Justified(req'[p], shows)
    <3> HIDE DEF slots
    <3>1. \A k \in DOMAIN req'[p].slots :
             \/ \E l \in DOMAIN req[p].slots : req'[p].slots[k] = req[p].slots[l]
             \/ /\ req[p].best.ad # NoAd
                /\ req'[p].slots[k] =
                      [ad |-> req[p].best.ad, ecpm |-> e, read |-> req[p].best.read]
      BY <2>3, <2>4
    <3>2. link[p] => Sound(req[p]) /\ Justified(req[p], shows)
      BY <1>0
    <3> HIDE DEF s
    <3> QED BY <1>00, <2>2, <2>3, <3>1, <3>2, RankJustified
  <2> QED BY <1>00, <2>2, <2>3, <2>5, OneJustified
<1>6. ASSUME NEW p \in Procs, Answer(p) \/ ChargeShow(p) PROVE ChoicesJustified'
  <2>1. UNCHANGED <<shows, link>> /\ req' = [req EXCEPT ![p] = NextSlot(req[p])]
        /\ req[p].group = NoGroup
    BY <1>0, <1>6 DEF Answer, ChargeShow, counters, At, Sound, Shaped
  <2>2. req'[p] = NextSlot(req[p]) /\ \A q \in Procs \ {p} : req'[q] = req[q]
    BY <1>00, <2>1
  <2>3. /\ NextSlot(req[p]).group = NoGroup
        /\ NextSlot(req[p]).best = req[p].best \/ NextSlot(req[p]).best = NoBest
        /\ NextSlot(req[p]).slots = req[p].slots
    BY <1>0, <2>1 DEF NextSlot, NoReq, Req
  <2>4. link[p] => Justified(req'[p], shows)
    BY <1>0, <1>00, <2>2, <2>3, SlotsJustified
  <2> QED BY <1>00, <2>1, <2>2, <2>4, OneJustified
<1>7. ASSUME NEW p \in Procs, CountShow(p) PROVE ChoicesJustified'
  <2> DEFINE a == Head(req[p].slots).ad
  <2>1. /\ req[p].pc = "show" /\ UNCHANGED link
        /\ req' = [req EXCEPT ![p] =
                      [req[p] EXCEPT !.pc = "charge", !.ad = a, !.slots = Tail(req[p].slots)]]
    BY <1>7 DEF CountShow, At
  <2>2. a \in Ads /\ req[p].group = NoGroup
    BY <1>0, <2>1, TailSound DEF Slot, Sound, Shaped
  <2>3. \A k \in DOMAIN Tail(req[p].slots) :
           \E l \in DOMAIN req[p].slots : Tail(req[p].slots)[k] = req[p].slots[l]
    BY <1>0, <2>1, TailSound
  <2> HIDE DEF a
  <2>4. /\ \A q \in Procs \ {p} : req'[q] = req[q]
        /\ req'[p].slots = Tail(req[p].slots) /\ req'[p].group = NoGroup
        /\ req'[p].best = req[p].best
    BY <1>0, <1>00, <2>1, <2>2 DEF Req
  <2>5. shows' \in [Ads -> Nat] /\ \A b \in Ads : shows[b] <= shows'[b]
    <3>1. \/ Moved(shows, shows', lost_shows, lost_shows', a)
          \/ UNCHANGED shows
      BY <1>7, ShowMoved DEF a
    <3>2. /\ shows \in [Ads -> Nat] /\ lost_shows \in [Ads -> Nat]
          /\ \A b \in Ads : shows[b] \in Nat
      BY <1>00 DEF TypeOK
    <3>3. /\ shows' \in [Ads -> Nat]
          /\ \A b \in Ads \ {a} : shows'[b] = shows[b]
          /\ shows'[a] = shows[a] \/ shows'[a] = shows[a] + 1
      BY <2>2, <3>1, <3>2, MovedSum
    <3> QED BY <2>2, <3>2, <3>3
  <2>6. link[p] => Justified(req'[p], shows')
    <3> SUFFICES ASSUME link[p] PROVE Justified(req'[p], shows')
      OBVIOUS
    <3> DEFINE q == req'[p]  t == shows'
    <3>1. \A k \in DOMAIN q.slots : \E l \in DOMAIN req[p].slots : q.slots[k] = req[p].slots[l]
      BY <2>3, <2>4
    <3>2. Sound(req[p]) /\ Justified(req[p], shows)
      BY <1>0
    <3>3. q.group = NoGroup /\ q.best = req[p].best
          /\ t \in [Ads -> Nat] /\ \A b \in Ads : shows[b] <= t[b]
      BY <2>4, <2>5
    <3> HIDE DEF q, t
    <3>4. Justified(q, t)
      BY <1>00, <3>1, <3>2, <3>3, SlotsJustified
    <3> QED BY <3>4 DEF q, t
  <2> QED BY <1>00, <2>1, <2>4, <2>5, <2>6, OneJustified
<1>8. ASSUME NEW p \in Procs, CountClick(p) PROVE ChoicesJustified'
  <2>1. /\ UNCHANGED <<shows, link>> /\ req[p].group = NoGroup
        /\ req' = [req EXCEPT ![p] = [req[p] EXCEPT !.pc = "click_charge"]]
    BY <1>0, <1>8 DEF CountClick, At, Sound, Shaped
  <2>2. /\ \A q \in Procs \ {p} : req'[q] = req[q]
        /\ req'[p].slots = req[p].slots /\ req'[p].group = NoGroup
        /\ req'[p].best = req[p].best
    BY <1>0, <1>00, <2>1 DEF Req
  <2>3. link[p] => Justified(req'[p], shows)
    BY <1>0, <1>00, <2>2, SlotsJustified
  <2> QED BY <1>00, <2>1, <2>2, <2>3, OneJustified
<1>9. ASSUME NEW p \in Procs, DropLink(p) PROVE ChoicesJustified'
  BY <1>9 DEF DropLink, ChoicesJustified, counters, TypeOK
<1>10. CASE \/ \E a \in Fickle : ToggleAd(a)
            \/ \E g \in Groups : ToggleGroup(g)
            \/ UNCHANGED vars
  <2>1. UNCHANGED <<shows, link, req>>
    BY <1>10 DEF ToggleAd, ToggleGroup, vars, counters
  <2> QED BY <2>1 DEF ChoicesJustified
<1> QED
  BY <1>1, <1>2, <1>3, <1>4, <1>5, <1>6, <1>7, <1>8, <1>9, <1>10 DEF Next

---------------------------------------------------------------------------
(* How many workers can still show an ad.                                  *)

LEMMA HoldersType ==
    ASSUME NEW i, NEW v
    PROVE  /\ Holders(i, v) \subseteq Procs /\ Holders(i, v)' \subseteq Procs
           /\ Cardinality(Holders(i, v)) \in Nat /\ Cardinality(Holders(i, v)') \in Nat
<1>1. Holders(i, v) \subseteq Procs /\ Holders(i, v)' \subseteq Procs
  BY DEF Holders
<1> QED BY <1>1, ProcsCount

\* The bound survives a step that counts no show and makes nobody choose an
\* ad because of an old counter.
LEMMA HoldersKept ==
    ASSUME TypeOK, HoldersBounded, UNCHANGED shows,
           \A q \in Procs : \A i \in Ads : \A v \in 0..shows[i] :
              link'[q] /\ Holds(req'[q], i, v) => link[q] /\ Holds(req[q], i, v)
    PROVE  HoldersBounded'
<1> SUFFICES ASSUME NEW i \in Ads, NEW j \in Ads \ Fickle, NEW v \in 0..shows[i],
                    GroupOf[i] = GroupOf[j],
                    (v + 1) * EffWeight(j) > (shows[j] + 1) * EffWeight(i)
             PROVE  shows[i] + Cardinality(Holders(i, v)') < v + Cardinality(Procs)
  BY DEF HoldersBounded
<1>1. shows[i] + Cardinality(Holders(i, v)) < v + Cardinality(Procs)
  BY DEF HoldersBounded
<1>2. Holders(i, v)' \subseteq Holders(i, v)
  BY DEF Holders
<1>3. Cardinality(Holders(i, v)') <= Cardinality(Holders(i, v))
  BY <1>2, HoldersType, FewerWorkers
<1>4. /\ shows[i] \in Nat /\ v \in Nat
      /\ Cardinality(Procs) \in Nat
  BY ProcsCount DEF TypeOK
<1> QED BY <1>1, <1>3, <1>4, HoldersType

\* The same, when only the request of p changes.
LEMMA OneHolds ==
    ASSUME TypeOK, HoldersBounded, UNCHANGED shows, NEW p \in Procs,
           \A q \in Procs \ {p} : req'[q] = req[q] /\ (link'[q] => link[q]),
           link'[p] => link[p],
           \A i \in Ads : \A v \in 0..shows[i] :
              link[p] /\ Holds(req'[p], i, v) => Holds(req[p], i, v)
    PROVE  HoldersBounded'
<1>1. ASSUME NEW q \in Procs, NEW i \in Ads, NEW v \in 0..shows[i],
             link'[q], Holds(req'[q], i, v)
      PROVE  link[q] /\ Holds(req[q], i, v)
  <2>1. CASE q = p
    BY <1>1, <2>1
  <2>2. CASE q # p
    BY <1>1, <2>2
  <2> QED BY <2>1, <2>2
<1> QED BY <1>1, HoldersKept

\* Without a best ad and with fewer slots, a request holds less.
LEMMA HoldsLess ==
    ASSUME NEW r, NEW q, NEW i \in Ads, NEW v,
           q.best = r.best \/ q.best = NoBest,
           \A k \in DOMAIN q.slots : \E l \in DOMAIN r.slots : q.slots[k] = r.slots[l],
           Holds(q, i, v)
    PROVE  Holds(r, i, v)
<1>1. NoBest.ad # i
  BY NoAdIsNoAd DEF NoBest
<1> QED BY <1>1 DEF Holds

\* A worker with connection that counts a show of a did hold it, and holds it
\* no longer.
LEMMA CountHolds ==
    ASSUME NEW r, Sound(r), r.pc = "show", NEW s \in [Ads -> Nat], Justified(r, s),
           NEW a, a = Head(r.slots).ad, NEW q, q.best = r.best, q.slots = Tail(r.slots)
    PROVE  /\ a \in Ads
           /\ \A v \in Nat : ~Holds(q, a, v)
           /\ \A j \in Ads \ Fickle, v \in Nat :
                 GroupOf[a] = GroupOf[j] /\ (v + 1) * EffWeight(j) > (s[j] + 1) * EffWeight(a)
                    => Holds(r, a, v)
<1>1. /\ Head(r.slots) \in Slot /\ 1 \in DOMAIN r.slots /\ Head(r.slots) = r.slots[1]
      /\ DOMAIN Tail(r.slots) = 1..(Len(r.slots) - 1)
      /\ \A k \in DOMAIN Tail(r.slots) :
            k + 1 \in DOMAIN r.slots /\ Tail(r.slots)[k] = r.slots[k+1]
  BY TailSound
<1>2. a \in Ads
  BY <1>1 DEF Slot
<1>3. ASSUME NEW v \in Nat PROVE ~Holds(q, a, v)
  <2>1. q.best.ad # a
    <3>1. AdsOf(NoGroup) = {}
      BY GroupOfType, NoAdIsNoAd DEF AdsOf
    <3>2. r.group = NoGroup
      BY DEF Sound, Shaped
    <3> QED BY <1>2, <3>1, <3>2, NoAdIsNoAd DEF Sound, Shaped
  <2>2. ASSUME NEW k \in DOMAIN q.slots PROVE q.slots[k].ad # a
    <3>1. k + 1 \in DOMAIN r.slots /\ q.slots[k] = r.slots[k+1] /\ 1 < k + 1
      BY <1>1
    <3>2. GroupOf[r.slots[1].ad] # GroupOf[r.slots[k+1].ad]
      BY <1>1, <3>1 DEF Sound, Ranked
    <3> QED BY <1>1, <3>1, <3>2
  <2> QED BY <2>1, <2>2 DEF Holds
<1>4. ASSUME NEW j \in Ads \ Fickle, NEW v \in Nat, GroupOf[a] = GroupOf[j],
             (v + 1) * EffWeight(j) > (s[j] + 1) * EffWeight(a)
      PROVE  Holds(r, a, v)
  <2> DEFINE w == EffWeight(j)  x == (s[j] + 1) * EffWeight(a)  read == r.slots[1].read
  <2>1. w \in Nat \ {0} /\ x \in Nat
    BY <1>2, WeightPositive
  <2>2. NoHeavier(r.slots[1], j, s)
    BY <1>1, <1>4 DEF Justified
  <2>3. (read + 1) * w <= x
    BY <1>1, <2>2 DEF NoHeavier
  <2>4. (v + 1) * w > x
    BY <1>4
  <2>5. read \in Nat
    BY <1>1 DEF Slot
  <2> HIDE DEF w, x, read
  <2>6. read < v
    <3>1. SUFFICES ASSUME read >= v PROVE FALSE
      BY <2>5
    <3>2. (read + 1) * w >= (v + 1) * w
      BY <2>1, <2>5, <3>1
    <3>3. (read + 1) * w \in Nat /\ (v + 1) * w \in Nat
      BY <2>1, <2>5
    <3> QED BY <2>1, <2>3, <2>4, <3>2, <3>3
  <2> QED BY <1>1, <2>6 DEF Holds, read
<1> QED BY <1>2, <1>3, <1>4

LEMMA NextHolders ==
    ASSUME TypeOK, ReqShape, SlotsRanked, ChoicesJustified, HoldersBounded, [Next]_vars
    PROVE  HoldersBounded'
<1>0. ASSUME NEW p \in Procs
      PROVE  /\ Sound(req[p]) /\ req[p] \in Req
             /\ link[p] => Justified(req[p], shows)
  BY DEF TypeOK, ReqShape, SlotsRanked, Sound, ChoicesJustified
<1>00. shows \in [Ads -> Nat] /\ req \in [Procs -> Req] /\ link \in [Procs -> BOOLEAN]
  BY DEF TypeOK
<1>1. ASSUME NEW p \in Procs, Request(p) \/ Click(p) \/ ChargeClick(p) \/ Restart(p)
      PROVE  HoldersBounded'
  <2>1. /\ UNCHANGED shows
        /\ \A q \in Procs \ {p} : req'[q] = req[q] /\ link'[q] = link[q]
        /\ req'[p].slots = <<>> /\ req'[p].best = NoBest
    <3>1. CASE Request(p)
      BY <1>00, <3>1 DEF Request, NoReq, counters
    <3>2. CASE Click(p)
      BY <1>00, <3>2 DEF Click, NoReq, counters
    <3>3. CASE ChargeClick(p)
      BY <1>00, <3>3 DEF ChargeClick, NoReq
    <3>4. CASE Restart(p)
      BY <1>00, <3>4 DEF Restart, NoReq, counters
    <3> QED BY <1>1, <3>1, <3>2, <3>3, <3>4
  <2>2. \A i \in Ads : \A v : ~Holds(req'[p], i, v)
    BY <2>1, NoAdIsNoAd DEF Holds, NoBest
  <2>3. \A q \in Procs : \A i \in Ads : \A v \in 0..shows[i] :
           link'[q] /\ Holds(req'[q], i, v) => link[q] /\ Holds(req[q], i, v)
    BY <2>1, <2>2
  <2> QED BY <2>1, <2>3, HoldersKept
<1>2. ASSUME NEW p \in Procs,
             FilterGroup(p) \/ CheckAd(p) \/ Answer(p) \/ ChargeShow(p) \/ CountClick(p)
      PROVE  HoldersBounded'
  <2>1. /\ UNCHANGED <<shows, link>>
        /\ \A q \in Procs \ {p} : req'[q] = req[q]
        /\ req'[p].slots = req[p].slots
        /\ req'[p].best = req[p].best \/ req'[p].best = NoBest
    <3>1. CASE FilterGroup(p)
      <4>1. PICK g \in req[p].groups :
              \/ req' = [req EXCEPT ![p] = [req[p] EXCEPT !.groups = @ \ {g}]]
              \/ req' = [req EXCEPT ![p] = [req[p] EXCEPT !.groups = @ \ {g}, !.pc = "scan",
                                                     !.group = g, !.ads = AdsOf(g)]]
        BY <3>1 DEF FilterGroup
      <4>2. CASE req' = [req EXCEPT ![p] = [req[p] EXCEPT !.groups = @ \ {g}]]
        BY <1>0, <1>00, <3>1, <4>2 DEF FilterGroup, counters, Req
      <4>3. CASE req' = [req EXCEPT ![p] = [req[p] EXCEPT !.groups = @ \ {g}, !.pc = "scan",
                                                     !.group = g, !.ads = AdsOf(g)]]
        BY <1>0, <1>00, <3>1, <4>3 DEF FilterGroup, counters, Req
      <4> QED BY <4>1, <4>2, <4>3
    <3>2. CASE CheckAd(p)
      <4>1. PICK a \in req[p].ads : req' = [req EXCEPT ![p] =
               [req[p] EXCEPT !.ads = @ \ {a}, !.ad = IF link[p] => valid[a] THEN a ELSE NoAd]]
        BY <3>2 DEF CheckAd
      <4> QED BY <1>0, <1>00, <3>2, <4>1 DEF CheckAd, counters, Req
    <3>3. CASE Answer(p) \/ ChargeShow(p)
      <4>1. UNCHANGED <<shows, link>> /\ req' = [req EXCEPT ![p] = NextSlot(req[p])]
        BY <3>3 DEF Answer, ChargeShow, counters
      <4> QED BY <1>0, <1>00, <4>1 DEF NextSlot, NoReq, Req
    <3>4. CASE CountClick(p)
      BY <1>0, <1>00, <3>4 DEF CountClick, Req
    <3> QED BY <1>2, <3>1, <3>2, <3>3, <3>4
  <2>2. \A i \in Ads : \A v : Holds(req'[p], i, v) => Holds(req[p], i, v)
    BY <2>1, NoAdIsNoAd DEF Holds, NoBest
  <2> QED BY <2>1, <2>2, OneHolds
<1>3. ASSUME NEW p \in Procs, ReadAd(p) PROVE HoldersBounded'
  <2> DEFINE c == [ad |-> req[p].ad, read |-> IF link[p] THEN shows[req[p].ad] ELSE 0,
                   weight |-> IF link[p] THEN EffWeight(req[p].ad) ELSE 1]
             best == IF Lighter(c, req[p].best) THEN c ELSE req[p].best
  <2>1. /\ req' = [req EXCEPT ![p] = [req[p] EXCEPT !.ad = NoAd, !.best = best]]
        /\ UNCHANGED <<shows, link>> /\ req[p].pc = "scan" /\ req[p].ad # NoAd
    BY <1>3 DEF ReadAd, counters, At
  <2>2. c.ad = req[p].ad /\ (link[p] => c.read = shows[req[p].ad])
    OBVIOUS
  <2>3. best \in {c, req[p].best}
    OBVIOUS
  <2> HIDE DEF c, best
  <2>4. /\ \A q \in Procs \ {p} : req'[q] = req[q]
        /\ req'[p].slots = req[p].slots /\ req'[p].best = best
    BY <1>0, <1>00, <2>1 DEF Req
  <2>5. ASSUME NEW i \in Ads, NEW v \in 0..shows[i], link[p], Holds(req'[p], i, v)
        PROVE  Holds(req[p], i, v)
    <3>1. CASE best = req[p].best
      BY <2>4, <2>5, <3>1 DEF Holds
    <3>2. CASE best = c
      <4>1. ~(c.ad = i /\ c.read < v)
        <5>1. shows[i] \in Nat /\ v <= shows[i]
          BY <1>00
        <5>2. c.ad = i => c.read = shows[i]
          BY <2>2, <2>5
        <5> QED BY <5>1, <5>2
      <4> QED BY <2>4, <2>5, <3>2, <4>1 DEF Holds
    <3> QED BY <2>3, <3>1, <3>2
  <2> QED BY <2>1, <2>4, <2>5, OneHolds
<1>4. ASSUME NEW p \in Procs, RankGroup(p) PROVE HoldersBounded'
  <2>1. PICK e \in Ecpms :
          LET s == [ad |-> req[p].best.ad, ecpm |-> e, read |-> req[p].best.read]
          IN req' = [req EXCEPT ![p] =
                        [req[p] EXCEPT !.pc = "groups", !.group = NoGroup, !.best = NoBest,
                                  !.slots = IF s.ad = NoAd THEN @ ELSE Insert(@, s, req[p].n)]]
    BY <1>4 DEF RankGroup
  <2> DEFINE s == [ad |-> req[p].best.ad, ecpm |-> e, read |-> req[p].best.read]
             slots == IF s.ad = NoAd THEN req[p].slots ELSE Insert(req[p].slots, s, req[p].n)
  <2>2. /\ UNCHANGED <<shows, link>>
        /\ req[p].slots \in Seq(Slot) /\ req[p].n \in Nat \ {0} /\ Len(req[p].slots) <= req[p].n
    BY <1>0, <1>4, BoundsType DEF RankGroup, Sound, Ranked, Req, counters
  <2>3. /\ \A q \in Procs \ {p} : req'[q] = req[q]
        /\ req'[p].slots = slots /\ req'[p].best = NoBest
    <3>1. req' = [req EXCEPT ![p] = [req[p] EXCEPT !.pc = "groups", !.group = NoGroup,
                                                   !.best = NoBest, !.slots = slots]]
      BY <2>1
    <3> HIDE DEF slots
    <3> QED BY <1>0, <1>00, <3>1 DEF Req
  <2>4. \A k \in DOMAIN slots :
           \/ \E l \in DOMAIN req[p].slots : slots[k] = req[p].slots[l]
           \/ slots[k].ad = req[p].best.ad /\ slots[k].read = req[p].best.read
    <3>1. CASE s.ad = NoAd
      BY <3>1
    <3>2. CASE s.ad # NoAd
      <4>1. s \in Slot
        <5>1. req[p].best \in Best
          BY <1>0 DEF Req
        <5> QED BY <3>2, <5>1, EcpmsType DEF Slot, Best
      <4>2. \A k \in DOMAIN slots :
               slots[k] = s \/ \E l \in DOMAIN req[p].slots : slots[k] = req[p].slots[l]
        BY <2>2, <3>2, <4>1, InsertKeeps
      <4>3. s.ad = req[p].best.ad /\ s.read = req[p].best.read
        OBVIOUS
      <4> HIDE DEF slots, s
      <4> QED BY <4>2, <4>3
    <3> QED BY <3>1, <3>2
  <2> HIDE DEF slots
  <2>5. \A i \in Ads : \A v : Holds(req'[p], i, v) => Holds(req[p], i, v)
    BY <2>3, <2>4, NoAdIsNoAd DEF Holds, NoBest
  <2> QED BY <2>2, <2>3, <2>5, OneHolds
<1>5. ASSUME NEW p \in Procs, CountShow(p) PROVE HoldersBounded'
  <2> DEFINE a == Head(req[p].slots).ad
  <2>1. /\ req[p].pc = "show" /\ UNCHANGED link
        /\ req' = [req EXCEPT ![p] =
                      [req[p] EXCEPT !.pc = "charge", !.ad = a, !.slots = Tail(req[p].slots)]]
    BY <1>5 DEF CountShow, At
  <2>2. a \in Ads
    BY <1>0, <2>1, TailSound DEF Slot
  <2>3. \A k \in DOMAIN Tail(req[p].slots) :
           \E l \in DOMAIN req[p].slots : Tail(req[p].slots)[k] = req[p].slots[l]
    BY <1>0, <2>1, TailSound
  <2>4. a = Head(req[p].slots).ad
    OBVIOUS
  <2> HIDE DEF a
  <2>5. /\ \A q \in Procs \ {p} : req'[q] = req[q]
        /\ req'[p].slots = Tail(req[p].slots) /\ req'[p].best = req[p].best
    BY <1>0, <1>00, <2>1 DEF Req
  <2>6. /\ \A b \in Ads : shows[b] \in Nat
        /\ \A b \in Ads \ {a} : shows'[b] = shows[b]
        /\ shows'[a] = shows[a] \/ (link[p] /\ shows'[a] = shows[a] + 1)
    <3>1. \/ link[p] /\ Moved(shows, shows', lost_shows, lost_shows', a)
          \/ UNCHANGED shows
      BY <1>5, <2>4, ShowMoved
    <3>2. shows \in [Ads -> Nat] /\ lost_shows \in [Ads -> Nat]
      BY DEF TypeOK
    <3>3. \A b \in Ads : shows[b] \in Nat
      BY <3>2
    <3> QED BY <2>2, <3>1, <3>2, <3>3, MovedSum
  <2>7. \A q \in Procs : \A i \in Ads : \A v : Holds(req'[q], i, v) => Holds(req[q], i, v)
    <3>1. \A i \in Ads : \A v : Holds(req'[p], i, v) => Holds(req[p], i, v)
      <4> DEFINE q == req'[p]
      <4>1. /\ q.best = req[p].best
            /\ \A k \in DOMAIN q.slots : \E l \in DOMAIN req[p].slots : q.slots[k] = req[p].slots[l]
        BY <2>3, <2>5
      <4> HIDE DEF q
      <4>2. \A i \in Ads : \A v : Holds(q, i, v) => Holds(req[p], i, v)
        BY <4>1, HoldsLess
      <4> QED BY <4>2 DEF q
    <3> QED BY <2>5, <3>1
  <2> SUFFICES ASSUME NEW i \in Ads, NEW j \in Ads \ Fickle, NEW v \in 0..shows'[i],
                      GroupOf[i] = GroupOf[j],
                      (v + 1) * EffWeight(j) > (shows'[j] + 1) * EffWeight(i)
               PROVE  shows'[i] + Cardinality(Holders(i, v)') < v + Cardinality(Procs)
    BY DEF HoldersBounded
  <2>8. (v + 1) * EffWeight(j) > (shows[j] + 1) * EffWeight(i)
    <3> DEFINE x == (v + 1) * EffWeight(j)  w == EffWeight(i)
    <3>1. shows[j] \in Nat /\ shows'[j] \in Nat /\ shows[j] <= shows'[j] /\ w \in Nat
      BY <2>6, WeightPositive
    <3>2. v \in Nat /\ x \in Nat
      <4>1. v \in Nat
        BY <2>6
      <4> QED BY <4>1, WeightPositive
    <3>3. x > (shows'[j] + 1) * w
      OBVIOUS
    <3> HIDE DEF x, w
    <3>4. (shows[j] + 1) * w <= (shows'[j] + 1) * w
      BY <3>1
    <3>5. (shows[j] + 1) * w \in Nat /\ (shows'[j] + 1) * w \in Nat
      BY <3>1
    <3>6. x > (shows[j] + 1) * w
      BY <3>2, <3>3, <3>4, <3>5
    <3> QED BY <3>6 DEF x, w
  <2>9. Holders(i, v)' \subseteq Holders(i, v)
    BY <2>1, <2>7 DEF Holders
  <2>10. /\ Cardinality(Holders(i, v)') <= Cardinality(Holders(i, v))
         /\ Cardinality(Holders(i, v)') \in Nat /\ Cardinality(Holders(i, v)) \in Nat
         /\ Cardinality(Procs) \in Nat
         /\ v \in Nat
    <3>1. v \in Nat
      BY <2>6
    <3> QED BY <2>9, <3>1, HoldersType, FewerWorkers, ProcsCount
  <2>11. CASE link[p] /\ shows'[a] = shows[a] + 1 /\ i = a
    <3>1. /\ ~Holds(req'[p], a, v)
          /\ Holds(req[p], a, v)
      <4>1. Sound(req[p]) /\ Justified(req[p], shows)
        BY <1>0, <2>11
      <4> DEFINE q == req'[p]
      <4>2. q.best = req[p].best /\ q.slots = Tail(req[p].slots)
        BY <2>5
      <4> HIDE DEF q
      <4>3. /\ ~Holds(q, a, v)
            /\ GroupOf[a] = GroupOf[j] /\ (v + 1) * EffWeight(j) > (shows[j] + 1) * EffWeight(a)
                  => Holds(req[p], a, v)
        BY <1>00, <2>1, <2>4, <2>10, <4>1, <4>2, CountHolds
      <4> QED BY <2>8, <2>11, <4>3 DEF q
    <3>2. p \notin Holders(i, v)' /\ p \in Holders(i, v)
      BY <2>11, <3>1 DEF Holders
    <3>3. CASE v = shows[a] + 1
      <4>1. Holders(i, v)' \subseteq Procs \ {p}
        BY <3>2 DEF Holders
      <4>2. Cardinality(Procs \ {p}) = Cardinality(Procs) - 1
        BY ProcsFinite, FS_RemoveElement
      <4>3. Cardinality(Holders(i, v)') <= Cardinality(Procs \ {p})
        BY <4>1, FewerWorkers
      <4> QED BY <2>6, <2>10, <2>11, <3>3, <4>2, <4>3
    <3>4. CASE v # shows[a] + 1
      <4>1. v \in 0..shows[i]
        BY <2>6, <2>10, <2>11, <3>4
      <4>2. shows[i] + Cardinality(Holders(i, v)) < v + Cardinality(Procs)
        BY <2>8, <4>1 DEF HoldersBounded
      <4>3. Holders(i, v)' \subseteq Holders(i, v) \ {p}
        BY <2>9, <3>2
      <4>4. /\ IsFiniteSet(Holders(i, v))
            /\ Holders(i, v) \ {p} \subseteq Procs
        BY HoldersType, ProcsCount
      <4>5. Cardinality(Holders(i, v) \ {p}) = Cardinality(Holders(i, v)) - 1
        BY <3>2, <4>4, FS_RemoveElement
      <4>6. Cardinality(Holders(i, v)') <= Cardinality(Holders(i, v) \ {p})
        BY <4>3, <4>4, FewerWorkers
      <4> QED BY <2>6, <2>10, <2>11, <4>2, <4>5, <4>6
    <3> QED BY <3>3, <3>4
  <2>12. CASE ~(link[p] /\ shows'[a] = shows[a] + 1 /\ i = a)
    <3>1. shows'[i] = shows[i]
      BY <2>6, <2>12
    <3>2. shows[i] + Cardinality(Holders(i, v)) < v + Cardinality(Procs)
      BY <2>8, <3>1 DEF HoldersBounded
    <3> QED BY <2>6, <2>10, <3>1, <3>2
  <2> QED BY <2>11, <2>12
<1>6. ASSUME NEW p \in Procs, DropLink(p) PROVE HoldersBounded'
  <2>1. /\ UNCHANGED <<shows, req>>
        /\ \A q \in Procs : link'[q] => link[q]
    BY <1>00, <1>6 DEF DropLink, counters
  <2> QED BY <2>1, HoldersKept
<1>7. CASE \/ \E a \in Fickle : ToggleAd(a)
           \/ \E g \in Groups : ToggleGroup(g)
           \/ UNCHANGED vars
  <2>1. UNCHANGED <<shows, link, req>>
    BY <1>7 DEF ToggleAd, ToggleGroup, vars, counters
  <2> QED BY <2>1, HoldersKept
<1> QED
  BY <1>1, <1>2, <1>3, <1>4, <1>5, <1>6, <1>7 DEF Next

---------------------------------------------------------------------------
(* The invariant and what follows from it.                                 *)

LEMMA InitIInv == Init => IInv
<1> SUFFICES ASSUME Init PROVE IInv
  OBVIOUS
<1>1. TypeOK /\ ReqShape /\ SlotsRanked
  BY NoReqSound DEF Init, TypeOK, ReqShape, SlotsRanked, Sound
<1>2. Covered
  <2> SUFFICES ASSUME NEW a \in Ads
               PROVE  /\ show_rows[a] + Cardinality(Owing("charge", a))
                            <= shows[a] + lost_shows[a]
                      /\ click_rows[a] + Cardinality(Owing("click_charge", a))
                            <= clicks[a] + lost_clicks[a]
    BY DEF Covered
  <2>1. Owing("charge", a) = {} /\ Owing("click_charge", a) = {}
    BY DEF Init, Owing, At, NoReq
  <2> QED BY <2>1, FS_EmptySet DEF Init
<1>3. SteadyValid
  BY DEF Init, SteadyValid
<1>4. ChoicesJustified
  BY FreshJustified DEF Init, NoReq, ChoicesJustified
<1>5. HoldersBounded
  <2> SUFFICES ASSUME NEW i \in Ads, NEW v \in 0..shows[i]
               PROVE  shows[i] + Cardinality(Holders(i, v)) < v + Cardinality(Procs)
    BY DEF HoldersBounded
  <2>1. shows[i] = 0 /\ v = 0
    BY DEF Init
  <2>2. Holders(i, v) = {}
    BY NoAdIsNoAd DEF Init, Holders, Holds, NoReq, NoBest
  <2>3. Cardinality(Procs) \in Nat /\ Cardinality(Procs) # 0
    BY ProcsFinite, ProcsCount, FS_EmptySet
  <2> QED BY <2>1, <2>2, <2>3, FS_EmptySet
<1> QED BY <1>1, <1>2, <1>3, <1>4, <1>5 DEF IInv

\* IInv holds in every reachable state.
THEOREM Invariance == Spec => []IInv
<1>1. IInv /\ [Next]_vars => IInv'
  BY NextTypes, NextCovered, NextSteady, NextJustified, NextHolders DEF IInv
<1> QED
  BY InitIInv, <1>1, PTL DEF Spec

\* Type correctness: with the ranking, an ad is in the slots only if it exists.
THEOREM TypeCorrect == Spec => []TypeOK
  BY Invariance, PTL DEF IInv

\* The slots of bidding stay ordered, one for a group, and no more than asked
\* for (ad_map.cpp:485-509).
THEOREM SlotsAreRanked == Spec => []SlotsRanked
  BY Invariance, PTL DEF IInv

\* No owner is charged for more shows or clicks than were counted or had their
\* increment refused (ad_map.cpp:520-521, 590-591): no connection that breaks,
\* worker that dies or psql that fails makes a charge of its own.
THEOREM ChargesAreCovered == Spec => []ChargesCovered
<1>1. IInv => ChargesCovered
  <2> SUFFICES ASSUME IInv, NEW a \in Ads
               PROVE  /\ show_rows[a] <= shows[a] + lost_shows[a]
                      /\ click_rows[a] <= clicks[a] + lost_clicks[a]
    BY DEF ChargesCovered
  <2>1. /\ Cardinality(Owing("charge", a)) \in Nat
        /\ Cardinality(Owing("click_charge", a)) \in Nat
    <3>1. Owing("charge", a) \subseteq Procs /\ Owing("click_charge", a) \subseteq Procs
      BY DEF Owing
    <3> QED BY <3>1, ProcsCount
  <2> QED BY <2>1 DEF IInv, Covered, TypeOK
<1> QED
  BY Invariance, <1>1, PTL

\* Rotation by weight, with any number of workers reading and incrementing the
\* counters without a lock (ad_map.cpp:222-227, 520).
THEOREM RotationIsFair == Spec => []RotationFair
<1>1. IInv => RotationFair
  <2> SUFFICES ASSUME IInv PROVE RotationFair
    OBVIOUS
  <2> SUFFICES ASSUME NEW i \in Ads, NEW j \in Ads \ Fickle, GroupOf[i] = GroupOf[j],
                      (shows[i] - (Cardinality(Procs) - 1)) * EffWeight(j)
                         > (shows[j] + 1) * EffWeight(i)
               PROVE  FALSE
    <3>1. ASSUME NEW i \in Ads, NEW j \in Ads \ Fickle
          PROVE  /\ (shows[i] - (Cardinality(Procs) - 1)) * EffWeight(j) \in Int
                 /\ (shows[j] + 1) * EffWeight(i) \in Int
      <4>1. shows[i] \in Nat /\ shows[j] \in Nat /\ EffWeight(i) \in Nat /\ EffWeight(j) \in Nat
        BY WeightPositive DEF IInv, TypeOK
      <4>2. Cardinality(Procs) \in Nat
        BY ProcsCount
      <4> QED BY <4>1, <4>2
    <3> QED BY <3>1 DEF RotationFair
  <2> DEFINE P == Cardinality(Procs)  v == shows[i] - P
             w == EffWeight(j)  x == (shows[j] + 1) * EffWeight(i)
  <2>1. shows[i] \in Nat /\ P \in Nat /\ w \in Nat \ {0} /\ x \in Nat
    <3>1. shows[i] \in Nat /\ shows[j] \in Nat
      BY DEF IInv, TypeOK
    <3> QED BY <3>1, WeightPositive, ProcsCount
  <2>2. (shows[i] - (P - 1)) * w > x
    OBVIOUS
  <2> HIDE DEF P, w, x
  <2>3. v + 1 = shows[i] - (P - 1) /\ v \in Int
    BY <2>1
  <2>4. v + 1 > 0
    <3> SUFFICES ASSUME v + 1 <= 0 PROVE FALSE
      BY <2>3
    <3>1. (v + 1) * w <= 0
      BY <2>1, <2>3
    <3> QED BY <2>1, <2>2, <2>3, <3>1
  <2>5. v \in 0..shows[i]
    BY <2>1, <2>3, <2>4
  <2>6. (v + 1) * w > x
    BY <2>2, <2>3
  <2>7. shows[i] + Cardinality(Holders(i, v)) < v + P
    BY <2>5, <2>6 DEF IInv, HoldersBounded, P, w, x
  <2>8. Cardinality(Holders(i, v)) \in Nat
    BY HoldersType
  <2> QED BY <2>1, <2>3, <2>7, <2>8
<1> QED
  BY Invariance, <1>1, PTL
---------------------------------------------------------------------------
(* What a worker shows was valid since its request began.                  *)

\* Until its groups are ranked, a request has seen every ad that is valid.
ValidSeen ==
    \A p \in Procs : \A a \in Ads :
        req[p].pc \in {"groups", "scan"} /\ valid[a] => a \in seen[p]

\* The ads a request has chosen from, or may still choose, are among S.
Trusted(r, S) ==
    /\ r.best.ad \in S \cup {NoAd}
    /\ r.pc = "scan" => r.ad \in S \cup {NoAd}
    /\ \A k \in DOMAIN r.slots : r.slots[k].ad \in S

\* A worker whose connection is up has looked at every flag it relies on: one
\* that lost it never counts a show again before it is restarted.
ChoicesSeen == \A p \in Procs : link[p] => Trusted(req[p], seen[p])

SInv == TypeOK /\ ReqShape /\ SlotsRanked /\ ValidSeen /\ ChoicesSeen

LEMMA NextValidSeen ==
    ASSUME TypeOK, ReqShape, ValidSeen, [Next]_vars
    PROVE  ValidSeen'
<1>0. req \in [Procs -> Req] /\ seen \in [Procs -> SUBSET Ads] /\ valid \in [Ads -> BOOLEAN]
  BY DEF TypeOK
<1>1. ASSUME NEW p \in Procs, Request(p) PROVE ValidSeen'
  <2>1. /\ UNCHANGED valid /\ seen'[p] = {a \in Ads : valid[a]}
        /\ \A q \in Procs \ {p} : req'[q] = req[q] /\ seen'[q] = seen[q]
    BY <1>0, <1>1 DEF Request, flags
  <2> QED BY <2>1 DEF ValidSeen
\* Every other step of a worker keeps what it has seen.
<1>2. ASSUME UNCHANGED <<valid, seen>>, NEW p \in Procs,
             \A q \in Procs \ {p} : req'[q] = req[q],
             req'[p].pc \in {"groups", "scan"} => req[p].pc \in {"groups", "scan"}
      PROVE  ValidSeen'
  BY <1>2 DEF ValidSeen
<1>3. ASSUME NEW p \in Procs, FilterGroup(p) \/ CheckAd(p) \/ ReadAd(p) \/ RankGroup(p)
      PROVE  ValidSeen'
  <2>1. UNCHANGED <<valid, seen>> /\ req[p].pc \in {"groups", "scan"}
    BY <1>3 DEF FilterGroup, CheckAd, ReadAd, RankGroup, flags, At
  <2>2. \A q \in Procs \ {p} : req'[q] = req[q]
    BY <1>0, <1>3 DEF FilterGroup, CheckAd, ReadAd, RankGroup
  <2> QED BY <1>2, <2>1, <2>2
<1>4. ASSUME NEW p \in Procs,
             \/ Answer(p) \/ CountShow(p) \/ ChargeShow(p) \/ Click(p)
             \/ CountClick(p) \/ ChargeClick(p) \/ Restart(p)
      PROVE  ValidSeen'
  <2>1. UNCHANGED <<valid, seen>>
    BY <1>4 DEF Answer, CountShow, ChargeShow, Click, CountClick, ChargeClick, Restart, flags
  <2>2. \A q \in Procs \ {p} : req'[q] = req[q]
    BY <1>0, <1>4 DEF Answer, CountShow, ChargeShow, Click, CountClick, ChargeClick, Restart
  <2>3. req'[p].pc \notin {"groups", "scan"}
    <3>0. req[p] \in Req
      BY <1>0
    <3>1. NextSlot(req[p]).pc \in {"idle", "show"}
      BY <3>0 DEF NextSlot, NoReq, Req
    <3>2. CASE Answer(p) \/ ChargeShow(p)
      BY <1>0, <3>1, <3>2 DEF Answer, ChargeShow
    <3>3. CASE CountShow(p)
      BY <1>0, <3>0, <3>3 DEF CountShow, Req
    <3>4. CASE Click(p)
      BY <1>0, <3>4 DEF Click, NoReq
    <3>5. CASE CountClick(p)
      BY <1>0, <3>0, <3>5 DEF CountClick, Req
    <3>6. CASE ChargeClick(p) \/ Restart(p)
      BY <1>0, <3>6 DEF ChargeClick, Restart, NoReq
    <3> QED BY <1>4, <3>2, <3>3, <3>4, <3>5, <3>6
  <2> QED BY <1>2, <2>1, <2>2, <2>3
<1>5. ASSUME NEW a \in Fickle, ToggleAd(a) PROVE ValidSeen'
  <2>1. /\ UNCHANGED req
        /\ \A b \in Ads \ {a} : valid'[b] = valid[b]
        /\ \A q \in Procs : seen[q] \subseteq seen'[q]
        /\ ~valid[a] => \A q \in Procs : a \in seen'[q]
        /\ valid[a] => ~valid'[a]
    BY <1>0, <1>5, FickleType DEF ToggleAd
  <2> QED BY <2>1 DEF ValidSeen
<1>6. CASE \/ \E p \in Procs : DropLink(p)
           \/ \E g \in Groups : ToggleGroup(g)
           \/ UNCHANGED vars
  <2>1. UNCHANGED <<valid, req, seen>>
    BY <1>6 DEF DropLink, ToggleGroup, vars, flags
  <2> QED BY <2>1 DEF ValidSeen
<1> QED BY <1>1, <1>3, <1>4, <1>5, <1>6 DEF Next

LEMMA NextChoicesSeen ==
    ASSUME SInv, [Next]_vars
    PROVE  ChoicesSeen'
<1>0. /\ req \in [Procs -> Req] /\ seen \in [Procs -> SUBSET Ads]
      /\ link \in [Procs -> BOOLEAN] /\ valid \in [Ads -> BOOLEAN]
  BY DEF SInv, TypeOK
<1>1. ASSUME NEW p \in Procs
      PROVE  Sound(req[p]) /\ req[p] \in Req /\ (link[p] => Trusted(req[p], seen[p]))
  BY DEF SInv, TypeOK, ReqShape, SlotsRanked, Sound, ChoicesSeen
\* What a step does to one worker is all there is to look at.
<1>2. ASSUME NEW p \in Procs,
             \A q \in Procs \ {p} : req'[q] = req[q] /\ link'[q] = link[q] /\ seen'[q] = seen[q],
             link'[p] => Trusted(req'[p], seen'[p])
      PROVE  ChoicesSeen'
  <2> SUFFICES ASSUME NEW q \in Procs, q # p, link'[q]
               PROVE  Trusted(req'[q], seen'[q])
    BY <1>2 DEF ChoicesSeen
  <2>1. Trusted(req[q], seen[q]) /\ req'[q] = req[q] /\ seen'[q] = seen[q]
    BY <1>1, <1>2
  <2> QED BY <2>1
<1>3. ASSUME NEW r, NEW S, r.slots = <<>>, r.best = NoBest, r.pc # "scan"
      PROVE  Trusted(r, S)
  BY <1>3 DEF Trusted, NoBest
<1>4. ASSUME NEW p \in Procs, Request(p) \/ Click(p) \/ ChargeClick(p) \/ Restart(p)
      PROVE  ChoicesSeen'
  <2>1. /\ \A q \in Procs \ {p} : req'[q] = req[q] /\ link'[q] = link[q] /\ seen'[q] = seen[q]
        /\ req'[p].slots = <<>> /\ req'[p].best = NoBest /\ req'[p].pc # "scan"
    <3>1. CASE Request(p)
      BY <1>0, <3>1 DEF Request, NoReq
    <3>2. CASE Click(p)
      BY <1>0, <3>2 DEF Click, NoReq
    <3>3. CASE ChargeClick(p)
      BY <1>0, <3>3 DEF ChargeClick, NoReq
    <3>4. CASE Restart(p)
      BY <1>0, <3>4 DEF Restart, NoReq
    <3> QED BY <1>4, <3>1, <3>2, <3>3, <3>4
  <2>2. Trusted(req'[p], seen'[p])
    BY <1>3, <2>1
  <2> QED BY <1>2, <2>1, <2>2
<1>5. ASSUME NEW p \in Procs, FilterGroup(p) PROVE ChoicesSeen'
  <2>1. UNCHANGED <<link, seen>> /\ req[p].pc = "groups" /\ req[p].ad = NoAd
    BY <1>1, <1>5 DEF FilterGroup, At, Sound, Shaped
  <2>2. PICK g \in req[p].groups :
          \/ req' = [req EXCEPT ![p] = [req[p] EXCEPT !.groups = @ \ {g}]]
          \/ req' = [req EXCEPT ![p] = [req[p] EXCEPT !.groups = @ \ {g}, !.pc = "scan",
                                                 !.group = g, !.ads = AdsOf(g)]]
    BY <1>5 DEF FilterGroup
  <2>3. /\ \A q \in Procs \ {p} : req'[q] = req[q]
        /\ req'[p].slots = req[p].slots /\ req'[p].best = req[p].best /\ req'[p].ad = req[p].ad
    <3>0. req[p] \in Req
      BY <1>1
    <3>1. CASE req' = [req EXCEPT ![p] = [req[p] EXCEPT !.groups = @ \ {g}]]
      BY <1>0, <3>0, <3>1 DEF Req
    <3>2. CASE req' = [req EXCEPT ![p] = [req[p] EXCEPT !.groups = @ \ {g}, !.pc = "scan",
                                                 !.group = g, !.ads = AdsOf(g)]]
      BY <1>0, <3>0, <3>2 DEF Req
    <3> QED BY <2>2, <3>1, <3>2
  <2>4. link[p] => Trusted(req'[p], seen[p])
    BY <1>1, <2>1, <2>3 DEF Trusted
  <2> QED BY <1>2, <2>1, <2>3, <2>4
<1>6. ASSUME NEW p \in Procs, CheckAd(p) PROVE ChoicesSeen'
  <2>1. PICK a \in req[p].ads : req' = [req EXCEPT ![p] =
           [req[p] EXCEPT !.ads = @ \ {a}, !.ad = IF link[p] => valid[a] THEN a ELSE NoAd]]
    BY <1>6 DEF CheckAd
  <2>2. UNCHANGED <<link, seen>> /\ req[p].pc = "scan" /\ a \in Ads
    BY <1>1, <1>6 DEF CheckAd, At, Req
  <2>3. /\ \A q \in Procs \ {p} : req'[q] = req[q]
        /\ req'[p].slots = req[p].slots /\ req'[p].best = req[p].best
        /\ req'[p].ad = IF link[p] => valid[a] THEN a ELSE NoAd
    BY <1>0, <1>1, <2>1 DEF Req
  <2>4. link[p] => req'[p].ad \in seen[p] \cup {NoAd}
    BY <2>2, <2>3 DEF SInv, ValidSeen
  <2>5. link[p] => Trusted(req'[p], seen[p])
    BY <1>1, <2>3, <2>4 DEF Trusted
  <2> QED BY <1>2, <2>2, <2>3, <2>5
<1>7. ASSUME NEW p \in Procs, ReadAd(p) PROVE ChoicesSeen'
  <2> DEFINE c == [ad |-> req[p].ad, read |-> IF link[p] THEN shows[req[p].ad] ELSE 0,
                   weight |-> IF link[p] THEN EffWeight(req[p].ad) ELSE 1]
             best == IF Lighter(c, req[p].best) THEN c ELSE req[p].best
  <2>1. req' = [req EXCEPT ![p] = [req[p] EXCEPT !.ad = NoAd, !.best = best]]
    BY <1>7 DEF ReadAd
  <2>2. UNCHANGED <<link, seen>> /\ req[p].pc = "scan"
    BY <1>7 DEF ReadAd, At
  <2>3. best.ad \in {req[p].ad, req[p].best.ad}
    OBVIOUS
  <2> HIDE DEF best
  <2>4. /\ \A q \in Procs \ {p} : req'[q] = req[q]
        /\ req'[p].slots = req[p].slots /\ req'[p].best = best /\ req'[p].ad = NoAd
    BY <1>0, <1>1, <2>1 DEF Req
  <2>5. link[p] => Trusted(req'[p], seen[p])
    BY <1>1, <2>2, <2>3, <2>4 DEF Trusted
  <2> QED BY <1>2, <2>2, <2>4, <2>5
<1>8. ASSUME NEW p \in Procs, RankGroup(p) PROVE ChoicesSeen'
  <2>1. PICK e \in Ecpms :
          LET s == [ad |-> req[p].best.ad, ecpm |-> e, read |-> req[p].best.read]
          IN req' = [req EXCEPT ![p] =
                        [req[p] EXCEPT !.pc = "groups", !.group = NoGroup, !.best = NoBest,
                                  !.slots = IF s.ad = NoAd THEN @ ELSE Insert(@, s, req[p].n)]]
    BY <1>8 DEF RankGroup
  <2> DEFINE s == [ad |-> req[p].best.ad, ecpm |-> e, read |-> req[p].best.read]
             slots == IF s.ad = NoAd THEN req[p].slots ELSE Insert(req[p].slots, s, req[p].n)
  <2>2. /\ UNCHANGED <<link, seen>>
        /\ req[p].slots \in Seq(Slot) /\ req[p].n \in Nat \ {0} /\ Len(req[p].slots) <= req[p].n
    BY <1>1, <1>8, BoundsType DEF RankGroup, Sound, Ranked, Req
  <2>3. /\ \A q \in Procs \ {p} : req'[q] = req[q]
        /\ req'[p].slots = slots /\ req'[p].best = NoBest /\ req'[p].pc = "groups"
    <3>1. req' = [req EXCEPT ![p] = [req[p] EXCEPT !.pc = "groups", !.group = NoGroup,
                                                   !.best = NoBest, !.slots = slots]]
      BY <2>1
    <3> HIDE DEF slots
    <3> QED BY <1>0, <1>1, <3>1 DEF Req
  <2>4. \A k \in DOMAIN slots :
           \/ \E l \in DOMAIN req[p].slots : slots[k] = req[p].slots[l]
           \/ req[p].best.ad # NoAd /\ slots[k] = s
    <3>1. CASE s.ad = NoAd
      BY <3>1
    <3>2. CASE s.ad # NoAd
      <4>1. req[p].best \in Best
        BY <1>1 DEF Req
      <4>2. s \in Slot
        BY <3>2, <4>1, EcpmsType DEF Slot, Best
      <4> QED BY <2>2, <3>2, <4>2, InsertKeeps
    <3> QED BY <3>1, <3>2
  <2>5. s.ad = req[p].best.ad
    OBVIOUS
  <2> HIDE DEF slots, s
  <2>6. link[p] => Trusted(req'[p], seen[p])
    <3> SUFFICES ASSUME link[p] PROVE Trusted(req'[p], seen[p])
      OBVIOUS
    <3>1. Trusted(req[p], seen[p])
      BY <1>1
    <3>2. \A k \in DOMAIN slots : slots[k].ad \in seen[p]
      BY <2>4, <2>5, <3>1 DEF Trusted
    <3>3. req'[p].best.ad = NoAd
      BY <2>3 DEF NoBest
    <3> QED BY <2>3, <3>2, <3>3 DEF Trusted
  <2> QED BY <1>2, <2>2, <2>3, <2>6
<1>9. ASSUME NEW p \in Procs, Answer(p) \/ ChargeShow(p) PROVE ChoicesSeen'
  <2>1. UNCHANGED <<link, seen>> /\ req' = [req EXCEPT ![p] = NextSlot(req[p])]
    BY <1>9 DEF Answer, ChargeShow
  <2>2. req'[p] = NextSlot(req[p]) /\ \A q \in Procs \ {p} : req'[q] = req[q]
    BY <1>0, <2>1
  <2>3. /\ NextSlot(req[p]).best = req[p].best \/ NextSlot(req[p]).best = NoBest
        /\ NextSlot(req[p]).slots = req[p].slots
        /\ NextSlot(req[p]).pc # "scan"
    BY <1>1 DEF NextSlot, NoReq, Req
  <2>4. link[p] => Trusted(req'[p], seen[p])
    BY <1>1, <2>2, <2>3 DEF Trusted, NoBest
  <2> QED BY <1>2, <2>1, <2>2, <2>4
<1>10. ASSUME NEW p \in Procs, CountShow(p) PROVE ChoicesSeen'
  <2>1. /\ req[p].pc = "show" /\ UNCHANGED <<link, seen>>
        /\ req' = [req EXCEPT ![p] = [req[p] EXCEPT !.pc = "charge", !.ad = Head(req[p].slots).ad,
                                                    !.slots = Tail(req[p].slots)]]
    BY <1>10 DEF CountShow, At
  <2>2. \A k \in DOMAIN Tail(req[p].slots) :
           \E l \in DOMAIN req[p].slots : Tail(req[p].slots)[k] = req[p].slots[l]
    BY <1>1, <2>1, TailSound
  <2>3. /\ \A q \in Procs \ {p} : req'[q] = req[q]
        /\ req'[p].slots = Tail(req[p].slots) /\ req'[p].best = req[p].best
        /\ req'[p].pc = "charge"
    BY <1>0, <1>1, <2>1 DEF Req
  <2>4. link[p] => Trusted(req'[p], seen[p])
    BY <1>1, <2>2, <2>3 DEF Trusted
  <2> QED BY <1>2, <2>1, <2>3, <2>4
<1>11. ASSUME NEW p \in Procs, CountClick(p) PROVE ChoicesSeen'
  <2>1. /\ UNCHANGED <<link, seen>>
        /\ req' = [req EXCEPT ![p] = [req[p] EXCEPT !.pc = "click_charge"]]
    BY <1>11 DEF CountClick
  <2>2. /\ \A q \in Procs \ {p} : req'[q] = req[q]
        /\ req'[p].slots = req[p].slots /\ req'[p].best = req[p].best
        /\ req'[p].pc = "click_charge"
    BY <1>0, <1>1, <2>1 DEF Req
  <2>3. link[p] => Trusted(req'[p], seen[p])
    BY <1>1, <2>2 DEF Trusted
  <2> QED BY <1>2, <2>1, <2>2, <2>3
<1>12. ASSUME NEW p \in Procs, DropLink(p) PROVE ChoicesSeen'
  <2>1. ~link'[p] /\ \A q \in Procs \ {p} : link'[q] = link[q]
    BY <1>0, <1>12 DEF DropLink
  <2>2. UNCHANGED <<req, seen>>
    BY <1>12 DEF DropLink
  <2> QED BY <1>2, <2>1, <2>2
<1>13. ASSUME NEW a \in Fickle, ToggleAd(a) PROVE ChoicesSeen'
  <2>1. UNCHANGED <<link, req>> /\ \A q \in Procs : seen[q] \subseteq seen'[q]
    BY <1>0, <1>13 DEF ToggleAd
  <2> SUFFICES ASSUME NEW q \in Procs, link'[q] PROVE Trusted(req'[q], seen'[q])
    BY DEF ChoicesSeen
  <2>2. Trusted(req[q], seen[q]) /\ req'[q] = req[q] /\ seen[q] \subseteq seen'[q]
    BY <1>1, <2>1
  <2> QED BY <2>2 DEF Trusted
<1>14. CASE (\E g \in Groups : ToggleGroup(g)) \/ UNCHANGED vars
  <2>1. UNCHANGED <<link, req, seen>>
    BY <1>14 DEF ToggleGroup, vars
  <2> QED BY <2>1 DEF SInv, ChoicesSeen
<1> QED
  BY <1>4, <1>5, <1>6, <1>7, <1>8, <1>9, <1>10, <1>11, <1>12, <1>13, <1>14 DEF Next

\* A show counts only for an ad that was valid since the request began: a
\* worker that takes every flag for set has no connection to count it with
\* (ad_map.cpp:150-161, 520).
THEOREM ShowsWereValid == Spec => ShownWasValid
<1>1. Init => SInv
  <2> SUFFICES ASSUME Init PROVE SInv
    OBVIOUS
  <2>1. TypeOK /\ ReqShape /\ SlotsRanked
    BY InitIInv DEF IInv
  <2>2. ValidSeen /\ ChoicesSeen
    BY DEF Init, ValidSeen, ChoicesSeen, Trusted, NoReq, NoBest
  <2> QED BY <2>1, <2>2 DEF SInv
<1>2. SInv /\ [Next]_vars => SInv'
  BY NextTypes, NextValidSeen, NextChoicesSeen DEF SInv
<1>3. ASSUME SInv, Next, NEW p \in Procs, NEW a \in Ads,
             At(p, "show"), req'[p].pc = "charge", shows'[a] > shows[a]
      PROVE  a \in seen[p]
  <2>1. PICK q \in Procs : CountShow(q)
    <3>1. shows[a] \in Nat
      BY <1>3 DEF SInv, TypeOK
    <3>2. shows' # shows
      BY <1>3, <3>1
    <3> QED
      BY <1>3, <3>2 DEF Next, counters, Request, FilterGroup, CheckAd, ReadAd, RankGroup, Answer,
         lost, ChargeShow, Click, CountClick, ChargeClick, DropLink, Restart, ToggleAd, ToggleGroup
  <2>2. /\ req \in [Procs -> Req] /\ shows \in [Ads -> Nat]
        /\ Sound(req[p]) /\ (link[p] => Trusted(req[p], seen[p]))
    BY <1>3 DEF SInv, TypeOK, ReqShape, SlotsRanked, Sound, ChoicesSeen
  <2>3. q = p
    BY <1>3, <2>1, <2>2 DEF CountShow, At
  <2>4. link[p] /\ a = Head(req[p].slots).ad
    <3> DEFINE h == Head(req[p].slots).ad
    <3>1. /\ h \in Ads
          /\ \/ link[p] /\ Moved(shows, shows', lost_shows, lost_shows', h)
             \/ UNCHANGED shows
      BY <1>3, <2>1, <2>3, ShowMoved DEF SInv
    <3> HIDE DEF h
    <3>2. /\ \A b \in Ads \ {h} : shows'[b] = shows[b]
          /\ shows'[h] = shows[h] \/ (link[p] /\ shows'[h] = shows[h] + 1)
      BY <1>3, <2>2, <3>1, MovedSum DEF SInv, TypeOK
    <3>3. \A b \in Ads : shows[b] \in Nat
      BY <2>2
    <3> QED BY <1>3, <3>1, <3>2, <3>3 DEF h
  <2>5. 1 \in DOMAIN req[p].slots /\ Head(req[p].slots) = req[p].slots[1]
    BY <1>3, <2>2, TailSound DEF At
  <2> QED BY <2>2, <2>4, <2>5 DEF Trusted
<1>4. SInv /\ [Next]_vars =>
         [\A p \in Procs : \A a \in Ads :
            At(p, "show") /\ req'[p].pc = "charge" /\ shows'[a] > shows[a] => a \in seen[p]]_vars
  BY <1>3
<1> QED
  BY <1>1, <1>2, <1>4, PTL DEF Spec, ShownWasValid

---------------------------------------------------------------------------
(* The ledger of AdLedger.                                                 *)

\* A step that leaves the counters, and every debt, is none of the ledger's.
LEMMA LedgerStutter ==
    ASSUME UNCHANGED counters, \A q \in Procs : DebtOf(q)' = DebtOf(q)
    PROVE  UNCHANGED Ledger!ledgerVars
<1>1. [q \in Procs |-> DebtOf(q)]' = [q \in Procs |-> DebtOf(q)]
  OBVIOUS
<1> QED BY <1>1 DEF Ledger!ledgerVars, counters

\* What a worker owes by its request and its connection.
LEMMA DebtIs ==
    ASSUME NEW p
    PROVE  /\ link[p] /\ At(p, "charge") => DebtOf(p) = Ledger!Debt("show", req[p].ad)
           /\ link[p] /\ At(p, "click_charge") => DebtOf(p) = Ledger!Debt("click", req[p].ad)
           /\ ~link[p] \/ ~(At(p, "charge") \/ At(p, "click_charge")) => DebtOf(p) = Ledger!NoDebt
  BY DEF DebtOf, At, Ledger!Debt, Ledger!NoDebt

\* A step of one worker that gives its charge up, or owed none.
LEMMA LedgerSettles ==
    ASSUME NEW p \in Procs, UNCHANGED counters,
           \A q \in Procs \ {p} : DebtOf(q)' = DebtOf(q),
           DebtOf(p)' = Ledger!NoDebt
    PROVE  [Ledger!LedgerNext]_(Ledger!ledgerVars)
<1>1. CASE DebtOf(p) = Ledger!NoDebt
  <2>1. \A q \in Procs : DebtOf(q)' = DebtOf(q)
    BY <1>1
  <2> QED BY <2>1, LedgerStutter
<1>2. CASE DebtOf(p) # Ledger!NoDebt
  <2>1. [q \in Procs |-> DebtOf(q)]' = [[q \in Procs |-> DebtOf(q)] EXCEPT ![p] = Ledger!NoDebt]
    OBVIOUS
  <2>2. Ledger!GiveUp(p)
    BY <1>2, <2>1 DEF Ledger!GiveUp, Ledger!Settled, counters
  <2> QED BY <1>2, <2>2 DEF Ledger!LedgerNext
<1> QED BY <1>1, <1>2

\* A step of p that leaves the connections changes nobody else's debt.
LEMMA OneDebt ==
    ASSUME TypeOK, NEW p \in Procs, NEW r, req' = [req EXCEPT ![p] = r], link' = link
    PROVE  /\ \A q \in Procs \ {p} : DebtOf(q)' = DebtOf(q)
           /\ link[p] /\ r.pc = "charge" => DebtOf(p)' = Ledger!Debt("show", r.ad)
           /\ link[p] /\ r.pc = "click_charge" => DebtOf(p)' = Ledger!Debt("click", r.ad)
           /\ ~link[p] \/ r.pc \notin {"charge", "click_charge"} => DebtOf(p)' = Ledger!NoDebt
<1>1. req'[p] = r /\ \A q \in Procs \ {p} : req'[q] = req[q]
  BY DEF TypeOK
<1>2. \A q \in Procs \ {p} : DebtOf(q)' = DebtOf(q)
  BY <1>1 DEF DebtOf, At
<1>3. /\ link[p] /\ r.pc = "charge" => DebtOf(p)' = Ledger!Debt("show", r.ad)
      /\ link[p] /\ r.pc = "click_charge" => DebtOf(p)' = Ledger!Debt("click", r.ad)
      /\ ~link[p] \/ r.pc \notin {"charge", "click_charge"} => DebtOf(p)' = Ledger!NoDebt
  BY <1>1 DEF DebtOf, At, Ledger!Debt, Ledger!NoDebt
<1> QED BY <1>2, <1>3

\* Most steps of a worker only move its request to where nothing is owed.
LEMMA OwesNothing ==
    ASSUME TypeOK, NEW p \in Procs, NEW r, req' = [req EXCEPT ![p] = r], link' = link,
           UNCHANGED counters, ~link[p] \/ r.pc \notin {"charge", "click_charge"}
    PROVE  [Ledger!LedgerNext]_(Ledger!ledgerVars)
<1>1. /\ \A q \in Procs \ {p} : DebtOf(q)' = DebtOf(q)
      /\ DebtOf(p)' = Ledger!NoDebt
  BY OneDebt
<1> QED BY <1>1, LedgerSettles

LEMMA NextSlotOwesNothing ==
    ASSUME NEW r \in Req
    PROVE  NextSlot(r).pc \notin {"charge", "click_charge"}
  BY DEF NextSlot, NoReq, Req

LEMMA LedgerCountsShow ==
    ASSUME TypeOK, ReqShape, SlotsRanked, NEW p \in Procs, CountShow(p)
    PROVE  [Ledger!LedgerNext]_(Ledger!ledgerVars)
<1> DEFINE a == Head(req[p].slots).ad
           r == [req[p] EXCEPT !.pc = "charge", !.ad = a, !.slots = Tail(@)]
<1>1. req[p] \in Req /\ Shaped(req[p])
  BY DEF TypeOK, ReqShape
<1>2. a \in Ads
  <2>1. req[p].slots \in Seq(Slot) /\ req[p].slots # <<>>
    BY <1>1 DEF CountShow, At, Req, Shaped
  <2>2. Head(req[p].slots) \in Slot
    BY <2>1, HeadTailProperties
  <2> QED BY <2>2 DEF Slot
<1>3. r.pc = "charge" /\ r.ad = a
  BY <1>1 DEF Req
<1>4. req' = [req EXCEPT ![p] = r] /\ link' = link
  BY DEF CountShow
<1>5. UNCHANGED <<clicks, show_rows, click_rows, lost_clicks>>
  BY DEF CountShow
<1>6. /\ link[p] => Moved(shows, shows', lost_shows, lost_shows', a)
      /\ ~link[p] => UNCHANGED <<shows, lost_shows>>
  BY ShowMoved
<1> HIDE DEF a, r
<1>7. CASE ~link[p]
  <2>1. shows' = shows /\ lost_shows' = lost_shows
    BY <1>6, <1>7
  <2> QED BY <1>4, <1>5, <1>7, <2>1, OwesNothing DEF counters
<1>8. CASE link[p]
  <2>1. /\ \A q \in Procs \ {p} : DebtOf(q)' = DebtOf(q)
        /\ DebtOf(p)' = Ledger!Debt("show", a)
    BY <1>3, <1>4, <1>8, OneDebt
  <2>2. DebtOf(p) = Ledger!NoDebt /\ DebtOf(p)' # DebtOf(p)
    BY <2>1, DebtIs DEF CountShow, At, Ledger!Debt, Ledger!NoDebt
  <2>3. [q \in Procs |-> DebtOf(q)]'
            = [[q \in Procs |-> DebtOf(q)] EXCEPT ![p] = Ledger!Debt("show", a)]
    BY <2>1
  <2>4. Ledger!OneRaised(shows, lost_shows, a)
    BY <1>6, <1>8 DEF Moved, Ledger!OneRaised, Ledger!Raised
  <2>5. Ledger!CountShow(p)
    BY <1>2, <1>5, <2>2, <2>3, <2>4 DEF Ledger!CountShow
  <2> QED BY <2>2, <2>5 DEF Ledger!LedgerNext
<1> QED BY <1>7, <1>8

LEMMA LedgerCountsClick ==
    ASSUME TypeOK, ReqShape, SlotsRanked, NEW p \in Procs, CountClick(p)
    PROVE  [Ledger!LedgerNext]_(Ledger!ledgerVars)
<1> DEFINE a == req[p].ad
           r == [req[p] EXCEPT !.pc = "click_charge"]
<1>1. req[p] \in Req /\ Shaped(req[p])
  BY DEF TypeOK, ReqShape
<1>2. a \in Ads
  BY <1>1 DEF CountClick, At, Shaped
<1>3. r.pc = "click_charge" /\ r.ad = a
  BY <1>1 DEF Req
<1>4. req' = [req EXCEPT ![p] = r] /\ link' = link
  BY DEF CountClick
<1>5. UNCHANGED <<shows, show_rows, click_rows, lost_shows>>
  BY DEF CountClick
<1>6. /\ link[p] => Moved(clicks, clicks', lost_clicks, lost_clicks', a)
      /\ ~link[p] => UNCHANGED <<clicks, lost_clicks>>
  BY ClickMoved
<1> HIDE DEF a, r
<1>7. CASE ~link[p]
  <2>1. clicks' = clicks /\ lost_clicks' = lost_clicks
    BY <1>6, <1>7
  <2> QED BY <1>4, <1>5, <1>7, <2>1, OwesNothing DEF counters
<1>8. CASE link[p]
  <2>1. /\ \A q \in Procs \ {p} : DebtOf(q)' = DebtOf(q)
        /\ DebtOf(p)' = Ledger!Debt("click", a)
    BY <1>3, <1>4, <1>8, OneDebt
  <2>2. DebtOf(p) = Ledger!NoDebt /\ DebtOf(p)' # DebtOf(p)
    BY <2>1, DebtIs DEF CountClick, At, Ledger!Debt, Ledger!NoDebt
  <2>3. [q \in Procs |-> DebtOf(q)]'
            = [[q \in Procs |-> DebtOf(q)] EXCEPT ![p] = Ledger!Debt("click", a)]
    BY <2>1
  <2>4. Ledger!OneRaised(clicks, lost_clicks, a)
    BY <1>6, <1>8 DEF Moved, Ledger!OneRaised, Ledger!Raised
  <2>5. Ledger!CountClick(p)
    BY <1>2, <1>5, <2>2, <2>3, <2>4 DEF Ledger!CountClick
  <2> QED BY <2>2, <2>5 DEF Ledger!LedgerNext
<1> QED BY <1>7, <1>8

\* With a row the debt is paid, without one it is given up.
LEMMA LedgerChargesShow ==
    ASSUME TypeOK, NEW p \in Procs, ChargeShow(p)
    PROVE  [Ledger!LedgerNext]_(Ledger!ledgerVars)
<1> DEFINE r == NextSlot(req[p])
<1>1. r.pc \notin {"charge", "click_charge"}
  BY NextSlotOwesNothing DEF TypeOK
<1>2. /\ req' = [req EXCEPT ![p] = r] /\ link' = link
      /\ UNCHANGED <<shows, clicks, click_rows, lost_shows, lost_clicks>>
  BY DEF ChargeShow, lost
<1> HIDE DEF r
<1>3. CASE UNCHANGED show_rows
  BY <1>1, <1>2, <1>3, OwesNothing DEF counters
<1>4. CASE link[p] /\ show_rows' = [show_rows EXCEPT ![req[p].ad] = @ + 1]
  <2>1. DebtOf(p) = Ledger!Debt("show", req[p].ad)
    BY <1>4, DebtIs DEF ChargeShow
  <2>2. /\ \A q \in Procs \ {p} : DebtOf(q)' = DebtOf(q)
        /\ DebtOf(p)' = Ledger!NoDebt
    BY <1>1, <1>2, OneDebt
  <2>3. [q \in Procs |-> DebtOf(q)]'
            = [[q \in Procs |-> DebtOf(q)] EXCEPT ![p] = Ledger!NoDebt]
    BY <2>2
  <2>4. DebtOf(p).kind = "show" /\ DebtOf(p).ad = req[p].ad /\ DebtOf(p)' # DebtOf(p)
    BY <2>1, <2>2 DEF Ledger!Debt, Ledger!NoDebt
  <2>5. show_rows' = Ledger!Raised(show_rows, DebtOf(p).ad)
    BY <1>4, <2>4 DEF Ledger!Raised
  <2>6. Ledger!ChargeShow(p)
    BY <1>2, <2>3, <2>4, <2>5 DEF Ledger!ChargeShow, Ledger!Settled
  <2> QED BY <2>4, <2>6 DEF Ledger!LedgerNext
<1> QED BY <1>3, <1>4 DEF ChargeShow

LEMMA LedgerChargesClick ==
    ASSUME TypeOK, NEW p \in Procs, ChargeClick(p)
    PROVE  [Ledger!LedgerNext]_(Ledger!ledgerVars)
<1>1. NoReq.pc \notin {"charge", "click_charge"}
  BY DEF NoReq
<1>2. /\ req' = [req EXCEPT ![p] = NoReq] /\ link' = link
      /\ UNCHANGED <<shows, clicks, show_rows, lost_shows, lost_clicks>>
  BY DEF ChargeClick, lost
<1>3. CASE UNCHANGED click_rows
  BY <1>1, <1>2, <1>3, OwesNothing DEF counters
<1>4. CASE link[p] /\ click_rows' = [click_rows EXCEPT ![req[p].ad] = @ + 1]
  <2>1. DebtOf(p) = Ledger!Debt("click", req[p].ad)
    BY <1>4, DebtIs DEF ChargeClick
  <2>2. /\ \A q \in Procs \ {p} : DebtOf(q)' = DebtOf(q)
        /\ DebtOf(p)' = Ledger!NoDebt
    BY <1>1, <1>2, OneDebt
  <2>3. [q \in Procs |-> DebtOf(q)]'
            = [[q \in Procs |-> DebtOf(q)] EXCEPT ![p] = Ledger!NoDebt]
    BY <2>2
  <2>4. DebtOf(p).kind = "click" /\ DebtOf(p).ad = req[p].ad /\ DebtOf(p)' # DebtOf(p)
    BY <2>1, <2>2 DEF Ledger!Debt, Ledger!NoDebt
  <2>5. click_rows' = Ledger!Raised(click_rows, DebtOf(p).ad)
    BY <1>4, <2>4 DEF Ledger!Raised
  <2>6. Ledger!ChargeClick(p)
    BY <1>2, <2>3, <2>4, <2>5 DEF Ledger!ChargeClick, Ledger!Settled
  <2> QED BY <2>4, <2>6 DEF Ledger!LedgerNext
<1> QED BY <1>3, <1>4 DEF ChargeClick

\* Every step of the workers and of their environment is one of the ledger's.
LEMMA StepLedger ==
    ASSUME TypeOK, ReqShape, SlotsRanked, [Next]_vars
    PROVE  [Ledger!LedgerNext]_(Ledger!ledgerVars)
<1> DEFINE Goal == [Ledger!LedgerNext]_(Ledger!ledgerVars)
<1>0. ASSUME NEW p \in Procs PROVE req[p] \in Req
  BY DEF TypeOK
<1>1. ASSUME NEW p \in Procs, Request(p) PROVE Goal
  <2>1. PICK n \in 1..MaxN, G \in SUBSET Groups :
           req' = [req EXCEPT ![p] = [NoReq EXCEPT !.pc = "groups", !.n = n,
                                          !.groups = IF link[p] THEN G ELSE {}]]
    BY <1>1 DEF Request
  <2>2. [NoReq EXCEPT !.pc = "groups", !.n = n, !.groups = IF link[p] THEN G ELSE {}].pc
            = "groups"
    BY DEF NoReq
  <2> QED BY <1>1, <2>1, <2>2, OwesNothing DEF Request, counters
<1>2. ASSUME NEW p \in Procs, FilterGroup(p) PROVE Goal
  <2>1. PICK g \in req[p].groups :
          \/ req' = [req EXCEPT ![p] = [req[p] EXCEPT !.groups = @ \ {g}]]
          \/ req' = [req EXCEPT ![p] = [req[p] EXCEPT !.groups = @ \ {g}, !.pc = "scan",
                                                 !.group = g, !.ads = AdsOf(g)]]
    BY <1>2 DEF FilterGroup
  <2>2. /\ [req[p] EXCEPT !.groups = @ \ {g}].pc = "groups"
        /\ [req[p] EXCEPT !.groups = @ \ {g}, !.pc = "scan", !.group = g,
                          !.ads = AdsOf(g)].pc = "scan"
    BY <1>0, <1>2 DEF FilterGroup, At, Req
  <2> QED BY <1>2, <2>1, <2>2, OwesNothing DEF FilterGroup, counters
<1>3. ASSUME NEW p \in Procs, CheckAd(p) PROVE Goal
  <2>1. PICK a \in req[p].ads :
          req' = [req EXCEPT ![p] =
                     [req[p] EXCEPT !.ads = @ \ {a},
                               !.ad = IF link[p] => valid[a] THEN a ELSE NoAd]]
    BY <1>3 DEF CheckAd
  <2>2. [req[p] EXCEPT !.ads = @ \ {a},
                       !.ad = IF link[p] => valid[a] THEN a ELSE NoAd].pc = "scan"
    BY <1>0, <1>3 DEF CheckAd, At, Req
  <2> QED BY <1>3, <2>1, <2>2, OwesNothing DEF CheckAd, counters
<1>4. ASSUME NEW p \in Procs, ReadAd(p) PROVE Goal
  <2>1. PICK b : req' = [req EXCEPT ![p] = [req[p] EXCEPT !.ad = NoAd, !.best = b]]
    BY <1>4 DEF ReadAd
  <2>2. [req[p] EXCEPT !.ad = NoAd, !.best = b].pc = "scan"
    BY <1>0, <1>4 DEF ReadAd, At, Req
  <2> QED BY <1>4, <2>1, <2>2, OwesNothing DEF ReadAd, counters
<1>5. ASSUME NEW p \in Procs, RankGroup(p) PROVE Goal
  <2>1. PICK t : req' = [req EXCEPT ![p] = [req[p] EXCEPT !.pc = "groups", !.group = NoGroup,
                                                     !.best = NoBest, !.slots = t]]
    BY <1>5 DEF RankGroup
  <2>2. [req[p] EXCEPT !.pc = "groups", !.group = NoGroup, !.best = NoBest,
                       !.slots = t].pc = "groups"
    BY <1>0 DEF Req
  <2> QED BY <1>5, <2>1, <2>2, OwesNothing DEF RankGroup, counters
<1>6. ASSUME NEW p \in Procs, Answer(p) PROVE Goal
  <2>1. req' = [req EXCEPT ![p] = NextSlot(req[p])]
    BY <1>6 DEF Answer
  <2>2. NextSlot(req[p]).pc \notin {"charge", "click_charge"}
    BY <1>0, NextSlotOwesNothing
  <2> QED BY <1>6, <2>1, <2>2, OwesNothing DEF Answer, counters
<1>7. ASSUME NEW p \in Procs, Click(p) PROVE Goal
  <2>1. PICK a \in Ads :
           req' = [req EXCEPT ![p] = [NoReq EXCEPT !.pc = "click", !.ad = a]]
    BY <1>7 DEF Click
  <2>2. [NoReq EXCEPT !.pc = "click", !.ad = a].pc = "click"
    BY DEF NoReq
  <2> QED BY <1>7, <2>1, <2>2, OwesNothing DEF Click, counters
<1>8. ASSUME NEW p \in Procs, DropLink(p) PROVE Goal
  <2>1. link'[p] = FALSE /\ \A q \in Procs \ {p} : link'[q] = link[q]
    BY <1>8 DEF DropLink, TypeOK
  <2>2. \A q \in Procs \ {p} : DebtOf(q)' = DebtOf(q)
    BY <1>8, <2>1 DEF DropLink, DebtOf, At
  <2>3. DebtOf(p)' = Ledger!NoDebt
    BY <2>1 DEF DebtOf, Ledger!NoDebt, Ledger!Debt
  <2> QED BY <1>8, <2>2, <2>3, LedgerSettles DEF DropLink, counters
<1>9. ASSUME NEW p \in Procs, Restart(p) PROVE Goal
  <2>1. /\ req'[p] = NoReq
        /\ \A q \in Procs \ {p} : link'[q] = link[q] /\ req'[q] = req[q]
    BY <1>9 DEF Restart, TypeOK
  <2>2. \A q \in Procs \ {p} : DebtOf(q)' = DebtOf(q)
    BY <2>1 DEF DebtOf, At
  <2>3. DebtOf(p)' = Ledger!NoDebt
    BY <2>1 DEF DebtOf, At, NoReq, Ledger!NoDebt, Ledger!Debt
  <2> QED BY <1>9, <2>2, <2>3, LedgerSettles DEF Restart, counters
<1>10. ASSUME UNCHANGED <<counters, link, req>> PROVE Goal
  <2>1. \A q \in Procs : DebtOf(q)' = DebtOf(q)
    BY <1>10 DEF DebtOf, At
  <2> QED BY <1>10, <2>1, LedgerStutter
<1>11. ASSUME NEW a \in Fickle, ToggleAd(a) PROVE Goal
  BY <1>10, <1>11 DEF ToggleAd, counters
<1>12. ASSUME NEW g \in Groups, ToggleGroup(g) PROVE Goal
  BY <1>10, <1>12 DEF ToggleGroup, counters
<1>13. CASE UNCHANGED vars
  BY <1>10, <1>13 DEF vars, counters
<1>14. ASSUME NEW p \in Procs, CountShow(p) PROVE Goal
  BY <1>14, LedgerCountsShow
<1>15. ASSUME NEW p \in Procs, ChargeShow(p) PROVE Goal
  BY <1>15, LedgerChargesShow
<1>16. ASSUME NEW p \in Procs, CountClick(p) PROVE Goal
  BY <1>16, LedgerCountsClick
<1>17. ASSUME NEW p \in Procs, ChargeClick(p) PROVE Goal
  BY <1>17, LedgerChargesClick
<1> QED
  BY <1>1, <1>2, <1>3, <1>4, <1>5, <1>6, <1>7, <1>8, <1>9, <1>11, <1>12, <1>13, <1>14,
     <1>15, <1>16, <1>17 DEF Next

LEMMA InitLedger == Init => Ledger!LedgerInit
<1> SUFFICES ASSUME Init PROVE Ledger!LedgerInit
  OBVIOUS
<1>1. \A p \in Procs : DebtOf(p) = Ledger!NoDebt
  BY DEF Init, NoReq, DebtOf, At, Ledger!NoDebt, Ledger!Debt
<1> QED BY <1>1 DEF Init, Ledger!LedgerInit

\* Whatever drops, dies or is refused at increase_ad_time and charge_ad
\* (ad_map.cpp:520-521, 590-591), the counters and the rows of fund_queue move
\* as those of AdLedger do: a show or click is charged at most once, for its
\* own ad and by the worker that counted it or had its increment refused.
THEOREM LedgerIsKept == Spec => KeepsLedger
<1>1. IInv /\ [Next]_vars => [Ledger!LedgerNext]_(Ledger!ledgerVars)
  BY StepLedger DEF IInv
<1> QED BY <1>1, Invariance, InitLedger, PTL DEF Spec, KeepsLedger, Ledger!LedgerSpec
=============================================================================
