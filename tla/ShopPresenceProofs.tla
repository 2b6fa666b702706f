------------------------ MODULE ShopPresenceProofs ------------------------
(***************************************************************************)
(* Theorems about ShopPresence, for any shops, phones, numbers made of     *)
(* their macs, gaps and clocks, and any commands refused: stays are not    *)
(* counted twice, the shop knows between two signals who is in it unless   *)
(* it was not told, and the stays of the mall, its shops and their users   *)
(* are in order but for those that were refused.                           *)
(***************************************************************************)
EXTENDS ShopPresence, FiniteSetTheorems, WellFoundedInduction, TLAPS

USE DEF At, Users

\* The initial state.
LEMMA InitIInv == Init => IInv
  <1> SUFFICES ASSUME Init PROVE IInv
    OBVIOUS
  <1>1. NoJob \in Job /\ NoJob.pc = "idle" /\ NoJob.pre = 0 /\ NoJob.now = 0
    BY DEF NoJob, Job, PCs
  <1>2. TypeOK
    BY <1>1, TimesType, EpochLate DEF Init, TypeOK
  <1>3. SignalSound /\ SeenSound
    BY <1>1, TimesType DEF Init, SignalSound, SeenSound
  <1>4. RoomForStay
    BY <1>1 DEF Init, RoomForStay
  <1>5. StayNotTwice
    <2> SUFFICES ASSUME NEW s \in Shops, NEW n \in Numbers
                 PROVE  user_stay[<<s, User[n]>>] <= Bound(<<s, n>>)
      BY DEF StayNotTwice
    <2>1. user_stay[<<s, User[n]>>] = 0 /\ first[<<s, n>>] = 0 /\ slips[<<s, n>>] = 0
      BY UserType DEF Init
    <2>2. Cap * 0 = 0
      BY TimesType
    <2> QED BY <2>1, <2>2 DEF Bound
  <1> QED
    BY <1>2, <1>3, <1>4, <1>5 DEF IInv

\* What a signal in work adds to a stay is a natural number below the Cap.
LEMMA IntervalBounds ==
    ASSUME TypeOK, SignalSound
    PROVE  Interval \in Nat /\ Interval <= Cap /\ Interval <= job.now - job.pre
  BY TimesType DEF TypeOK, SignalSound, Job, Interval, Min2

\* The sum of two natural numbers is one.
LEMMA NatSum == \A a, b \in Nat : a + b \in Nat
  OBVIOUS

\* A phone in work stands in the database under a number, and its keys are
\* keys of it.
LEMMA KeysType ==
    ASSUME TypeOK, SignalSound, job.pc \notin {"idle", "next"}
    PROVE  /\ job.shop \in Shops /\ job.phone \in Macs /\ job.mac \in Numbers
           /\ job.user \in {0, User[job.mac]} /\ job.user \in Users /\ User[job.mac] \in Ids
           /\ Here = <<job.shop, job.mac>> /\ Here \in Shops \X Numbers
           /\ Him = <<job.shop, job.user>> /\ Him \in Shops \X Users
           /\ There = <<job.shop, job.phone>> /\ There \in Shops \X Macs
           /\ job.now \in Nat /\ job.pre \in Nat
  <1>1. job.shop \in Shops /\ job.phone \in Macs /\ job.user \in {0, User[job.mac]}
    BY DEF SignalSound
  <1>2. job.mac \in Numbers
    BY <1>1 DEF SignalSound, Numbers
  <1>3. User[job.mac] \in Ids
    BY <1>2, UserType
  <1>4. job.now \in Nat /\ job.pre \in Nat
    BY DEF TypeOK, Job
  <1> QED BY <1>1, <1>2, <1>3, <1>4 DEF Here, Him, There

\* Writing keeps the type of what is written.
LEMMA PutType ==
    ASSUME NEW K, NEW V, NEW f \in [K -> V], NEW k \in K, NEW v \in V, NEW done \in BOOLEAN
    PROVE  Put(f, k, v, done) \in [K -> V]
  BY DEF Put

LEMMA SentType ==
    ASSUME TypeOK, NEW done \in BOOLEAN, Sent(done)
    PROVE  refused' \in 0..MaxRefused
  BY TimesType DEF TypeOK, Sent, Refusal

\* A step to another place in the function.
LEMMA GotoType ==
    ASSUME TypeOK, NEW loc \in PCs, Goto(loc)
    PROVE  /\ job' \in Job /\ job'.pc = loc
           /\ job'.shop = job.shop /\ job'.now = job.now /\ job'.todo = job.todo
           /\ job'.phone = job.phone /\ job'.mac = job.mac /\ job'.vip = job.vip
           /\ job'.user = job.user /\ job'.pre = job.pre
  BY DEF TypeOK, Goto, Job

\* The phone that is taken up.
LEMMA NextMacJob ==
    ASSUME TypeOK, NextMac
    PROVE  /\ job' \in Job /\ job'.pc = "read" /\ job'.shop = job.shop /\ job'.now = job.now
           /\ job'.pre = job.pre /\ job'.phone \in Macs
           /\ job'.mac \in {job'.phone} \cup Ghosts[job'.phone]
           /\ job'.user \in {0, User[job'.mac]}
  <1>1. PICK m \in job.todo, v \in BOOLEAN : \E n \in {m} \cup Ghosts[m] : \E i \in {0, User[n]} :
           job' = [job EXCEPT !.pc = "read", !.todo = job.todo \ {m}, !.phone = m, !.mac = n,
                              !.vip = v, !.user = i]
    BY DEF NextMac
  <1>2. PICK n \in {m} \cup Ghosts[m] : \E i \in {0, User[n]} :
           job' = [job EXCEPT !.pc = "read", !.todo = job.todo \ {m}, !.phone = m, !.mac = n,
                              !.vip = v, !.user = i]
    BY <1>1
  <1>3. PICK i \in {0, User[n]} :
           job' = [job EXCEPT !.pc = "read", !.todo = job.todo \ {m}, !.phone = m, !.mac = n,
                              !.vip = v, !.user = i]
    BY <1>2
  <1>4. job \in Job /\ m \in Macs
    BY DEF TypeOK, Job
  <1>5. n \in Numbers
    BY <1>4 DEF Numbers
  <1>6. i \in Users /\ job.todo \ {m} \in SUBSET Macs
    BY <1>4, <1>5, UserType DEF Job
  <1>7. job' \in Job
    BY <1>3, <1>4, <1>5, <1>6 DEF Job, PCs
  <1>8. /\ job'.pc = "read" /\ job'.shop = job.shop /\ job'.now = job.now
        /\ job'.pre = job.pre /\ job'.phone = m /\ job'.mac = n /\ job'.user = i
    BY <1>3, <1>4 DEF Job
  <1> QED BY <1>4, <1>7, <1>8

\* The signal that is taken up.
LEMMA ParseJob ==
    ASSUME TypeOK, NEW s \in Shops, NEW M \in SUBSET Macs, ParseApmacCloser(s, M)
    PROVE  job' \in Job /\ job'.pc = "next" /\ job'.shop = s /\ job'.now = clock /\ job'.pre = 0
  <1>1. job' = [pc |-> "next", shop |-> s, now |-> clock, todo |-> M, phone |-> NoMac,
                mac |-> NoMac, vip |-> FALSE, user |-> 0, pre |-> 0]
    BY DEF ParseApmacCloser, NoJob
  <1>2. clock \in Nat
    BY DEF TypeOK
  <1> QED BY <1>1, <1>2 DEF Job, PCs

\* The phone that is done with.
LEMMA SetShopJob ==
    ASSUME TypeOK, SetShop
    PROVE  /\ job' \in Job /\ job'.pc = "next" /\ job'.shop = job.shop /\ job'.now = job.now
           /\ job'.pre = 0 /\ job'.phone = NoMac /\ job'.mac = NoMac
  <1>1. job' = [pc |-> "next", shop |-> job.shop, now |-> job.now, todo |-> job.todo,
                phone |-> NoMac, mac |-> NoMac, vip |-> FALSE, user |-> 0, pre |-> 0]
    BY DEF SetShop, NoJob
  <1>2. job \in Job
    BY DEF TypeOK
  <1> QED BY <1>1, <1>2 DEF Job, PCs

\* The time of the signal before, read or not.
LEMMA ReadSeenJob ==
    ASSUME TypeOK, SignalSound, ReadSeen
    PROVE  /\ job' \in Job /\ job'.pc = "set" /\ job'.shop = job.shop /\ job'.now = job.now
           /\ job'.phone = job.phone /\ job'.mac = job.mac /\ job'.user = job.user
           /\ job'.pre \in {0, seen[Here]}
  <1>1. PICK done \in BOOLEAN :
           job' = [job EXCEPT !.pc = "set", !.pre = IF done THEN seen[Here] ELSE 0]
    BY DEF ReadSeen
  <1>2. job \in Job /\ seen[Here] \in Nat
    BY KeysType DEF TypeOK, ReadSeen
  <1> QED BY <1>1, <1>2 DEF Job, PCs

LEMMA NoJobType == /\ NoJob \in Job /\ NoJob.pc = "idle" /\ NoJob.pre = 0 /\ NoJob.now = 0
                   /\ NoJob.mac = NoMac /\ NoJob.phone = NoMac
  BY DEF NoJob, Job, PCs

\* Type correctness is preserved.
LEMMA NextTypes ==
    ASSUME TypeOK, SignalSound, SeenSound, [Next]_vars
    PROVE  TypeOK'
  <1>0. Interval \in Nat
    BY IntervalBounds
  <1> USE DEF places, visits, stays, arrivals, env
  <1>1. ASSUME NEW s \in Shops, NEW M \in SUBSET Macs, ParseApmacCloser(s, M) PROVE TypeOK'
    <2>1. signals' \in 0..MaxSignals
      BY <1>1, TimesType DEF ParseApmacCloser, TypeOK
    <2> QED BY <1>1, <2>1, ParseJob DEF ParseApmacCloser, TypeOK
  <1>2. CASE NextMac
    BY <1>2, NextMacJob DEF NextMac, TypeOK
  <1>3. CASE EndSignal
    BY <1>3, NoJobType DEF EndSignal, TypeOK
  <1>4. CASE ReadSeen
    <2>1. PICK done \in BOOLEAN :
             Sent(done) /\ slips' = Put(slips, Here, slips[Here] + 1, Refusal(done))
      BY <1>4 DEF ReadSeen
    <2>2. refused' \in 0..MaxRefused
      BY <2>1, SentType
    <2>3. Here \in Shops \X Numbers
      BY <1>4, KeysType DEF ReadSeen
    <2>4. slips' \in [Shops \X Numbers -> Nat]
      BY <2>1, <2>3 DEF TypeOK, Put
    <2> QED BY <1>4, <2>2, <2>4, ReadSeenJob DEF ReadSeen, TypeOK
  <1>5. CASE SetSeen
    <2>0. job' \in Job
      BY <1>5, GotoType DEF SetSeen, PCs
    <2>1. PICK done \in BOOLEAN :
             /\ Sent(done)
             /\ seen' = Put(seen, Here, job.now, done)
             /\ first' = Put(first, Here, job.now, done /\ first[Here] = 0)
             /\ slips' = Put(slips, Here, slips[Here] + 1, Refusal(done))
             /\ NoteVisit(done)
      BY <1>5 DEF SetSeen
    <2>2. refused' \in 0..MaxRefused
      BY <2>1, SentType
    <2>3. /\ Here \in Shops \X Numbers /\ There \in Shops \X Macs
          /\ job.now \in Nat /\ job.shop \in Shops /\ job.phone \in Macs
      BY <1>5, KeysType DEF SetSeen
    <2>4. seen' \in [Shops \X Numbers -> Nat] /\ first' \in [Shops \X Numbers -> Nat]
      BY <2>1, <2>3 DEF TypeOK, Put
    <2>5. slips' \in [Shops \X Numbers -> Nat]
      BY <2>1, <2>3 DEF TypeOK, Put
    <2>6. last' \in [Shops \X Macs -> Nat] /\ since' \in [Shops \X Macs -> Nat]
      BY <2>1, <2>3 DEF TypeOK, Put, NoteVisit
    <2>7. latest' \in [Macs -> Shops \cup {NoShop}]
      BY <2>1, <2>3 DEF TypeOK, Put, NoteVisit
    <2>8. cut' \in [Shops \X Macs -> BOOLEAN]
      BY <2>1, <2>3 DEF TypeOK, Put, NoteVisit
    <2> QED BY <1>5, <2>0, <2>2, <2>4, <2>5, <2>6, <2>7, <2>8 DEF SetSeen, TypeOK
  <1>6. CASE SetListed
    <2>0. job' \in Job
      BY <1>6, GotoType DEF SetListed, PCs
    <2>1. PICK done \in BOOLEAN : Sent(done) /\ listed' = Put(listed, Here, job.now, done)
      BY <1>6 DEF SetListed
    <2>2. refused' \in 0..MaxRefused
      BY <2>1, SentType
    <2>3. Here \in Shops \X Numbers /\ job.now \in Nat
      BY <1>6, KeysType DEF SetListed
    <2>4. listed' \in [Shops \X Numbers -> Nat]
      BY <2>1, <2>3 DEF TypeOK, Put
    <2> QED BY <1>6, <2>0, <2>2, <2>4 DEF SetListed, TypeOK
  <1>7. CASE AddUserStay
    <2>0. job' \in Job
      BY <1>7, GotoType DEF AddUserStay, PCs
    <2>1. PICK done \in BOOLEAN :
             /\ Sent(done)
             /\ user_stay' = Put(user_stay, Him, user_stay[Him] + Interval, done)
             /\ lost_user' = Put(lost_user, job.shop, lost_user[job.shop] + Interval, Refusal(done))
      BY <1>7 DEF AddUserStay
    <2>2. refused' \in 0..MaxRefused
      BY <2>1, SentType
    <2>3. Him \in Shops \X Users /\ job.shop \in Shops
      BY <1>7, KeysType DEF AddUserStay
    <2>4. user_stay' \in [Shops \X Users -> Nat]
      BY <1>0, <2>1, <2>3, NatSum DEF TypeOK, Put
    <2>5. lost_user' \in [Shops -> Nat]
      BY <1>0, <2>1, <2>3, NatSum DEF TypeOK, Put
    <2> QED BY <1>7, <2>0, <2>2, <2>4, <2>5 DEF AddUserStay, TypeOK
  <1>8. CASE AddShopStay
    <2>0. job' \in Job
      BY <1>8, GotoType DEF AddShopStay, PCs
    <2>1. PICK done \in BOOLEAN :
             /\ Sent(done)
             /\ shop_stay' = Put(shop_stay, job.shop, shop_stay[job.shop] + Interval, done)
             /\ lost_shop' = IF Refusal(done) THEN lost_shop + Interval ELSE lost_shop
      BY <1>8 DEF AddShopStay
    <2>2. refused' \in 0..MaxRefused
      BY <2>1, SentType
    <2>3. job.shop \in Shops
      BY <1>8, KeysType DEF AddShopStay
    <2>4. shop_stay' \in [Shops -> Nat]
      BY <1>0, <2>1, <2>3, NatSum DEF TypeOK, Put
    <2>5. lost_shop' \in Nat
      BY <1>0, <2>1, NatSum DEF TypeOK
    <2> QED BY <1>8, <2>0, <2>2, <2>4, <2>5 DEF AddShopStay, TypeOK
  <1>9. CASE AddMallStay
    <2>0. job' \in Job
      BY <1>9, GotoType DEF AddMallStay, PCs
    <2>1. PICK done \in BOOLEAN :
             Sent(done) /\ mall_stay' = IF done THEN mall_stay + Interval ELSE mall_stay
      BY <1>9 DEF AddMallStay
    <2>2. refused' \in 0..MaxRefused
      BY <2>1, SentType
    <2>3. mall_stay' \in Nat
      BY <1>0, <2>1, NatSum DEF TypeOK
    <2> QED BY <1>9, <2>0, <2>2, <2>3 DEF AddMallStay, TypeOK
  <1>10. CASE Arrive
    <2>0. job' \in Job
      BY <1>10, GotoType DEF Arrive, PCs
    <2>1. /\ Him \in Shops \X Users /\ There \in Shops \X Macs /\ job.now \in Nat
      BY <1>10, KeysType DEF Arrive
    <2>2. CASE UNCHANGED <<arrivals, cut, refused>>
      BY <1>10, <2>0, <2>2 DEF Arrive, TypeOK
    <2>3. CASE \E done \in BOOLEAN :
                  /\ Sent(done)
                  /\ vip_arrived' = Put(vip_arrived, Him, job.now, done /\ job.vip)
                  /\ arrived' = Put(arrived, Him, job.now, done /\ ~job.vip)
                  /\ CutHere(Refusal(done))
      <3>1. PICK done \in BOOLEAN :
                  /\ Sent(done)
                  /\ vip_arrived' = Put(vip_arrived, Him, job.now, done /\ job.vip)
                  /\ arrived' = Put(arrived, Him, job.now, done /\ ~job.vip)
                  /\ CutHere(Refusal(done))
        BY <2>3
      <3>2. refused' \in 0..MaxRefused
        BY <3>1, SentType
      <3>3. vip_arrived' \in [Shops \X Users -> Nat] /\ arrived' \in [Shops \X Users -> Nat]
        BY <3>1, <2>1 DEF TypeOK, Put
      <3>4. cut' \in [Shops \X Macs -> BOOLEAN]
        BY <3>1, <2>1 DEF TypeOK, CutHere, Put
      <3> QED BY <1>10, <2>0, <3>2, <3>3, <3>4 DEF Arrive, TypeOK
    <2> QED BY <1>10, <2>2, <2>3 DEF Arrive
  <1>11. CASE SetShop
    <2>1. PICK done \in BOOLEAN :
             /\ Sent(done)
             /\ shop_of' = Put(shop_of, job.user, job.shop, done)
             /\ CutHere(Refusal(done))
      BY <1>11 DEF SetShop
    <2>2. refused' \in 0..MaxRefused
      BY <2>1, SentType
    <2>3. There \in Shops \X Macs /\ job.shop \in Shops /\ job.user \in Users
      BY <1>11, KeysType DEF SetShop
    <2>4. shop_of' \in [Users -> Shops \cup {NoShop}]
      BY <2>1, <2>3 DEF TypeOK, Put
    <2>5. cut' \in [Shops \X Macs -> BOOLEAN]
      BY <2>1, <2>3 DEF TypeOK, CutHere, Put
    <2> QED BY <1>11, <2>2, <2>4, <2>5, SetShopJob DEF SetShop, TypeOK
  <1>12. CASE Tick
    BY <1>12 DEF Tick, TypeOK
  <1>13. CASE DropLink \/ Restart
    <2>1. cut' \in [Shops \X Macs -> BOOLEAN]
      BY <1>13 DEF DropLink, Restart, CutHere, Put, TypeOK
    <2>2. job' \in Job
      BY <1>13, NoJobType DEF DropLink, Restart, TypeOK
    <2> QED BY <1>13, <2>1, <2>2 DEF DropLink, Restart, TypeOK
  <1>14. CASE UNCHANGED vars
    BY <1>14 DEF vars, TypeOK
  <1> QED
    BY <1>1, <1>2, <1>3, <1>4, <1>5, <1>6, <1>7, <1>8, <1>9, <1>10, <1>11, <1>12, <1>13, <1>14
       DEF Next

\* What a signal knows, and what is known of the times, is preserved.
LEMMA NextTimes ==
    ASSUME TypeOK, SignalSound, SeenSound, [Next]_vars
    PROVE  SignalSound' /\ SeenSound'
  <1> DEFINE Goal == SignalSound' /\ SeenSound'
  <1> USE DEF places, env
  <1>0. clock \in Nat /\ Epoch \in Nat /\ job.now \in Nat /\ job.pre \in Nat
        /\ \A x \in Shops \X Numbers : seen[x] \in Nat
    BY TimesType DEF TypeOK, Job
  <1>1. ASSUME NEW s \in Shops, NEW M \in SUBSET Macs, ParseApmacCloser(s, M) PROVE Goal
    <2>1. job'.pc = "next" /\ job'.shop = s /\ job'.now = clock /\ job'.pre = 0
      BY <1>1, ParseJob
    <2>2. UNCHANGED <<seen, first, clock>> /\ job.pc = "idle"
      BY <1>1 DEF ParseApmacCloser
    <2>3. SignalSound'
      BY <1>0, <2>1, <2>2 DEF SignalSound, SeenSound
    <2>4. SeenSound'
      BY <1>0, <2>1, <2>2 DEF SeenSound
    <2> QED BY <2>3, <2>4
  <1>2. CASE NextMac \/ EndSignal
    <2>1. UNCHANGED <<seen, first, clock>> /\ job.pc = "next"
      BY <1>2 DEF NextMac, EndSignal
    <2>2. CASE NextMac
      BY <2>1, <2>2, NextMacJob DEF SignalSound, SeenSound
    <2>3. CASE EndSignal
      <3>1. job'.pc = "idle" /\ job'.pre = 0 /\ job'.now = 0
        BY <2>3, NoJobType DEF EndSignal
      <3> QED BY <1>0, <2>1, <3>1 DEF SignalSound, SeenSound
    <2> QED BY <1>2, <2>2, <2>3
  <1>3. CASE ReadSeen
    <2>1. UNCHANGED <<seen, first, clock>> /\ job.pc = "read"
      BY <1>3 DEF ReadSeen
    <2>2. Here \in Shops \X Numbers
      BY <1>3, <2>1, KeysType
    <2>3. /\ job'.pc = "set" /\ job'.shop = job.shop /\ job'.now = job.now
          /\ job'.phone = job.phone /\ job'.mac = job.mac /\ job'.user = job.user
          /\ job'.pre \in {0, seen[Here]}
      BY <1>3, ReadSeenJob
    <2>4. seen[Here] <= job.now
      BY <2>1, <2>2 DEF SeenSound
    <2>5. SignalSound'
      BY <1>0, <2>1, <2>3, <2>4 DEF SignalSound
    <2>6. SeenSound'
      BY <2>1, <2>3 DEF SeenSound
    <2> QED BY <2>5, <2>6
  <1>4. CASE SetSeen
    <2>1. job.now # 0 /\ Here \in Shops \X Numbers /\ Epoch <= job.now /\ job.now <= clock
      BY <1>0, <1>4, KeysType, EpochLate, TimesType DEF SetSeen, SignalSound
    <2>2. /\ job'.pc = "list" /\ job'.shop = job.shop /\ job'.now = job.now /\ clock' = clock
          /\ job'.phone = job.phone /\ job'.mac = job.mac /\ job'.user = job.user
          /\ job'.pre = job.pre
      BY <1>4, GotoType DEF SetSeen, PCs
    <2>3. SignalSound'
      BY <1>4, <2>2 DEF SetSeen, SignalSound
    <2>4. SeenSound'
      <3>1. \/ seen' = seen /\ first' = first
            \/ /\ seen' = [seen EXCEPT ![Here] = job.now]
               /\ first' = IF first[Here] = 0 THEN [first EXCEPT ![Here] = job.now] ELSE first
        BY <1>4 DEF SetSeen, Put
      <3>2. seen \in [Shops \X Numbers -> Nat] /\ first \in [Shops \X Numbers -> Nat]
        BY DEF TypeOK
      <3>3. \A x \in Shops \X Numbers :
               seen[x] <= job.now /\ first[x] <= seen[x] /\ (first[x] = 0 <=> seen[x] = 0)
        BY <1>4 DEF SetSeen, SeenSound
      <3>4. \A x \in Shops \X Numbers :
               seen'[x] <= job.now /\ first'[x] <= seen'[x] /\ (first'[x] = 0 <=> seen'[x] = 0)
        <4> TAKE x \in Shops \X Numbers
        <4>1. CASE seen' = seen /\ first' = first
          BY <3>3, <4>1
        <4>2. CASE x # Here
          BY <2>1, <3>1, <3>2, <3>3, <4>2
        <4>3. CASE ~(seen' = seen /\ first' = first) /\ x = Here
          BY <1>0, <2>1, <3>1, <3>2, <3>3, <4>3
        <4> QED BY <4>1, <4>2, <4>3
      <3> QED BY <2>1, <2>2, <3>4 DEF SeenSound
    <2> QED BY <2>3, <2>4
  <1>5. CASE SetListed \/ AddUserStay \/ AddShopStay \/ AddMallStay \/ Arrive
    <2>1. PICK loc \in {"user", "shop", "mall", "arrive", "set_shop"} : Goto(loc)
      BY <1>5 DEF SetListed, AddUserStay, AddShopStay, AddMallStay, Arrive
    <2>2. /\ job'.pc = loc /\ job'.shop = job.shop /\ job'.now = job.now
          /\ job'.phone = job.phone /\ job'.mac = job.mac /\ job'.user = job.user
          /\ job'.pre = job.pre
      BY <2>1, GotoType DEF PCs
    <2>3. UNCHANGED <<seen, first, clock>> /\ job.pc \notin {"idle", "next"}
      BY <1>5 DEF SetListed, AddUserStay, AddShopStay, AddMallStay, Arrive
    <2> QED BY <2>2, <2>3 DEF SignalSound, SeenSound
  <1>6. CASE SetShop
    <2>1. UNCHANGED <<seen, first, clock>> /\ job.pc = "set_shop"
      BY <1>6 DEF SetShop
    <2> QED BY <1>0, <1>6, <2>1, SetShopJob DEF SignalSound, SeenSound
  <1>7. CASE Tick
    <2>1. clock' = clock + 1 /\ UNCHANGED <<job, seen, first>>
      BY <1>7 DEF Tick
    <2>2. SignalSound'
      BY <1>0, <2>1 DEF SignalSound
    <2>3. SeenSound'
      BY <1>0, <2>1 DEF SeenSound
    <2> QED BY <2>2, <2>3
  <1>8. CASE DropLink
    BY <1>8 DEF DropLink, SignalSound, SeenSound
  <1>9. CASE Restart
    <2>1. job'.pc = "idle" /\ job'.pre = 0 /\ job'.now = 0 /\ UNCHANGED <<seen, first, clock>>
      BY <1>9, NoJobType DEF Restart
    <2>2. \A x \in Shops \X Numbers : seen[x] <= clock
      BY <1>0 DEF SignalSound, SeenSound
    <2> QED BY <2>1, <2>2 DEF SignalSound, SeenSound
  <1>10. CASE UNCHANGED vars
    BY <1>10 DEF vars, SignalSound, SeenSound
  <1> QED
    BY <1>1, <1>2, <1>3, <1>4, <1>5, <1>6, <1>7, <1>8, <1>9, <1>10 DEF Next

\* The bound of a stay is a number.
LEMMA BoundType ==
    ASSUME TypeOK, NEW x \in Shops \X Numbers
    PROVE  Bound(x) \in Int
  <1>1. Cap \in Nat /\ slips[x] \in Nat /\ seen[x] \in Nat /\ first[x] \in Nat
    BY TimesType DEF TypeOK
  <1>2. Cap * slips[x] \in Int
    BY <1>1
  <1> QED BY <1>1, <1>2 DEF Bound

\* One reading or writing refused is worth another Cap.
LEMMA SlipBound ==
    ASSUME TypeOK, NEW x \in Shops \X Numbers, NEW y \in Shops \X Numbers,
           slips' = [slips EXCEPT ![y] = slips[y] + 1], seen' = seen, first' = first
    PROVE  Bound(x)' = IF x = y THEN Bound(x) + Cap ELSE Bound(x)
  <1>1. Cap \in Nat /\ slips[x] \in Nat /\ seen[x] \in Nat /\ first[x] \in Nat
    BY TimesType DEF TypeOK
  <1>2. slips'[x] = IF x = y THEN slips[x] + 1 ELSE slips[x]
    BY DEF TypeOK
  <1>3. Cap * (slips[x] + 1) = Cap * slips[x] + Cap /\ Cap * slips[x] \in Int
    BY <1>1
  <1> PICK c : c = Cap * slips[x]
    OBVIOUS
  <1>4. Cap * slips'[x] = IF x = y THEN c + Cap ELSE c
    BY <1>2, <1>3
  <1> QED BY <1>1, <1>3, <1>4 DEF Bound

\* A step that leaves the times and the stays alone leaves room for a stay.
LEMMA RoomKept ==
    ASSUME TypeOK, RoomForStay, StayNotTwice, UNCHANGED <<seen, first, slips, user_stay>>,
           link' => link,
           job'.pc \in {"set", "list", "user"} =>
               /\ job'.pc = job.pc \/ (At("list") /\ job'.pc = "user")
               /\ UNCHANGED <<job.shop, job.mac, job.user, job.now, job.pre>>
    PROVE  RoomForStay' /\ StayNotTwice'
  <1>1. \A x : Bound(x)' = Bound(x)
    BY DEF Bound
  <1>2. StayNotTwice'
    BY <1>1 DEF StayNotTwice
  <1>3. RoomForStay'
    <2> SUFFICES ASSUME link', job'.user = User[job'.mac], job'.pc \in {"set", "list", "user"}
                 PROVE  RoomForStay'
      BY DEF RoomForStay
    <2>1. Here' = Here /\ Him' = Him /\ Interval' = Interval /\ job'.pre = job.pre
          /\ link /\ job.user = User[job.mac]
      BY DEF Here, Him, Interval, Min2
    <2>2. Bound(Here)' = Bound(Here)
      BY <2>1 DEF Bound
    <2> QED BY <2>1, <2>2 DEF RoomForStay
  <1> QED BY <1>2, <1>3

\* The stays leave room, and are within their bounds.
LEMMA NextStays ==
    ASSUME IInv, [Next]_vars
    PROVE  RoomForStay' /\ StayNotTwice'
  <1> DEFINE Goal == RoomForStay' /\ StayNotTwice'
  <1> USE DEF IInv
  <1>0. \A s \in Shops, n \in Numbers :
            /\ user_stay[<<s, User[n]>>] \in Nat /\ Bound(<<s, n>>) \in Int
            /\ user_stay[<<s, User[n]>>] <= Bound(<<s, n>>)
    <2> SUFFICES ASSUME NEW s \in Shops, NEW n \in Numbers
                 PROVE  /\ user_stay[<<s, User[n]>>] \in Nat /\ Bound(<<s, n>>) \in Int
                        /\ user_stay[<<s, User[n]>>] <= Bound(<<s, n>>)
      OBVIOUS
    <2>1. user_stay[<<s, User[n]>>] \in Nat
      BY UserType DEF TypeOK
    <2>2. <<s, n>> \in Shops \X Numbers
      OBVIOUS
    <2> QED BY <2>1, <2>2, BoundType DEF StayNotTwice
  <1>1. ASSUME NEW s \in Shops, NEW M \in SUBSET Macs, ParseApmacCloser(s, M) PROVE Goal
    BY <1>1, ParseJob, RoomKept DEF ParseApmacCloser, places, stays
  <1>2. CASE NextMac \/ EndSignal
    <2>1. job'.pc \in {"idle", "read"}
      BY <1>2, NextMacJob, NoJobType DEF EndSignal
    <2>2. UNCHANGED <<seen, first, slips, user_stay, link>>
      BY <1>2 DEF NextMac, EndSignal, places, stays, env
    <2> QED BY <2>1, <2>2, RoomKept
  <1>3. CASE ReadSeen
    <2>1. PICK done \in BOOLEAN :
             /\ Sent(done)
             /\ job' = [job EXCEPT !.pc = "set", !.pre = IF done THEN seen[Here] ELSE 0]
             /\ slips' = Put(slips, Here, slips[Here] + 1, Refusal(done))
      BY <1>3 DEF ReadSeen
    <2>2. /\ Here \in Shops \X Numbers /\ job.pc = "read" /\ job.mac \in Numbers
          /\ job.shop \in Shops /\ Him = <<job.shop, job.user>> /\ Here = <<job.shop, job.mac>>
          /\ UNCHANGED <<seen, first, user_stay, link>>
      BY <1>3, KeysType DEF ReadSeen, places, stays, env
    <2>3. /\ job'.pc = "set" /\ job'.shop = job.shop /\ job'.mac = job.mac
          /\ job'.user = job.user /\ (done => job'.pre = seen[Here])
      BY <2>1, <2>2 DEF TypeOK, Job
    <2>4. Here' = Here /\ Him' = Him
      BY <2>2, <2>3 DEF Here, Him
    <2>5. CASE ~Refusal(done)
      <3>1. slips' = slips
        BY <2>1, <2>5 DEF Put
      <3>2. \A x : Bound(x)' = Bound(x)
        BY <2>2, <3>1 DEF Bound
      <3>3. StayNotTwice'
        BY <2>2, <3>2 DEF StayNotTwice
      <3>4. link' => done
        BY <2>2, <2>5 DEF Refusal
      <3>5. RoomForStay'
        BY <2>2, <2>3, <2>4, <3>4 DEF RoomForStay
      <3> QED BY <3>3, <3>5
    <2>6. CASE Refusal(done)
      <3>1. slips' = [slips EXCEPT ![Here] = slips[Here] + 1]
        BY <2>1, <2>6 DEF Put
      <3>2. \A x \in Shops \X Numbers :
               Bound(x)' = IF x = Here THEN Bound(x) + Cap ELSE Bound(x)
        BY <2>2, <3>1, SlipBound
      <3>3. Cap \in Nat
        BY TimesType
      <3>4. StayNotTwice'
        <4> SUFFICES ASSUME NEW s \in Shops, NEW n \in Numbers
                     PROVE  user_stay[<<s, User[n]>>] <= Bound(<<s, n>>)'
          BY <2>2 DEF StayNotTwice
        <4>1. <<s, n>> \in Shops \X Numbers
          OBVIOUS
        <4>2. user_stay[<<s, User[n]>>] \in Nat /\ Bound(<<s, n>>) \in Int
              /\ user_stay[<<s, User[n]>>] <= Bound(<<s, n>>)
          BY <1>0
        <4>3. Bound(<<s, n>>)' \in {Bound(<<s, n>>), Bound(<<s, n>>) + Cap}
          BY <3>2, <4>1
        <4> QED BY <3>3, <4>2, <4>3
      <3>5. job.user = User[job.mac] => user_stay[Him] + Cap <= Bound(Here)'
        <4> SUFFICES ASSUME job.user = User[job.mac]
                     PROVE  user_stay[Him] + Cap <= Bound(Here)'
          OBVIOUS
        <4>1. user_stay[Him] \in Nat /\ Bound(Here) \in Int /\ user_stay[Him] <= Bound(Here)
          BY <1>0, <2>2
        <4>2. Bound(Here)' = Bound(Here) + Cap
          <5> DEFINE h == Here
          <5>1. Bound(h)' = Bound(h) + Cap
            BY <2>2, <2>4, <3>2
          <5> QED BY <5>1
        <4> QED BY <3>3, <4>1, <4>2
      <3>6. RoomForStay'
        BY <2>2, <2>3, <2>4, <3>5 DEF RoomForStay
      <3> QED BY <3>4, <3>6
    <2> QED BY <2>5, <2>6
  <1>4. CASE SetSeen
    <2>1. PICK done \in BOOLEAN :
             /\ Sent(done)
             /\ seen' = Put(seen, Here, job.now, done)
             /\ first' = Put(first, Here, job.now, done /\ first[Here] = 0)
             /\ slips' = Put(slips, Here, slips[Here] + 1, Refusal(done))
      BY <1>4 DEF SetSeen
    <2>2. /\ Here \in Shops \X Numbers /\ job.pc = "set" /\ job.mac \in Numbers
          /\ job.shop \in Shops /\ Him = <<job.shop, job.user>> /\ Here = <<job.shop, job.mac>>
          /\ UNCHANGED <<user_stay, link>>
      BY <1>4, KeysType DEF SetSeen, places, stays, env
    <2>3. /\ job'.pc = "list" /\ job'.shop = job.shop /\ job'.mac = job.mac
          /\ job'.user = job.user /\ job'.now = job.now /\ job'.pre = job.pre
      BY <1>4, GotoType DEF SetSeen, PCs
    <2>4. Here' = Here /\ Him' = Him /\ Interval' = Interval
      BY <2>2, <2>3 DEF Here, Him, Interval, Min2
    <2>5. Interval \in Nat /\ Interval <= Cap /\ Interval <= job.now - job.pre /\ Cap \in Nat
          /\ job.now \in Nat /\ job.pre \in Nat /\ job.now # 0
      BY <1>4, IntervalBounds, KeysType, EpochLate, TimesType DEF SetSeen, SignalSound
    <2> PICK h : h = Here
      OBVIOUS
    <2>6. /\ \A x \in Shops \X Numbers : Bound(x)' \in Int /\ Bound(x) <= Bound(x)'
          /\ link /\ (~done \/ job.pre = seen[h]) => Bound(h) + Interval <= Bound(h)'
      <3>1. CASE done
        <4>1. ~Refusal(done) /\ link
          BY <2>1, <3>1 DEF Sent, Refusal
        <4>2. /\ seen' = [seen EXCEPT ![h] = job.now] /\ slips' = slips
              /\ first' = IF first[h] = 0 THEN [first EXCEPT ![h] = job.now] ELSE first
          BY <2>1, <3>1, <4>1 DEF Put
        <4>3. ASSUME NEW x \in Shops \X Numbers, x # h PROVE Bound(x)' = Bound(x)
          BY <2>2, <4>2, <4>3 DEF Bound, TypeOK
        <4>4. /\ seen'[h] = job.now /\ first'[h] = IF first[h] = 0 THEN job.now ELSE first[h]
              /\ seen[h] \in Nat /\ first[h] \in Nat /\ seen[h] <= job.now
              /\ first[h] <= seen[h] /\ (first[h] = 0 <=> seen[h] = 0)
          BY <2>2, <4>2 DEF TypeOK, SeenSound
        <4> PICK c : c = Cap * slips[h]
          OBVIOUS
        <4>5. c \in Int
          BY <2>2, TimesType DEF TypeOK
        <4>6. /\ Bound(h) = (IF first[h] = 0 THEN 0 ELSE Cap + seen[h] - first[h]) + c
              /\ Bound(h)' = (IF first'[h] = 0 THEN 0 ELSE Cap + seen'[h] - first'[h]) + c
          BY <4>2 DEF Bound
        <4>7. /\ Bound(h)' \in Int /\ Bound(h) <= Bound(h)'
              /\ job.pre = seen[h] => Bound(h) + Interval <= Bound(h)'
          BY <2>5, <4>4, <4>5, <4>6
        <4>8. \A x \in Shops \X Numbers : Bound(x)' \in Int /\ Bound(x) <= Bound(x)'
          <5> TAKE x \in Shops \X Numbers
          <5>1. Bound(x) \in Int
            BY BoundType
          <5> QED BY <4>3, <4>7, <5>1
        <4> QED BY <3>1, <4>7, <4>8
      <3>2. CASE ~done /\ ~link
        <4>1. \A x : Bound(x)' = Bound(x)
          BY <2>1, <3>2 DEF Bound, Put, Refusal
        <4>2. \A x \in Shops \X Numbers : Bound(x) \in Int
          BY BoundType
        <4> QED BY <3>2, <4>1, <4>2
      <3>3. CASE ~done /\ link
        <4>1. /\ slips' = [slips EXCEPT ![h] = slips[h] + 1]
              /\ UNCHANGED <<seen, first>>
          BY <2>1, <3>3 DEF Put, Refusal
        <4>2. \A x \in Shops \X Numbers :
                 Bound(x)' = IF x = h THEN Bound(x) + Cap ELSE Bound(x)
          BY <2>2, <4>1, SlipBound
        <4>3. \A x \in Shops \X Numbers : Bound(x) \in Int
          BY BoundType
        <4>4. \A x \in Shops \X Numbers : Bound(x)' \in Int /\ Bound(x) <= Bound(x)'
          BY <2>5, <4>2, <4>3
        <4>5. h \in Shops \X Numbers /\ Bound(h)' = Bound(h) + Cap /\ Bound(h) \in Int
          BY <2>2, <4>2, <4>3
        <4>6. Bound(h) + Interval <= Bound(h)'
          BY <2>5, <4>5
        <4> QED BY <4>4, <4>6
      <3> QED BY <3>1, <3>2, <3>3
    <2>7. StayNotTwice'
      <3> SUFFICES ASSUME NEW s \in Shops, NEW n \in Numbers
                   PROVE  user_stay[<<s, User[n]>>] <= Bound(<<s, n>>)'
        BY <2>2 DEF StayNotTwice
      <3>1. <<s, n>> \in Shops \X Numbers
        OBVIOUS
      <3>2. Bound(<<s, n>>)' \in Int /\ Bound(<<s, n>>) <= Bound(<<s, n>>)'
        BY <2>6, <3>1
      <3>3. user_stay[<<s, User[n]>>] \in Nat /\ Bound(<<s, n>>) \in Int
            /\ user_stay[<<s, User[n]>>] <= Bound(<<s, n>>)
        BY <1>0
      <3> QED BY <3>2, <3>3
    <2>8. RoomForStay'
      <3> SUFFICES ASSUME link, job.user = User[job.mac]
                   PROVE  user_stay[Him] + Interval <= Bound(h)'
        <4>1. Bound(h)' = Bound(Here)'
          BY <2>4 DEF Bound
        <4> QED BY <2>2, <2>3, <2>4, <4>1 DEF RoomForStay
      <3>1. /\ user_stay[Him] \in Nat /\ Bound(h) \in Int /\ user_stay[Him] <= Bound(h)
            /\ Bound(h)' \in Int /\ Bound(h) <= Bound(h)'
        BY <1>0, <2>2, <2>6
      <3>2. job.pre = seen[h] \/ user_stay[Him] + Cap <= Bound(h)
        BY <2>2 DEF RoomForStay
      <3>3. CASE job.pre = seen[h]
        BY <2>5, <2>6, <3>1, <3>3
      <3>4. CASE user_stay[Him] + Cap <= Bound(h)
        BY <2>5, <3>1, <3>4
      <3> QED BY <3>2, <3>3, <3>4
    <2> QED BY <2>7, <2>8
  <1>5. CASE SetListed
    <2>1. /\ job'.pc = "user" /\ job'.shop = job.shop /\ job'.mac = job.mac
          /\ job'.user = job.user /\ job'.now = job.now /\ job'.pre = job.pre
      BY <1>5, GotoType DEF SetListed, PCs
    <2>2. UNCHANGED <<seen, first, slips, user_stay, link>> /\ At("list")
      BY <1>5 DEF SetListed, stays, env
    <2> QED BY <2>1, <2>2, RoomKept
  <1>6. CASE AddUserStay
    <2>1. PICK done \in BOOLEAN :
             Sent(done) /\ user_stay' = Put(user_stay, Him, user_stay[Him] + Interval, done)
      BY <1>6 DEF AddUserStay
    <2>2. /\ job.shop \in Shops /\ job.mac \in Numbers /\ job.user \in {0, User[job.mac]}
          /\ Him = <<job.shop, job.user>> /\ Here = <<job.shop, job.mac>>
          /\ Him \in Shops \X Users
          /\ job.pc = "user" /\ UNCHANGED <<seen, first, slips>>
      BY <1>6, KeysType DEF AddUserStay, places
    <2>3. job'.pc = "shop"
      BY <1>6, GotoType DEF AddUserStay, PCs
    <2>4. RoomForStay'
      BY <2>3 DEF RoomForStay
    <2>5. StayNotTwice'
      <3> SUFFICES ASSUME NEW s \in Shops, NEW n \in Numbers
                   PROVE  user_stay'[<<s, User[n]>>] <= Bound(<<s, n>>)
        BY <2>2 DEF StayNotTwice, Bound
      <3>1. user_stay[<<s, User[n]>>] <= Bound(<<s, n>>) /\ User[n] \in Ids
        BY <1>0, UserType
      <3>2. CASE done /\ s = job.shop /\ User[n] = job.user
        <4>1. n = job.mac /\ job.user = User[job.mac] /\ link
          BY <2>1, <2>2, <3>1, <3>2, UserInjective, IdsPositive DEF Sent
        <4>2. user_stay' = [user_stay EXCEPT ![Him] = user_stay[Him] + Interval]
          BY <2>1, <3>2 DEF Put
        <4>3. user_stay'[Him] = user_stay[Him] + Interval
          BY <2>2, <4>2 DEF TypeOK
        <4>4. user_stay[Him] + Interval <= Bound(Here)
          BY <2>2, <4>1 DEF RoomForStay
        <4> QED BY <2>2, <3>2, <4>1, <4>3, <4>4
      <3>3. CASE ~(done /\ s = job.shop /\ User[n] = job.user)
        <4>1. user_stay'[<<s, User[n]>>] = user_stay[<<s, User[n]>>]
          BY <2>1, <2>2, <3>1, <3>3 DEF Put, TypeOK
        <4> QED BY <3>1, <4>1
      <3> QED BY <3>2, <3>3
    <2> QED BY <2>4, <2>5
  <1>7. CASE AddShopStay \/ AddMallStay \/ Arrive
    <2>1. PICK loc \in {"mall", "arrive", "set_shop"} : Goto(loc)
      BY <1>7 DEF AddShopStay, AddMallStay, Arrive
    <2>2. job'.pc = loc
      BY <2>1, GotoType DEF PCs
    <2>3. UNCHANGED <<seen, first, slips, user_stay, link>>
      BY <1>7 DEF AddShopStay, AddMallStay, Arrive, places, stays, env
    <2> QED BY <2>2, <2>3, RoomKept
  <1>8. CASE SetShop
    BY <1>8, SetShopJob, RoomKept DEF SetShop, places, stays, env
  <1>9. CASE Tick \/ DropLink \/ UNCHANGED vars
    <2>1. UNCHANGED <<seen, first, slips, user_stay, job>> /\ (link' => link)
      BY <1>9 DEF Tick, DropLink, vars, places, stays, env
    <2> QED BY <2>1, RoomKept
  <1>10. CASE Restart
    <2>1. job'.pc = "idle" /\ UNCHANGED <<seen, first, slips, user_stay>>
      BY <1>10, NoJobType DEF Restart, places, stays
    <2>2. StayNotTwice'
      BY <2>1 DEF StayNotTwice, Bound
    <2> QED BY <2>1, <2>2 DEF RoomForStay
  <1> QED
    BY <1>1, <1>2, <1>3, <1>4, <1>5, <1>6, <1>7, <1>8, <1>9, <1>10 DEF Next

\* IInv holds in every reachable state.
THEOREM Invariance == Spec => []IInv
<1>1. IInv /\ [Next]_vars => IInv'
  BY NextTypes, NextTimes, NextStays DEF IInv
<1> QED
  BY InitIInv, <1>1, PTL DEF Spec

\* Type correctness: in particular no stay ever becomes negative, the clock
\* not stepping back.
THEOREM TypeCorrect == Spec => []TypeOK
  BY Invariance, PTL DEF IInv

\* No stay is counted twice (ap_signal_receiver.cpp:78-80), however many
\* shops and phones there are and wherever the receiver dies, and a time that
\* is refused makes it no more than a Cap longer.
THEOREM StaysAreBounded == Spec => []StayNotTwice
  BY Invariance, PTL DEF IInv

---------------------------------------------------------------------------
(* The visit.  A phone in work, its signal noted, is between two states of *)
(* the shop; a phone that is not is known, or its visit is cut.  Its own   *)
(* number is never made of another phone's mac, so that what is filed      *)
(* under it is the phone's.                                                *)

Known(s, m) ==
    /\ since[<<s, m>>] \in {arrived[<<s, User[m]>>], vip_arrived[<<s, User[m]>>]}
    /\ since[<<s, m>>] >= arrived[<<s, User[m]>>] /\ since[<<s, m>>] >= vip_arrived[<<s, User[m]>>]

Working == Begun /\ link
InWork(s, m) == Working /\ job.phone = m /\ job.shop = s
\* There has been a signal, and the visit it belongs to is not cut.
Told(s, m) == last[<<s, m>>] # 0 /\ ~cut[<<s, m>>]

\* No signal is later than that in work, and the time that was read is no
\* later than the one that is stored.
LastSound ==
    /\ \A x \in Shops \X Macs : last[x] <= IF At("idle") THEN clock ELSE job.now
    /\ At("set") => job.pre <= seen[Here]

\* No time and no arrival of a phone's own number is later than its last
\* signal, and the time of a visit that is not cut is that of the signal.
WrittenBefore ==
    \A s \in Shops, m \in Macs : /\ seen[<<s, m>>] <= last[<<s, m>>]
                                 /\ arrived[<<s, User[m]>>] <= last[<<s, m>>]
                                 /\ vip_arrived[<<s, User[m]>>] <= last[<<s, m>>]
SeenLast == \A s \in Shops, m \in Macs : Told(s, m) => seen[<<s, m>>] = last[<<s, m>>]
KnownHere == \A s \in Shops, m \in Macs : Told(s, m) /\ ~InWork(s, m) => Known(s, m)
Placed ==
    \A s \in Shops, m \in Macs :
        Told(s, m) /\ ~(Working /\ job.phone = m) /\ latest[m] = s => shop_of[User[m]] = s
\* What is true of the phone in work.
KnownAtWork == Known(job.shop, job.phone)
AtWork ==
    Working =>
        /\ latest[job.phone] = job.shop /\ last[There] = job.now
        /\ ~cut[There] =>
              /\ job.mac = job.phone /\ job.user = User[job.phone]
              /\ IF Out /\ job.pc # "set_shop" THEN since[There] = job.now
                                               ELSE KnownAtWork

VisitSound == WrittenBefore /\ SeenLast /\ KnownHere /\ Placed /\ AtWork

\* Who is filed under a phone's own number, or under its user, is the phone.
LEMMA WhoseNumber ==
    ASSUME TypeOK, SignalSound, job.pc \notin {"idle", "next"}, NEW m \in Macs
    PROVE  /\ job.mac = m => job.phone = m
           /\ job.user = User[m] => job.mac = m
           /\ User[m] \in Users /\ User[m] # 0
  <1>1. job.phone \in Macs /\ job.mac \in {job.phone} \cup Ghosts[job.phone] /\ job.mac \in Numbers
    BY KeysType DEF SignalSound
  <1>2. job.mac = m => job.phone = m
    BY <1>1, GhostsApart
  <1>3. m \in Numbers
    BY DEF Numbers
  <1>4. User[m] \in Ids /\ User[m] # 0
    BY <1>3, UserType, IdsPositive
  <1>5. job.user \in {0, User[job.mac]}
    BY KeysType
  <1>6. job.user = User[m] => job.mac = m
    BY <1>1, <1>3, <1>4, <1>5, UserInjective
  <1> QED BY <1>2, <1>4, <1>6

\* What is known of the last signals is preserved.
LEMMA NextLast ==
    ASSUME IInv, LastSound, [Next]_vars
    PROVE  LastSound'
  <1> USE DEF IInv, places, visits, env
  <1>0. /\ clock \in Nat /\ job.now \in Nat /\ (job.pc # "idle" => job.now <= clock)
        /\ \A x \in Shops \X Macs : last[x] \in Nat
    BY DEF TypeOK, Job, SignalSound
  <1>1. ASSUME NEW s \in Shops, NEW M \in SUBSET Macs, ParseApmacCloser(s, M) PROVE LastSound'
    <2>1. job'.pc = "next" /\ job'.now = clock
      BY <1>1, ParseJob
    <2>2. last' = last /\ job.pc = "idle"
      BY <1>1 DEF ParseApmacCloser
    <2>3. \A x \in Shops \X Macs : last[x] <= clock
      BY <2>2 DEF LastSound
    <2> QED BY <2>1, <2>2, <2>3 DEF LastSound
  <1>2. CASE NextMac
    BY <1>2, NextMacJob DEF NextMac, LastSound
  <1>3. CASE EndSignal \/ Restart
    <2>1. job'.pc = "idle" /\ UNCHANGED <<last, clock>>
      BY <1>3, NoJobType DEF EndSignal, Restart
    <2> QED BY <1>0, <2>1 DEF LastSound
  <1>4. CASE ReadSeen
    <2>1. /\ job'.pc = "set" /\ job'.shop = job.shop /\ job'.now = job.now
          /\ job'.mac = job.mac /\ job'.pre \in {0, seen[Here]}
      BY <1>4, ReadSeenJob
    <2>2. UNCHANGED <<last, seen>> /\ job.pc = "read" /\ Here' = Here
      BY <1>4, <2>1 DEF ReadSeen, Here
    <2>3. seen[Here] \in Nat
      BY <2>2, KeysType DEF TypeOK
    <2> QED BY <2>1, <2>2, <2>3 DEF LastSound
  <1>5. CASE SetSeen
    <2>1. job'.pc = "list" /\ job'.now = job.now
      BY <1>5, GotoType DEF SetSeen, PCs
    <2>2. last' = last \/ last' = [last EXCEPT ![There] = job.now]
      BY <1>5 DEF SetSeen, NoteVisit, Put
    <2>3. \A x \in Shops \X Macs : last'[x] \in {last[x], job.now}
      BY <2>2 DEF TypeOK
    <2>4. \A x \in Shops \X Macs : last[x] <= job.now
      BY <1>5 DEF SetSeen, LastSound
    <2> QED BY <1>0, <2>1, <2>3, <2>4 DEF LastSound
  <1>6. CASE SetListed \/ AddUserStay \/ AddShopStay \/ AddMallStay \/ Arrive
    <2>1. PICK loc \in {"user", "shop", "mall", "arrive", "set_shop"} : Goto(loc)
      BY <1>6 DEF SetListed, AddUserStay, AddShopStay, AddMallStay, Arrive
    <2>2. job'.pc = loc /\ job'.now = job.now
      BY <2>1, GotoType DEF PCs
    <2>3. last' = last /\ job.pc # "idle"
      BY <1>6 DEF SetListed, AddUserStay, AddShopStay, AddMallStay, Arrive
    <2> QED BY <2>2, <2>3 DEF LastSound
  <1>7. CASE SetShop
    BY <1>7, SetShopJob DEF SetShop, LastSound
  <1>8. CASE Tick
    <2>1. clock' = clock + 1 /\ UNCHANGED <<job, seen, last>>
      BY <1>8 DEF Tick
    <2>2. \A x \in Shops \X Macs : last[x] <= IF At("idle") THEN clock' ELSE job.now
      BY <1>0, <2>1 DEF LastSound
    <2>3. At("set") => job.pre <= seen[Here]
      BY DEF LastSound
    <2> QED BY <2>1, <2>2, <2>3 DEF LastSound, Here
  <1>9. CASE DropLink \/ UNCHANGED vars
    <2>1. UNCHANGED <<clock, job, seen, last>>
      BY <1>9 DEF DropLink, vars
    <2> QED BY <2>1 DEF LastSound, Here
  <1> QED BY <1>1, <1>2, <1>3, <1>4, <1>5, <1>6, <1>7, <1>8, <1>9 DEF Next

\* A step that writes nothing of a visit, and leaves the phone in work in work.
LEMMA VisitKept ==
    ASSUME IInv, VisitSound, UNCHANGED <<seen, visits, arrivals, shop_of, link>>,
           Begun' <=> Begun,
           Begun => /\ job'.shop = job.shop /\ job'.mac = job.mac /\ job'.user = job.user
                    /\ job'.now = job.now /\ job'.pre = job.pre /\ job'.phone = job.phone
                    /\ (job'.pc = "set_shop" <=> job.pc = "set_shop")
    PROVE  VisitSound'
  <1> USE DEF visits
  <1>1. /\ Working' <=> Working
        /\ \A s \in Shops, m \in Macs : InWork(s, m)' <=> InWork(s, m)
    BY DEF Working, InWork
  <1>2. \A s \in Shops, m \in Macs : (Known(s, m)' <=> Known(s, m)) /\ (Told(s, m)' <=> Told(s, m))
    BY DEF Known, Told, arrivals
  <1>3. WrittenBefore' /\ SeenLast'
    BY <1>2 DEF VisitSound, WrittenBefore, SeenLast, arrivals
  <1>4. KnownHere'
    BY <1>1, <1>2 DEF VisitSound, KnownHere
  <1>5. Placed'
    BY <1>1, <1>2 DEF VisitSound, Placed, Working
  <1>6. AtWork'
    <2> SUFFICES ASSUME Working' PROVE AtWork'
      BY DEF AtWork
    <2>1. Working /\ Begun
      BY <1>1 DEF Working
    <2>2. There' = There /\ job'.shop = job.shop /\ job'.mac = job.mac /\ job'.user = job.user
          /\ job'.now = job.now /\ job'.phone = job.phone
          /\ (Out' <=> Out) /\ (job'.pc = "set_shop" <=> job.pc = "set_shop")
      BY <2>1 DEF There, Out
    <2>3. KnownAtWork' <=> KnownAtWork
      BY <2>2 DEF KnownAtWork, Known, arrivals
    <2>4. UNCHANGED <<latest, last, cut, since>>
      OBVIOUS
    <2> QED BY <2>1, <2>2, <2>3, <2>4 DEF VisitSound, AtWork
  <1> QED BY <1>3, <1>4, <1>5, <1>6 DEF VisitSound

\* A phone in work that is given up is cut.
LEMMA CutOff ==
    ASSUME IInv, VisitSound, DropLink \/ Restart
    PROVE  VisitSound'
  <1>1. UNCHANGED <<seen, last, since, latest, arrivals, shop_of>> /\ ~Working'
    BY DEF DropLink, Restart, places, Working, Begun, NoJob
  <1>2. cut' = IF Working THEN [cut EXCEPT ![There] = TRUE] ELSE cut
    BY DEF DropLink, Restart, CutHere, Put, Working
  <1>3. cut \in [Shops \X Macs -> BOOLEAN]
    BY DEF IInv, TypeOK
  <1>4. \A s \in Shops, m \in Macs : Told(s, m)' => Told(s, m) /\ ~InWork(s, m)
    BY <1>1, <1>2, <1>3 DEF There, Told, InWork
  <1>5. WrittenBefore' /\ SeenLast'
    <2>1. WrittenBefore'
      BY <1>1 DEF VisitSound, WrittenBefore, arrivals
    <2>2. SeenLast'
      BY <1>1, <1>4 DEF VisitSound, SeenLast
    <2> QED BY <2>1, <2>2
  <1>6. KnownHere'
    <2>1. \A s \in Shops, m \in Macs : Known(s, m)' <=> Known(s, m)
      BY <1>1 DEF Known, arrivals
    <2> QED BY <1>4, <2>1 DEF VisitSound, KnownHere
  <1>7. Placed'
    <2> SUFFICES ASSUME NEW s \in Shops, NEW m \in Macs, Told(s, m)', latest[m] = s
                 PROVE  shop_of[User[m]] = s
      BY <1>1 DEF Placed
    <2>1. ~(Working /\ job.phone = m)
      BY <1>4 DEF VisitSound, AtWork, InWork
    <2> QED BY <1>4, <2>1 DEF VisitSound, Placed
  <1>8. AtWork'
    BY <1>1 DEF AtWork
  <1> QED BY <1>5, <1>6, <1>7, <1>8 DEF VisitSound

\* Without a connection the phone in work stays where it was.
LEMMA UnlinkedVisit ==
    ASSUME IInv, VisitSound, SetSeen \/ Arrive \/ SetShop, ~link
    PROVE  VisitSound'
  <1>1. UNCHANGED <<seen, visits, arrivals, shop_of, link>>
    <2>1. CASE SetSeen
      BY <2>1 DEF SetSeen, Sent, NoteVisit, Put, env, visits
    <2>2. CASE Arrive
      BY <2>2 DEF Arrive, Sent, Refusal, CutHere, Put, places, env, visits, arrivals
    <2>3. CASE SetShop
      BY <2>3 DEF SetShop, Sent, Refusal, CutHere, Put, places, env, visits
    <2> QED BY <2>1, <2>2, <2>3
  <1>2. ~Working /\ ~Working'
    BY <1>1 DEF Working
  <1>3. \A s \in Shops, m \in Macs : (Known(s, m)' <=> Known(s, m)) /\ (Told(s, m)' <=> Told(s, m))
    BY <1>1 DEF Known, Told, arrivals, visits
  <1>4. WrittenBefore' /\ SeenLast'
    BY <1>1, <1>3 DEF VisitSound, WrittenBefore, SeenLast, arrivals, visits
  <1>5. KnownHere' /\ Placed' /\ AtWork'
    BY <1>1, <1>2, <1>3 DEF VisitSound, KnownHere, Placed, AtWork, InWork, visits
  <1> QED BY <1>4, <1>5 DEF VisitSound

\* The signal is noted: a visit that begins is not known yet, a visit that
\* goes on is known as it was.
LEMMA SeenVisit ==
    ASSUME IInv, LastSound, VisitSound, SetSeen, link
    PROVE  VisitSound'
  <1> USE DEF IInv
  <1> PICK s0 : s0 = job.shop
    OBVIOUS
  <1> PICK m0 : m0 = job.phone
    OBVIOUS
  <1> PICK x0 : x0 = <<s0, m0>>
    OBVIOUS
  <1> PICK new : new = (job.now - last[x0] > Gap)
    OBVIOUS
  <1>0. PICK done \in BOOLEAN :
           /\ seen' = Put(seen, Here, job.now, done)
           /\ NoteVisit(done)
    BY DEF SetSeen
  <1>1. /\ s0 \in Shops /\ m0 \in Macs /\ x0 \in Shops \X Macs /\ There = x0
        /\ Here = <<s0, job.mac>> /\ Here \in Shops \X Numbers
        /\ job.pc = "set" /\ job.now \in Nat /\ job.now > Gap /\ Gap \in Nat
        /\ job.pre \in Nat /\ last[x0] \in Nat /\ last[x0] <= job.now
        /\ job.user \in {0, User[job.mac]}
    BY KeysType, EpochLate, TimesType DEF SetSeen, SignalSound, LastSound, TypeOK
  <1>2. /\ last' = [last EXCEPT ![x0] = job.now]
        /\ since' = (IF new THEN [since EXCEPT ![x0] = job.now] ELSE since)
        /\ latest' = [latest EXCEPT ![m0] = s0]
        /\ UNCHANGED <<arrivals, shop_of, link>>
    BY <1>0, <1>1 DEF SetSeen, NoteVisit, Put, env
  <1>3. cut' = [cut EXCEPT ![x0] = \/ job.mac # m0 \/ job.user = 0 \/ ~done
                                   \/ ~new /\ (cut[x0] \/ job.pre # seen[Here])]
    BY <1>0, <1>1 DEF NoteVisit, Put
  <1>4. /\ job'.pc = "list" /\ job'.shop = s0 /\ job'.mac = job.mac /\ job'.user = job.user
        /\ job'.phone = m0 /\ job'.now = job.now /\ job'.pre = job.pre /\ There' = x0
    BY GotoType DEF SetSeen, There, PCs
  <1>5. /\ last'[x0] = job.now /\ latest'[m0] = s0 /\ (new => since'[x0] = job.now)
        /\ (~new => since' = since)
        /\ \A x \in Shops \X Macs : x # x0 =>
              last'[x] = last[x] /\ since'[x] = since[x] /\ cut'[x] = cut[x]
        /\ \A m \in Macs : m # m0 => latest'[m] = latest[m]
    BY <1>1, <1>2, <1>3 DEF TypeOK
  <1>6. ~cut'[x0] => /\ job.mac = m0 /\ job.user # 0 /\ done
                     /\ new \/ (~cut[x0] /\ job.pre = seen[Here])
    BY <1>1, <1>3 DEF TypeOK
  <1>7. Working' /\ ~Working /\ link'
    BY <1>1, <1>2, <1>4 DEF Working, Begun
  <1>8. \A s \in Shops, m \in Macs :
           /\ seen'[<<s, m>>] \in {seen[<<s, m>>], job.now}
           /\ <<s, m>> # x0 => seen'[<<s, m>>] = seen[<<s, m>>]
    <2> SUFFICES ASSUME NEW s \in Shops, NEW m \in Macs
                 PROVE  /\ seen'[<<s, m>>] \in {seen[<<s, m>>], job.now}
                        /\ <<s, m>> # x0 => seen'[<<s, m>>] = seen[<<s, m>>]
      OBVIOUS
    <2>1. job.mac = m => m0 = m
      BY <1>1, WhoseNumber
    <2>2. <<s, m>> # x0 => <<s, m>> # Here
      BY <1>1, <2>1
    <2>3. <<s, m>> \in Shops \X Numbers
      BY DEF Numbers
    <2> QED BY <1>0, <2>2, <2>3 DEF Put, TypeOK
  <1>9. ~cut'[x0] => seen'[x0] = job.now /\ job.user = User[m0]
    <2> SUFFICES ASSUME ~cut'[x0] PROVE seen'[x0] = job.now /\ job.user = User[m0]
      OBVIOUS
    <2>1. x0 = Here /\ seen' = [seen EXCEPT ![Here] = job.now]
      BY <1>0, <1>1, <1>6 DEF Put
    <2> QED BY <1>1, <1>6, <2>1 DEF TypeOK
  <1>10. ~cut'[x0] => (Out' <=> new)
    <2> SUFFICES ASSUME ~cut'[x0] PROVE Out' <=> new
      OBVIOUS
    <2>1. x0 = Here
      BY <1>1, <1>6
    <2>2. seen[x0] <= last[x0] /\ seen[x0] \in Nat
      BY <1>1, <2>1 DEF VisitSound, WrittenBefore, TypeOK
    <2>3. job.pre <= seen[x0]
      BY <1>1, <2>1 DEF LastSound
    <2>4. CASE new
      <3>1. job.now - last[x0] > Gap
        BY <2>4
      <3>2. job.now - job.pre > Gap
        BY <1>1, <2>2, <2>3, <3>1
      <3> QED BY <1>4, <2>4, <3>2 DEF Out
    <2>5. CASE ~new
      <3>1. last[x0] # 0 /\ ~cut[x0] /\ job.pre = seen[x0]
        BY <1>1, <1>6, <2>1, <2>5
      <3>2. seen[x0] = last[x0]
        BY <1>1, <3>1 DEF VisitSound, SeenLast, Told
      <3>3. ~(job.now - job.pre > Gap)
        BY <2>5, <3>1, <3>2
      <3> QED BY <1>4, <2>5, <3>3 DEF Out
    <2> QED BY <2>4, <2>5
  <1>11. WrittenBefore'
    <2> SUFFICES ASSUME NEW s \in Shops, NEW m \in Macs
                 PROVE  /\ seen'[<<s, m>>] <= last'[<<s, m>>]
                        /\ arrived[<<s, User[m]>>] <= last'[<<s, m>>]
                        /\ vip_arrived[<<s, User[m]>>] <= last'[<<s, m>>]
      BY <1>2 DEF WrittenBefore, arrivals
    <2>1. /\ seen[<<s, m>>] <= last[<<s, m>>] /\ arrived[<<s, User[m]>>] <= last[<<s, m>>]
          /\ vip_arrived[<<s, User[m]>>] <= last[<<s, m>>]
      BY DEF VisitSound, WrittenBefore
    <2>2. /\ User[m] \in Users /\ <<s, m>> \in Shops \X Numbers
      BY <1>1, WhoseNumber DEF Numbers
    <2>3. /\ arrived[<<s, User[m]>>] \in Nat /\ vip_arrived[<<s, User[m]>>] \in Nat
          /\ seen[<<s, m>>] \in Nat
      BY <2>2 DEF TypeOK
    <2>4. CASE <<s, m>> = x0
      <3>1. last'[<<s, m>>] = job.now /\ last[<<s, m>>] <= job.now /\ last[<<s, m>>] \in Nat
        BY <1>1, <1>5, <2>4
      <3>2. seen'[<<s, m>>] \in {seen[<<s, m>>], job.now}
        BY <1>8
      <3> QED BY <1>1, <2>1, <2>3, <3>1, <3>2
    <2>5. CASE <<s, m>> # x0
      BY <1>5, <1>8, <2>1, <2>5
    <2> QED BY <2>4, <2>5
  <1>12. \A s \in Shops, m \in Macs : <<s, m>> # x0 => (Told(s, m)' <=> Told(s, m))
    BY <1>5 DEF Told
  <1>13. SeenLast'
    <2> SUFFICES ASSUME NEW s \in Shops, NEW m \in Macs, Told(s, m)'
                 PROVE  seen'[<<s, m>>] = last'[<<s, m>>]
      BY DEF SeenLast
    <2>1. CASE <<s, m>> = x0
      BY <1>5, <1>9, <2>1 DEF Told
    <2>2. CASE <<s, m>> # x0
      BY <1>5, <1>8, <1>12, <2>2 DEF VisitSound, SeenLast
    <2> QED BY <2>1, <2>2
  <1>14. \A s \in Shops, m \in Macs : <<s, m>> # x0 \/ ~new => (Known(s, m)' <=> Known(s, m))
    BY <1>2, <1>5 DEF Known, arrivals
  <1>15. KnownHere'
    <2> SUFFICES ASSUME NEW s \in Shops, NEW m \in Macs, Told(s, m)', <<s, m>> # x0
                 PROVE  Known(s, m)'
      BY <1>4, <1>7 DEF KnownHere, InWork
    <2> QED BY <1>7, <1>12, <1>14 DEF VisitSound, KnownHere, InWork
  <1>16. Placed'
    <2> SUFFICES ASSUME NEW s \in Shops, NEW m \in Macs, Told(s, m)', m # m0, latest'[m] = s
                 PROVE  shop_of[User[m]] = s
      BY <1>2, <1>4, <1>7 DEF Placed
    <2>1. Told(s, m) /\ latest[m] = s
      BY <1>5, <1>12
    <2> QED BY <1>7, <2>1 DEF VisitSound, Placed
  <1>17. AtWork'
    <2>1. ~cut'[x0] /\ ~new => Known(s0, m0)'
      <3> SUFFICES ASSUME ~cut'[x0], ~new PROVE Known(s0, m0)'
        OBVIOUS
      <3>1. last[x0] # 0 /\ ~cut[x0]
        BY <1>1, <1>6
      <3> QED BY <1>1, <1>7, <1>14, <3>1 DEF VisitSound, KnownHere, InWork, Told
    <2>2. Known(s0, m0)' => KnownAtWork'
      BY <1>4 DEF KnownAtWork, Known
    <2> QED BY <1>4, <1>5, <1>6, <1>9, <1>10, <2>1, <2>2 DEF AtWork
  <1> QED BY <1>11, <1>13, <1>15, <1>16, <1>17 DEF VisitSound

\* The arrival is written if and only if the visit has just begun, and when it
\* is refused the visit is cut.
LEMMA ArriveVisit ==
    ASSUME IInv, VisitSound, Arrive, link
    PROVE  VisitSound'
  <1> USE DEF IInv
  <1> PICK s0 : s0 = job.shop
    OBVIOUS
  <1> PICK m0 : m0 = job.phone
    OBVIOUS
  <1> PICK x0 : x0 = <<s0, m0>>
    OBVIOUS
  <1>1. /\ s0 \in Shops /\ m0 \in Macs /\ x0 \in Shops \X Macs /\ There = x0
        /\ Him = <<s0, job.user>> /\ Him \in Shops \X Users
        /\ User[m0] \in Users /\ job.now \in Nat
    BY KeysType, WhoseNumber DEF Arrive
  <1>2. /\ job'.pc = "set_shop" /\ job'.shop = s0 /\ job'.mac = job.mac /\ job'.user = job.user
        /\ job'.phone = m0 /\ job'.now = job.now /\ job'.pre = job.pre /\ There' = x0
    BY GotoType DEF Arrive, There, PCs
  <1>3. UNCHANGED <<seen, last, since, latest, shop_of, link>>
    BY DEF Arrive, places, env
  <1>4. Working /\ Working' /\ \A s \in Shops, m \in Macs : InWork(s, m)' <=> InWork(s, m)
    BY <1>2, <1>3 DEF Working, Begun, Arrive, InWork
  <1>5. /\ latest[m0] = s0 /\ last[x0] = job.now
        /\ ~cut[x0] => /\ job.mac = m0 /\ job.user = User[m0]
                       /\ IF Out THEN since[x0] = job.now ELSE Known(s0, m0)
    BY <1>1, <1>4 DEF VisitSound, AtWork, KnownAtWork, Arrive
  <1>6. /\ ~Out => UNCHANGED arrivals
        /\ \/ UNCHANGED arrivals /\ (Out => cut' = [cut EXCEPT ![x0] = TRUE])
           \/ arrived' = [arrived EXCEPT ![Him] = job.now] /\ vip_arrived' = vip_arrived
           \/ vip_arrived' = [vip_arrived EXCEPT ![Him] = job.now] /\ arrived' = arrived
    <2>1. CASE Out
      <3>1. PICK done \in BOOLEAN :
               /\ vip_arrived' = Put(vip_arrived, Him, job.now, done /\ job.vip)
               /\ arrived' = Put(arrived, Him, job.now, done /\ ~job.vip)
               /\ CutHere(Refusal(done))
        BY <2>1 DEF Arrive
      <3>2. CASE done
        BY <2>1, <3>1, <3>2 DEF Put
      <3>3. CASE ~done
        BY <1>1, <2>1, <3>1, <3>3 DEF Put, CutHere, Refusal, arrivals
      <3> QED BY <3>2, <3>3
    <2>2. CASE ~Out
      BY <2>2 DEF Arrive
    <2> QED BY <2>1, <2>2
  <1>7. cut' = cut \/ cut' = [cut EXCEPT ![x0] = TRUE]
    BY <1>1 DEF Arrive, CutHere, Put
  <1>8. \A s \in Shops, m \in Macs : /\ Told(s, m)' => Told(s, m)
                                     /\ <<s, m>> # x0 => (Told(s, m)' <=> Told(s, m))
    BY <1>1, <1>3, <1>7 DEF Told, TypeOK
  <1>9. \A s \in Shops, m \in Macs : <<s, m>> # x0 =>
            /\ arrived'[<<s, User[m]>>] = arrived[<<s, User[m]>>]
            /\ vip_arrived'[<<s, User[m]>>] = vip_arrived[<<s, User[m]>>]
    <2> SUFFICES ASSUME NEW s \in Shops, NEW m \in Macs, <<s, m>> # x0
                 PROVE  /\ arrived'[<<s, User[m]>>] = arrived[<<s, User[m]>>]
                        /\ vip_arrived'[<<s, User[m]>>] = vip_arrived[<<s, User[m]>>]
      OBVIOUS
    <2>1. User[m] \in Users /\ (job.user = User[m] => m0 = m)
      BY WhoseNumber DEF Arrive
    <2>2. <<s, User[m]>> # Him /\ <<s, User[m]>> \in Shops \X Users
      BY <1>1, <2>1
    <2> QED BY <1>6, <2>2 DEF TypeOK, arrivals
  <1>10. /\ arrived[<<s0, User[m0]>>] <= job.now /\ vip_arrived[<<s0, User[m0]>>] <= job.now
         /\ arrived[<<s0, User[m0]>>] \in Nat /\ vip_arrived[<<s0, User[m0]>>] \in Nat
    BY <1>1, <1>5 DEF VisitSound, WrittenBefore, TypeOK
  <1>11. /\ arrived'[<<s0, User[m0]>>] \in {arrived[<<s0, User[m0]>>], job.now}
         /\ vip_arrived'[<<s0, User[m0]>>] \in {vip_arrived[<<s0, User[m0]>>], job.now}
    BY <1>1, <1>6 DEF TypeOK, arrivals
  <1>12. ~cut'[x0] /\ Out =>
            job.now \in {arrived'[<<s0, User[m0]>>], vip_arrived'[<<s0, User[m0]>>]}
    <2> SUFFICES ASSUME ~cut'[x0], Out
                 PROVE  job.now \in {arrived'[<<s0, User[m0]>>], vip_arrived'[<<s0, User[m0]>>]}
      OBVIOUS
    <2>1. job.user = User[m0]
      BY <1>1, <1>5, <1>7 DEF TypeOK
    <2>2. cut' # [cut EXCEPT ![x0] = TRUE]
      BY <1>1 DEF TypeOK
    <2> QED BY <1>1, <1>6, <2>1, <2>2 DEF TypeOK
  <1>13. WrittenBefore'
    <2> SUFFICES ASSUME NEW s \in Shops, NEW m \in Macs
                 PROVE  /\ seen[<<s, m>>] <= last[<<s, m>>]
                        /\ arrived'[<<s, User[m]>>] <= last[<<s, m>>]
                        /\ vip_arrived'[<<s, User[m]>>] <= last[<<s, m>>]
      BY <1>3 DEF WrittenBefore
    <2>1. CASE <<s, m>> = x0
      <3>1. seen[<<s, m>>] <= last[<<s, m>>]
        BY DEF VisitSound, WrittenBefore
      <3> QED BY <1>1, <1>5, <1>10, <1>11, <2>1, <3>1
    <2>2. CASE <<s, m>> # x0
      BY <1>9, <2>2 DEF VisitSound, WrittenBefore
    <2> QED BY <2>1, <2>2
  <1>14. SeenLast'
    BY <1>3, <1>8 DEF VisitSound, SeenLast
  <1>15. \A s \in Shops, m \in Macs : <<s, m>> # x0 => (Known(s, m)' <=> Known(s, m))
    BY <1>3, <1>9 DEF Known
  <1>16. KnownHere'
    <2> SUFFICES ASSUME NEW s \in Shops, NEW m \in Macs, Told(s, m)', ~InWork(s, m)'
                 PROVE  Known(s, m)'
      BY DEF KnownHere
    <2>1. <<s, m>> # x0 /\ Told(s, m) /\ ~InWork(s, m)
      BY <1>4, <1>8 DEF InWork
    <2> QED BY <1>15, <2>1 DEF VisitSound, KnownHere
  <1>17. Placed'
    BY <1>2, <1>3, <1>4, <1>8 DEF VisitSound, Placed
  <1>18. ~cut'[x0] => Known(s0, m0)'
    <2> SUFFICES ASSUME ~cut'[x0] PROVE Known(s0, m0)'
      OBVIOUS
    <2>0. ~cut[x0]
      BY <1>1, <1>7 DEF TypeOK
    <2>1. CASE Out
      <3>1. since'[x0] = job.now
        BY <1>3, <1>5, <2>0, <2>1
      <3> QED BY <1>1, <1>10, <1>11, <1>12, <2>1, <3>1 DEF Known
    <2>2. CASE ~Out
      BY <1>3, <1>5, <1>6, <2>0, <2>2 DEF Known, arrivals
    <2> QED BY <2>1, <2>2
  <1>19. AtWork'
    <2>1. Known(s0, m0)' => KnownAtWork'
      BY <1>2 DEF KnownAtWork, Known
    <2>2. ~cut'[x0] => ~cut[x0]
      BY <1>1, <1>7 DEF TypeOK
    <2> QED BY <1>2, <1>3, <1>5, <1>18, <2>1, <2>2 DEF AtWork
  <1> QED BY <1>13, <1>14, <1>16, <1>17, <1>19 DEF VisitSound

\* The shop is written, or the visit is cut, and the phone is no longer in work.
LEMMA ShopVisit ==
    ASSUME IInv, VisitSound, SetShop, link
    PROVE  VisitSound'
  <1> USE DEF IInv
  <1> PICK s0 : s0 = job.shop
    OBVIOUS
  <1> PICK m0 : m0 = job.phone
    OBVIOUS
  <1> PICK x0 : x0 = <<s0, m0>>
    OBVIOUS
  <1>0. PICK done \in BOOLEAN :
           shop_of' = Put(shop_of, job.user, job.shop, done) /\ CutHere(Refusal(done))
    BY DEF SetShop
  <1>1. /\ s0 \in Shops /\ m0 \in Macs /\ x0 \in Shops \X Macs /\ There = x0
        /\ User[m0] \in Users /\ job.user \in Users
    BY KeysType, WhoseNumber DEF SetShop
  <1>2. /\ job'.pc = "next"
        /\ cut' = IF done THEN cut ELSE [cut EXCEPT ![x0] = TRUE]
    BY <1>0, <1>1, SetShopJob DEF CutHere, Put, Refusal
  <1>3. UNCHANGED <<seen, last, since, latest, arrivals, link>>
    BY DEF SetShop, places, env
  <1>4. Working /\ ~Working'
    BY <1>2, <1>3 DEF Working, Begun, SetShop
  <1>5. latest[m0] = s0 /\ (~cut[x0] => job.user = User[m0] /\ Known(s0, m0))
    BY <1>1, <1>4 DEF VisitSound, AtWork, KnownAtWork, SetShop
  <1>6. \A s \in Shops, m \in Macs : /\ Known(s, m)' <=> Known(s, m)
                                     /\ Told(s, m)' => Told(s, m)
                                     /\ Told(s, m)' /\ <<s, m>> = x0 => done
    BY <1>1, <1>2, <1>3 DEF Known, Told, arrivals, TypeOK
  <1>7. WrittenBefore'
    BY <1>3 DEF VisitSound, WrittenBefore, arrivals
  <1>8. SeenLast'
    BY <1>3, <1>6 DEF VisitSound, SeenLast
  <1>9. KnownHere'
    <2> SUFFICES ASSUME NEW s \in Shops, NEW m \in Macs, Told(s, m)' PROVE Known(s, m)
      BY <1>6 DEF KnownHere
    <2>1. CASE <<s, m>> = x0
      BY <1>5, <1>6, <2>1 DEF Told
    <2>2. CASE <<s, m>> # x0
      BY <1>6, <2>2 DEF VisitSound, KnownHere, InWork
    <2> QED BY <2>1, <2>2
  <1>10. Placed'
    <2> SUFFICES ASSUME NEW s \in Shops, NEW m \in Macs, Told(s, m)', latest[m] = s
                 PROVE  shop_of'[User[m]] = s
      BY <1>3 DEF Placed
    <2>1. User[m] \in Users /\ (job.user = User[m] => m0 = m) /\ Told(s, m)
      BY <1>6, WhoseNumber DEF SetShop
    <2>2. CASE m = m0
      <3>1. s = s0 /\ job.user = User[m] /\ done
        BY <1>5, <1>6, <2>1, <2>2 DEF Told
      <3> QED BY <1>0, <2>1, <3>1 DEF TypeOK, Put
    <2>3. CASE m # m0
      <3>1. shop_of'[User[m]] = shop_of[User[m]]
        BY <1>0, <1>1, <2>1, <2>3 DEF TypeOK, Put
      <3> QED BY <2>1, <2>3, <3>1 DEF VisitSound, Placed
    <2> QED BY <2>2, <2>3
  <1>11. AtWork'
    BY <1>4 DEF AtWork
  <1> QED BY <1>7, <1>8, <1>9, <1>10, <1>11 DEF VisitSound

LEMMA NextVisit ==
    ASSUME IInv, LastSound, VisitSound, [Next]_vars
    PROVE  VisitSound'
  <1> USE DEF IInv
  <1>1. CASE \/ \E s \in Shops, M \in SUBSET Macs : ParseApmacCloser(s, M)
             \/ NextMac \/ EndSignal \/ ReadSeen
    <2>1. UNCHANGED <<seen, visits, arrivals, shop_of, link>> /\ ~Begun
      BY <1>1 DEF ParseApmacCloser, NextMac, EndSignal, ReadSeen, places, env, Begun
    <2>2. job'.pc \in {"next", "read", "idle", "set"}
      <3>1. CASE EndSignal
        BY <3>1, NoJobType DEF EndSignal
      <3> QED BY <1>1, <3>1, NextMacJob, ReadSeenJob, ParseJob
    <2>3. ~Begun'
      BY <2>2 DEF Begun
    <2> QED BY <2>1, <2>3, VisitKept
  <1>2. CASE SetListed \/ AddUserStay \/ AddShopStay \/ AddMallStay
    <2>1. UNCHANGED <<seen, visits, arrivals, shop_of, link>>
      BY <1>2 DEF SetListed, AddUserStay, AddShopStay, AddMallStay, places, env
    <2>2. PICK loc \in {"user", "shop", "mall", "arrive"} : Goto(loc)
      BY <1>2 DEF SetListed, AddUserStay, AddShopStay, AddMallStay
    <2>3. job'.pc = loc /\ job'.shop = job.shop /\ job'.mac = job.mac /\ job'.user = job.user
          /\ job'.phone = job.phone /\ job'.now = job.now /\ job'.pre = job.pre
      BY <2>2, GotoType DEF PCs
    <2>4. Begun /\ Begun' /\ job.pc # "set_shop" /\ job'.pc # "set_shop"
      BY <1>2, <2>3 DEF SetListed, AddUserStay, AddShopStay, AddMallStay, Begun
    <2> QED BY <2>1, <2>3, <2>4, VisitKept
  <1>3. CASE Tick \/ UNCHANGED vars
    <2>1. UNCHANGED <<seen, visits, arrivals, shop_of, link, job>>
      BY <1>3 DEF Tick, vars, places, env
    <2> QED BY <2>1, VisitKept DEF Begun
  <1> QED BY <1>1, <1>2, <1>3, CutOff, UnlinkedVisit, SeenVisit, ArriveVisit, ShopVisit DEF Next

\* Between two signals the shop knows when the visit of a phone began, and the
\* user's shop is the one that saw him last, unless a signal of the visit was
\* filed under another number, its id not found or a command of it refused or
\* never sent, whatever other phones' signals go wrong.
THEOREM VisitsAreKnown == Spec => []VisitKnown
  <1>1. Init => LastSound /\ VisitSound
    <2> SUFFICES ASSUME Init PROVE LastSound /\ VisitSound
      OBVIOUS
    <2>1. \A s \in Shops, m \in Macs : /\ seen[<<s, m>>] = 0 /\ last[<<s, m>>] = 0
                                       /\ arrived[<<s, User[m]>>] = 0
                                       /\ vip_arrived[<<s, User[m]>>] = 0
      BY UserType DEF Init, Numbers
    <2>2. LastSound
      BY TimesType DEF Init, LastSound, NoJob
    <2>3. WrittenBefore /\ SeenLast
      <3>1. 0 <= 0
        OBVIOUS
      <3> QED BY <2>1, <3>1 DEF WrittenBefore, SeenLast
    <2>4. KnownHere /\ Placed
      BY <2>1 DEF KnownHere, Placed, Told
    <2>5. AtWork
      BY DEF Init, AtWork, Working, Begun, NoJob
    <2> QED BY <2>2, <2>3, <2>4, <2>5 DEF VisitSound
  <1>2. VisitSound => VisitKnown
    BY DEF VisitSound, KnownHere, Placed, VisitKnown, Known, Told, InWork
  <1>3. IInv /\ LastSound /\ VisitSound /\ [Next]_vars => LastSound' /\ VisitSound'
    BY NextLast, NextVisit
  <1> QED BY <1>1, <1>2, <1>3, Invariance, PTL DEF Spec

---------------------------------------------------------------------------
(* Adding up a function over a finite set.  The sums of FiniteSetsExt are  *)
(* recursive functions on the subsets; what is proved of them by induction *)
(* is proved here of the smallest subset for which it does not hold.       *)

\* A family of subsets of a finite set has a member without a smaller one.
LEMMA MinimalSubset ==
    ASSUME NEW S, IsFiniteSet(S), NEW F \in SUBSET SUBSET S, F # {}
    PROVE  \E T \in F : \A U \in F : U \subseteq T => U = T
  <1>1. IsWellFoundedOn(StrictSubsetOrdering(S), SUBSET S)
    BY FS_StrictSubsetOrderingWellFounded, FS_FiniteSubsetsOfFinite
  <1>2. PICK T \in F : \A U \in F : ~(<<U, T>> \in StrictSubsetOrdering(S))
    <2> HIDE DEF StrictSubsetOrdering
    <2> QED BY <1>1, WFMin
  <1>3. ASSUME NEW U \in F, U \subseteq T PROVE U = T
    BY <1>2, <1>3 DEF StrictSubsetOrdering
  <1> QED BY <1>3

Pick(T) == CHOOSE x \in T : TRUE

\* it adds f up over every subset of S, the way FiniteSetsExt does it.
Adds(it, f, S) ==
    it = [T \in SUBSET S |-> IF T = {} THEN 0 ELSE f[Pick(T)] + it[T \ {Pick(T)}]]

LEMMA AddsStep ==
    ASSUME NEW S, NEW f, NEW it, Adds(it, f, S), NEW T \in SUBSET S
    PROVE  /\ T = {} => it[T] = 0
           /\ T # {} => /\ Pick(T) \in T /\ T \ {Pick(T)} \in SUBSET S
                        /\ T \ {Pick(T)} \subseteq T /\ T \ {Pick(T)} # T
                        /\ it[T] = f[Pick(T)] + it[T \ {Pick(T)}]
  <1>1. T # {} => Pick(T) \in T
    BY DEF Pick
  <1>2. it[T] = IF T = {} THEN 0 ELSE f[Pick(T)] + it[T \ {Pick(T)}]
    BY DEF Adds
  <1> QED BY <1>1, <1>2

LEMMA AddsEmpty ==
    ASSUME NEW S, NEW f, NEW it, Adds(it, f, S)
    PROVE  it[{}] = 0
  BY DEF Adds

\* There is one way to add up.
LEMMA AddsAgree ==
    ASSUME NEW S, IsFiniteSet(S), NEW R \in SUBSET S, NEW f,
           NEW it, Adds(it, f, S), NEW jt, Adds(jt, f, R)
    PROVE  \A T \in SUBSET R : it[T] = jt[T]
  <1> DEFINE F == {T \in SUBSET R : it[T] # jt[T]}
  <1>1. SUFFICES ASSUME F # {} PROVE FALSE
    OBVIOUS
  <1>2. IsFiniteSet(R)
    BY FS_Subset
  <1>3. PICK T \in F : \A U \in F : U \subseteq T => U = T
    <2> HIDE DEF F
    <2>1. F \in SUBSET SUBSET R
      BY DEF F
    <2> QED BY <1>1, <1>2, <2>1, MinimalSubset
  <1>4. T \in SUBSET R /\ T \in SUBSET S /\ it[T] # jt[T]
    OBVIOUS
  <1>5. CASE T = {}
    <2>1. it[T] = 0 /\ jt[T] = 0
      BY <1>5, AddsEmpty
    <2> QED BY <1>4, <2>1
  <1>6. CASE T # {}
    <2> DEFINE U == T \ {Pick(T)}
    <2>1. /\ U \in SUBSET R /\ U \subseteq T /\ U # T
          /\ it[T] = f[Pick(T)] + it[U] /\ jt[T] = f[Pick(T)] + jt[U]
      BY <1>4, <1>6, AddsStep
    <2> HIDE DEF U
    <2>2. it[U] = jt[U]
      BY <1>3, <2>1
    <2> QED BY <1>4, <2>1, <2>2
  <1> QED BY <1>5, <1>6

\* Adding up is possible.
LEMMA AddsExists ==
    ASSUME NEW S, IsFiniteSet(S), NEW f
    PROVE  \E it : Adds(it, f, S)
  <1> DEFINE F == {T \in SUBSET S : ~\E it : Adds(it, f, T)}
  <1>1. SUFFICES ASSUME F # {} PROVE FALSE
    <2>1. S \in SUBSET S
      OBVIOUS
    <2> QED BY <2>1
  <1>2. PICK T \in F : \A U \in F : U \subseteq T => U = T
    <2> HIDE DEF F
    <2>1. F \in SUBSET SUBSET S
      BY DEF F
    <2> QED BY <1>1, <2>1, MinimalSubset
  <1>3. T \in SUBSET S /\ ~\E it : Adds(it, f, T)
    OBVIOUS
  <1> DEFINE g(U) == CHOOSE it : Adds(it, f, U)
  <1>4. ASSUME NEW U \in SUBSET T, U # T PROVE Adds(g(U), f, U)
    <2>1. \E it : Adds(it, f, U)
      BY <1>2, <1>3, <1>4
    <2> QED BY <2>1
  <1> HIDE DEF g, F
  <1> DEFINE t == Pick(T)
             it == [U \in SUBSET T |->
                       IF U # T THEN g(U)[U] ELSE IF T = {} THEN 0 ELSE f[t] + g(T \ {t})[T \ {t}]]
  <1>5. \A U \in SUBSET T : U # T => it[U] = g(U)[U]
    OBVIOUS
  <1>6. it[T] = IF T = {} THEN 0 ELSE f[t] + g(T \ {t})[T \ {t}]
    OBVIOUS
  <1>7. it = [U \in SUBSET T |-> it[U]]
    OBVIOUS
  <1> HIDE DEF it
  <1>8. ASSUME NEW U \in SUBSET T
        PROVE  it[U] = IF U = {} THEN 0 ELSE f[Pick(U)] + it[U \ {Pick(U)}]
    <2>0. IsFiniteSet(U)
      BY <1>3, FS_Subset
    <2>1. CASE U = T /\ T = {}
      BY <1>6, <2>1
    <2>2. CASE U = T /\ T # {}
      <3>1. t \in T
        BY <2>2 DEF Pick
      <3>2. T \ {t} \in SUBSET T /\ T \ {t} # T
        BY <3>1
      <3>3. it[T \ {t}] = g(T \ {t})[T \ {t}]
        BY <1>5, <3>2
      <3> QED BY <1>6, <2>2, <3>3
    <2>3. CASE U # T /\ U = {}
      <3>1. Adds(g(U), f, U) /\ U \in SUBSET U /\ it[U] = g(U)[U]
        BY <1>4, <1>5, <2>3
      <3>2. g(U)[U] = 0
        BY <2>3, <3>1, AddsEmpty
      <3> QED BY <2>3, <3>1, <3>2
    <2>4. CASE U # T /\ U # {}
      <3> DEFINE V == U \ {Pick(U)}
      <3>1. /\ Adds(g(U), f, U) /\ U \in SUBSET U
            /\ V \in SUBSET U /\ V # U
            /\ g(U)[U] = f[Pick(U)] + g(U)[V]
        <4>1. Adds(g(U), f, U) /\ U \in SUBSET U
          BY <1>4, <2>4
        <4> QED BY <2>4, <4>1, AddsStep
      <3> HIDE DEF V
      <3>2. V \in SUBSET T /\ V # T
        BY <3>1
      <3>3. Adds(g(V), f, V) /\ V \in SUBSET V
        BY <1>4, <3>2
      <3>4. g(U)[V] = g(V)[V]
        BY <2>0, <3>1, <3>3, AddsAgree
      <3>5. it[V] = g(V)[V] /\ it[U] = g(U)[U]
        BY <1>5, <2>4, <3>2
      <3> QED BY <2>4, <3>1, <3>4, <3>5 DEF V
    <2> QED BY <2>1, <2>2, <2>3, <2>4
  <1>9. Adds(it, f, T)
    BY <1>7, <1>8 DEF Adds
  <1> QED BY <1>3, <1>9

\* The sum of natural numbers is one.
LEMMA AddsType ==
    ASSUME NEW S, IsFiniteSet(S), NEW f \in [S -> Nat], NEW it, Adds(it, f, S)
    PROVE  \A T \in SUBSET S : it[T] \in Nat
  <1> DEFINE F == {T \in SUBSET S : it[T] \notin Nat}
  <1>1. SUFFICES ASSUME F # {} PROVE FALSE
    OBVIOUS
  <1>2. PICK T \in F : \A U \in F : U \subseteq T => U = T
    <2> HIDE DEF F
    <2>1. F \in SUBSET SUBSET S
      BY DEF F
    <2> QED BY <1>1, <2>1, MinimalSubset
  <1>3. T \in SUBSET S /\ it[T] \notin Nat
    OBVIOUS
  <1>4. CASE T = {}
    BY <1>3, <1>4, AddsEmpty
  <1>5. CASE T # {}
    <2> DEFINE U == T \ {Pick(T)}
    <2>1. /\ U \in SUBSET S /\ U \subseteq T /\ U # T /\ Pick(T) \in S
          /\ it[T] = f[Pick(T)] + it[U]
      BY <1>3, <1>5, AddsStep
    <2> HIDE DEF U
    <2>2. it[U] \in Nat
      BY <1>2, <2>1
    <2>3. f[Pick(T)] \in Nat
      BY <2>1
    <2> QED BY <1>3, <2>1, <2>2, <2>3
  <1> QED BY <1>4, <1>5

\* h is f but for x in S, where it is more by d.
Grows(S, f, h, x, d) == h[x] = f[x] + d /\ \A y \in S \ {x} : h[y] = f[y]

\* One summand more by d makes the sum more by d.
LEMMA AddsOne ==
    ASSUME NEW S, IsFiniteSet(S), NEW f \in [S -> Nat], NEW i \in S, NEW d \in Nat,
           NEW h, Grows(S, f, h, i, d),
           NEW it, Adds(it, f, S), NEW jt, Adds(jt, h, S)
    PROVE  jt[S] = it[S] + d
  <1> USE DEF Grows
  <1> DEFINE more(T) == IF i \in T THEN d ELSE 0
             F == {T \in SUBSET S : jt[T] # it[T] + more(T)}
  <1>1. SUFFICES ASSUME F # {} PROVE FALSE
    <2>1. S \in SUBSET S
      OBVIOUS
    <2> QED BY <2>1
  <1>2. PICK T \in F : \A U \in F : U \subseteq T => U = T
    <2> HIDE DEF F
    <2>1. F \in SUBSET SUBSET S
      BY DEF F
    <2> QED BY <1>1, <2>1, MinimalSubset
  <1>3. T \in SUBSET S /\ jt[T] # it[T] + more(T)
    OBVIOUS
  <1>4. CASE T = {}
    <2>1. it[T] = 0 /\ jt[T] = 0
      BY <1>4, AddsEmpty
    <2> QED BY <1>3, <1>4, <2>1
  <1>5. CASE T # {}
    <2> DEFINE x == Pick(T)
               U == T \ {x}
    <2>1. /\ U \in SUBSET S /\ U \subseteq T /\ U # T /\ x \in T
          /\ it[T] = f[x] + it[U] /\ jt[T] = h[x] + jt[U]
      BY <1>3, <1>5, AddsStep
    <2>2. i \in U <=> i \in T /\ i # x
      OBVIOUS
    <2> HIDE DEF U, x
    <2>3. jt[U] = it[U] + more(U)
      BY <1>2, <2>1
    <2>4. f[x] \in Nat /\ f[i] \in Nat /\ it[U] \in Nat
      BY <1>3, <2>1, AddsType
    <2>5. CASE x = i
      BY <1>3, <2>1, <2>2, <2>3, <2>4, <2>5
    <2>6. CASE x # i
      <3>1. h[x] = f[x] /\ more(U) = more(T)
        BY <1>3, <2>1, <2>2, <2>6
      <3>2. more(T) \in Nat
        OBVIOUS
      <3> HIDE DEF more
      <3> QED BY <1>3, <2>1, <2>3, <2>4, <3>1, <3>2
    <2> QED BY <2>5, <2>6
  <1> QED BY <1>4, <1>5

\* Nothing to add.
LEMMA AddsNothing ==
    ASSUME NEW S, IsFiniteSet(S), NEW f, \A x \in S : f[x] = 0, NEW it, Adds(it, f, S)
    PROVE  it[S] = 0
  <1>1. Adds([T \in SUBSET S |-> 0], f, S)
    <2> DEFINE z == [T \in SUBSET S |-> 0]
    <2>1. \A T \in SUBSET S : T # {} => Pick(T) \in T
      BY DEF Pick
    <2>2. \A T \in SUBSET S : T # {} => f[Pick(T)] = 0 /\ z[T \ {Pick(T)}] = 0
      BY <2>1
    <2> DEFINE e(T) == IF T = {} THEN 0 ELSE f[Pick(T)] + z[T \ {Pick(T)}]
    <2>3. ASSUME NEW T \in SUBSET S PROVE e(T) = 0
      <3>1. CASE T = {}
        BY <3>1
      <3>2. CASE T # {}
        <4>1. f[Pick(T)] = 0 /\ z[T \ {Pick(T)}] = 0
          BY <2>2, <3>2
        <4> HIDE DEF z
        <4> QED BY <3>2, <4>1
      <3> QED BY <3>1, <3>2
    <2>4. z = [T \in SUBSET S |-> 0]
      OBVIOUS
    <2> HIDE DEF z, e
    <2>5. z = [T \in SUBSET S |-> e(T)]
      BY <2>3, <2>4
    <2>6. Adds(z, f, S)
      BY <2>5 DEF Adds, e
    <2> QED BY <2>6 DEF z
  <1>2. S \in SUBSET S
    OBVIOUS
  <1>3. it[S] = [T \in SUBSET S |-> 0][S]
    BY <1>1, <1>2, AddsAgree
  <1> QED BY <1>2, <1>3

---------------------------------------------------------------------------
(* The totals of the stays.                                                *)

HIDE DEF Users

\* The totals are sums in this sense.
LEMMA UsersTotalAdds ==
    ASSUME NEW stay, NEW s, NEW it, Adds(it, [i \in Users |-> stay[<<s, i>>]], Users),
           IsFiniteSet(Users)
    PROVE  UsersTotal(stay, s) = it[Users]
  <1> HIDE DEF Users
  <1> DEFINE f == [i \in Users |-> stay[<<s, i>>]]
             e(T, g) == IF T = {} THEN 0 ELSE stay[<<s, Pick(T)>>] + g[T \ {Pick(T)}]
             Is(g) == g = [T \in SUBSET Users |-> e(T, g)]
             jt == CHOOSE g : Is(g)
  <1>1. ASSUME NEW g PROVE Is(g) <=> Adds(g, f, Users)
    <2>1. \A T \in SUBSET Users : T # {} => f[Pick(T)] = stay[<<s, Pick(T)>>]
      BY DEF Pick
    <2>2. \A T \in SUBSET Users : e(T, g) = IF T = {} THEN 0 ELSE f[Pick(T)] + g[T \ {Pick(T)}]
      BY <2>1
    <2> DEFINE h(T) == IF T = {} THEN 0 ELSE f[Pick(T)] + g[T \ {Pick(T)}]
    <2> HIDE DEF f, e
    <2>3. [T \in SUBSET Users |-> e(T, g)] = [T \in SUBSET Users |-> h(T)]
      BY <2>2
    <2> QED BY <2>3 DEF Adds
  <1>2. Is(it)
    BY <1>1
  <1>3. Is(jt)
    <2> HIDE DEF Is
    <2> QED BY <1>2
  <1>4. Adds(jt, f, Users)
    BY <1>1, <1>3
  <1>5. UsersTotal(stay, s) = jt[Users]
    BY DEF UsersTotal, MapThenSumSet, MapThenFoldSet, Pick
  <1>6. Users \in SUBSET Users
    OBVIOUS
  <1> HIDE DEF jt, f
  <1>7. Adds(it, f, Users)
    BY DEF f
  <1> QED BY <1>4, <1>5, <1>6, <1>7, AddsAgree

LEMMA ShopsTotalAdds ==
    ASSUME NEW stay \in [Shops -> Nat], NEW it, Adds(it, stay, Shops)
    PROVE  ShopsTotal(stay) = it[Shops]
  <1> DEFINE jt == CHOOSE g : Adds(g, stay, Shops)
  <1>1. Adds(jt, stay, Shops)
    OBVIOUS
  <1>2. ShopsTotal(stay) = jt[Shops]
    BY DEF ShopsTotal, MapThenSumSet, MapThenFoldSet, Pick, Adds
  <1>3. Shops \in SUBSET Shops /\ IsFiniteSet(Shops)
    BY SetsFinite
  <1> HIDE DEF jt
  <1> QED BY <1>1, <1>2, <1>3, AddsAgree

LEMMA UsersFinite == IsFiniteSet(Users)
  BY SetsFinite, FS_AddElement DEF Users

\* The total of a shop is more by what is added to the stay of a user there,
\* and that of another shop is not.
LEMMA UsersTotalGrows ==
    ASSUME NEW stay \in [Shops \X Users -> Nat], NEW s \in Shops, NEW i \in Users, NEW d \in Nat,
           NEW t \in Shops, NEW more,
           Grows(Shops \X Users, stay, more, <<s, i>>, d)
    PROVE  /\ UsersTotal(stay, t) \in Nat
           /\ t = s => UsersTotal(more, t) = UsersTotal(stay, t) + d
           /\ t # s => UsersTotal(more, t) = UsersTotal(stay, t)
  <1> HIDE DEF Users
  <1>9. PICK f : f = [j \in Users |-> stay[<<t, j>>]]
    OBVIOUS
  <1>10. PICK h : h = [j \in Users |-> more[<<t, j>>]]
    OBVIOUS
  <1>0. IsFiniteSet(Users) /\ Users \in SUBSET Users
    BY UsersFinite
  <1>1. PICK it : Adds(it, f, Users)
    BY <1>0, AddsExists
  <1>2. PICK jt : Adds(jt, h, Users)
    BY <1>0, AddsExists
  <1>3. UsersTotal(stay, t) = it[Users]
    BY <1>0, <1>1, <1>9, UsersTotalAdds
  <1>7. UsersTotal(more, t) = jt[Users]
    BY <1>0, <1>2, <1>10, UsersTotalAdds
  <1>4. f \in [Users -> Nat]
    BY <1>9
  <1>5. it[Users] \in Nat
    BY <1>0, <1>1, <1>4, AddsType
  <1>6. (t = s => jt[Users] = it[Users] + d) /\ (t # s => jt[Users] = it[Users])
    <2>1. CASE t = s
      <3>1. Grows(Users, f, h, i, d)
        BY <1>9, <1>10, <2>1 DEF Grows
      <3>2. jt[Users] = it[Users] + d
        BY <1>0, <1>1, <1>2, <1>4, <3>1, AddsOne, SMTT(20)
      <3> QED BY <2>1, <3>2
    <2>2. CASE t # s
      <3>1. h = f
        BY <1>9, <1>10, <2>2 DEF Grows
      <3>2. jt[Users] = it[Users]
        BY <1>0, <1>1, <1>2, <3>1, AddsAgree
      <3> QED BY <1>5, <2>2, <3>2
    <2> QED BY <2>1, <2>2
  <1> QED BY <1>3, <1>5, <1>6, <1>7

\* The total of the mall is more by what is added to that of a shop.
LEMMA ShopsTotalGrows ==
    ASSUME NEW stay \in [Shops -> Nat], NEW s \in Shops, NEW d \in Nat,
           NEW more \in [Shops -> Nat], Grows(Shops, stay, more, s, d)
    PROVE  ShopsTotal(stay) \in Nat /\ ShopsTotal(more) = ShopsTotal(stay) + d
  <1>0. IsFiniteSet(Shops) /\ Shops \in SUBSET Shops
    BY SetsFinite
  <1>1. PICK it : Adds(it, stay, Shops)
    BY <1>0, AddsExists
  <1>2. PICK jt : Adds(jt, more, Shops)
    BY <1>0, AddsExists
  <1>4. ShopsTotal(stay) = it[Shops] /\ ShopsTotal(more) = jt[Shops]
    BY <1>1, <1>2, ShopsTotalAdds
  <1>5. it[Shops] \in Nat /\ jt[Shops] = it[Shops] + d
    <2>1. \A T \in SUBSET Shops : it[T] \in Nat
      BY <1>0, <1>1, AddsType
    <2>2. jt[Shops] = it[Shops] + d
      BY <1>0, <1>1, <1>2, AddsOne
    <2> QED BY <1>0, <2>1, <2>2
  <1> QED BY <1>4, <1>5

USE DEF Users

\* Before a signal all totals are 0.
LEMMA InitTotals == Init => TotalsSound
  <1> SUFFICES ASSUME Init PROVE TotalsSound
    OBVIOUS
  <1> HIDE DEF Users
  <1>1. ASSUME NEW s \in Shops PROVE UsersTotal(user_stay, s) = 0
    <2> DEFINE f == [j \in Users |-> user_stay[<<s, j>>]]
    <2>1. PICK it : Adds(it, f, Users)
      BY UsersFinite, AddsExists
    <2>2. \A j \in Users : f[j] = 0
      BY DEF Init
    <2>3. it[Users] = 0
      <3> HIDE DEF f
      <3> QED BY <2>1, <2>2, UsersFinite, AddsNothing
    <2> QED BY <2>1, <2>3, UsersFinite, UsersTotalAdds
  <1>2. ShopsTotal(shop_stay) = 0
    <2>1. PICK it : Adds(it, shop_stay, Shops)
      BY SetsFinite, AddsExists
    <2>2. shop_stay \in [Shops -> Nat] /\ \A s \in Shops : shop_stay[s] = 0
      BY DEF Init
    <2>3. it[Shops] = 0
      BY <2>1, <2>2, SetsFinite, AddsNothing
    <2> QED BY <2>1, <2>2, <2>3, ShopsTotalAdds
  <1> QED BY <1>1, <1>2 DEF Init, NoJob, TotalsSound, TotalsOrdered, RoomForTotals

\* The totals are natural numbers.
LEMMA TotalsType ==
    ASSUME TypeOK
    PROVE  /\ ShopsTotal(shop_stay) \in Nat
           /\ \A s \in Shops : UsersTotal(user_stay, s) \in Nat
  <1> HIDE DEF Users
  <1>1. PICK it : Adds(it, shop_stay, Shops)
    BY SetsFinite, AddsExists
  <1>2. shop_stay \in [Shops -> Nat] /\ user_stay \in [Shops \X Users -> Nat]
    BY DEF TypeOK
  <1>3. it[Shops] \in Nat
    <2>1. \A T \in SUBSET Shops : it[T] \in Nat
      BY <1>1, <1>2, SetsFinite, AddsType
    <2> QED BY <2>1
  <1>4. ASSUME NEW s \in Shops PROVE UsersTotal(user_stay, s) \in Nat
    <2>1. PICK f : f = [j \in Users |-> user_stay[<<s, j>>]]
      OBVIOUS
    <2>2. PICK jt : Adds(jt, f, Users)
      BY UsersFinite, AddsExists
    <2>3. f \in [Users -> Nat]
      BY <1>2, <2>1
    <2>4. \A T \in SUBSET Users : jt[T] \in Nat
      BY <2>2, <2>3, UsersFinite, AddsType
    <2>5. jt[Users] \in Nat
      BY <2>4
    <2> QED BY <2>1, <2>2, <2>5, UsersFinite, UsersTotalAdds
  <1> QED BY <1>1, <1>2, <1>3, <1>4, ShopsTotalAdds

\* A step that leaves the totals alone leaves room for them.
LEMMA TotalsKept ==
    ASSUME TypeOK, TotalsSound, UNCHANGED stays, link' => link,
           job'.pc \in {"shop", "mall"} => /\ job'.pc = job.pc
                                           /\ UNCHANGED <<job.shop, job.now, job.pre>>
    PROVE  TotalsSound'
  BY DEF TotalsSound, TotalsOrdered, RoomForTotals, Interval, Min2, stays

\* The user's stay is counted, refused or not sent; the shop's comes next.
LEMMA UserTotals ==
    ASSUME IInv, TotalsSound, AddUserStay
    PROVE  TotalsSound'
  <1> USE DEF IInv
  <1>0. Interval \in Nat
    BY IntervalBounds
  <1>1. PICK done \in BOOLEAN :
           /\ Sent(done)
           /\ user_stay' = Put(user_stay, Him, user_stay[Him] + Interval, done)
           /\ lost_user' = Put(lost_user, job.shop, lost_user[job.shop] + Interval, Refusal(done))
    BY DEF AddUserStay
  <1>2. /\ UNCHANGED <<shop_stay, mall_stay, lost_shop, link>>
        /\ job.shop \in Shops /\ job.user \in Users /\ Him = <<job.shop, job.user>>
        /\ user_stay \in [Shops \X Users -> Nat] /\ shop_stay \in [Shops -> Nat]
        /\ lost_user \in [Shops -> Nat]
    BY KeysType DEF AddUserStay, TypeOK, env
  <1>3. job'.pc = "shop" /\ job'.shop = job.shop /\ job'.now = job.now /\ job'.pre = job.pre
    BY GotoType DEF AddUserStay, PCs
  <1>4. Interval' = Interval
    BY <1>3 DEF Interval, Min2
  <1>5. \A s \in Shops : /\ UsersTotal(user_stay, s) \in Nat /\ lost_user[s] \in Nat
                         /\ shop_stay[s] \in Nat
                         /\ shop_stay[s] <= UsersTotal(user_stay, s) + lost_user[s]
    BY <1>2, TotalsType DEF TotalsSound, TotalsOrdered
  <1>6. \A s \in Shops :
           /\ UsersTotal(user_stay', s) \in Nat /\ lost_user'[s] \in Nat
           /\ UsersTotal(user_stay, s) + lost_user[s] <= UsersTotal(user_stay', s) + lost_user'[s]
           /\ link /\ s = job.shop =>
                 UsersTotal(user_stay, s) + lost_user[s] + Interval
                    <= UsersTotal(user_stay', s) + lost_user'[s]
    <2> SUFFICES ASSUME NEW s \in Shops
         PROVE
           /\ UsersTotal(user_stay', s) \in Nat /\ lost_user'[s] \in Nat
           /\ UsersTotal(user_stay, s) + lost_user[s] <= UsersTotal(user_stay', s) + lost_user'[s]
           /\ link /\ s = job.shop =>
                 UsersTotal(user_stay, s) + lost_user[s] + Interval
                    <= UsersTotal(user_stay', s) + lost_user'[s]
      OBVIOUS
    <2>0. UsersTotal(user_stay, s) \in Nat /\ lost_user[s] \in Nat
      BY <1>5
    <2>1. CASE done
      <3>1. user_stay' = [user_stay EXCEPT ![Him] = user_stay[Him] + Interval]
            /\ lost_user' = lost_user
        BY <1>1, <2>1 DEF Put, Refusal
      <3>2. Grows(Shops \X Users, user_stay, user_stay', <<job.shop, job.user>>, Interval)
        BY <1>2, <3>1 DEF Grows
      <3>3. /\ s = job.shop => UsersTotal(user_stay', s) = UsersTotal(user_stay, s) + Interval
            /\ s # job.shop => UsersTotal(user_stay', s) = UsersTotal(user_stay, s)
        <4> HIDE DEF Users
        <4>1. user_stay \in [Shops \X Users -> Nat] /\ job.shop \in Shops /\ job.user \in Users
          BY <1>2
        <4> QED BY <1>0, <3>2, <4>1, UsersTotalGrows
      <3>4. s = job.shop \/ s # job.shop
        OBVIOUS
      <3> QED BY <1>0, <2>0, <3>1, <3>3, <3>4
    <2>2. CASE ~done /\ ~link
      <3>1. user_stay' = user_stay /\ lost_user' = lost_user
        BY <1>1, <2>2 DEF Put, Refusal
      <3>2. UsersTotal(user_stay', s) = UsersTotal(user_stay, s)
        BY <3>1
      <3> QED BY <2>0, <2>2, <3>1, <3>2
    <2>3. CASE ~done /\ link
      <3>1. user_stay' = user_stay
            /\ lost_user' = [lost_user EXCEPT ![job.shop] = lost_user[job.shop] + Interval]
        BY <1>1, <2>3 DEF Put, Refusal
      <3>2. UsersTotal(user_stay', s) = UsersTotal(user_stay, s)
        BY <3>1
      <3>3. lost_user'[s] = IF s = job.shop THEN lost_user[s] + Interval ELSE lost_user[s]
        BY <1>2, <3>1
      <3> QED BY <1>0, <2>0, <3>2, <3>3
    <2> QED BY <2>1, <2>2, <2>3
  <1>7. \A s \in Shops : shop_stay[s] <= UsersTotal(user_stay', s) + lost_user'[s]
    BY <1>5, <1>6
  <1>8. TotalsOrdered'
    BY <1>2, <1>7 DEF TotalsSound, TotalsOrdered
  <1>9. link => shop_stay[job.shop] + Interval
                   <= UsersTotal(user_stay', job.shop) + lost_user'[job.shop]
    BY <1>0, <1>2, <1>5, <1>6
  <1>10. RoomForTotals'
    BY <1>2, <1>3, <1>4, <1>9 DEF RoomForTotals
  <1> QED BY <1>8, <1>10 DEF TotalsSound

\* The shop's stay is counted, refused or not sent; the mall's comes next.
LEMMA ShopTotals ==
    ASSUME IInv, TotalsSound, AddShopStay
    PROVE  TotalsSound'
  <1> USE DEF IInv
  <1>0. Interval \in Nat
    BY IntervalBounds
  <1>1. PICK done \in BOOLEAN :
           /\ Sent(done)
           /\ shop_stay' = Put(shop_stay, job.shop, shop_stay[job.shop] + Interval, done)
           /\ lost_shop' = IF Refusal(done) THEN lost_shop + Interval ELSE lost_shop
    BY DEF AddShopStay
  <1>2. /\ UNCHANGED <<user_stay, mall_stay, lost_user, link>> /\ job.pc = "shop"
        /\ job.shop \in Shops /\ shop_stay \in [Shops -> Nat]
        /\ lost_shop \in Nat /\ mall_stay \in Nat /\ ShopsTotal(shop_stay) \in Nat
    BY KeysType, TotalsType DEF AddShopStay, TypeOK, env
  <1>3. job'.pc = "mall" /\ job'.shop = job.shop /\ job'.now = job.now /\ job'.pre = job.pre
    BY GotoType DEF AddShopStay, PCs
  <1>4. Interval' = Interval
    BY <1>3 DEF Interval, Min2
  <1>5. /\ \A s \in Shops : shop_stay[s] <= UsersTotal(user_stay, s) + lost_user[s]
        /\ mall_stay <= ShopsTotal(shop_stay) + lost_shop
        /\ link => shop_stay[job.shop] + Interval
                      <= UsersTotal(user_stay, job.shop) + lost_user[job.shop]
    BY <1>2 DEF TotalsSound, TotalsOrdered, RoomForTotals
  <1>6. CASE done
    <2>1. /\ shop_stay' = [shop_stay EXCEPT ![job.shop] = shop_stay[job.shop] + Interval]
          /\ lost_shop' = lost_shop /\ link
      BY <1>1, <1>6 DEF Put, Refusal, Sent
    <2>2. ShopsTotal(shop_stay') = ShopsTotal(shop_stay) + Interval
      <3>1. Grows(Shops, shop_stay, shop_stay', job.shop, Interval)
        BY <1>2, <2>1 DEF Grows
      <3>2. shop_stay' \in [Shops -> Nat]
        BY <1>0, <1>2, <2>1, NatSum
      <3> QED BY <1>0, <1>2, <3>1, <3>2, ShopsTotalGrows
    <2>3. \A s \in Shops : shop_stay'[s] <= UsersTotal(user_stay, s) + lost_user[s]
      BY <1>2, <1>5, <2>1
    <2>4. mall_stay + Interval <= ShopsTotal(shop_stay') + lost_shop
          /\ mall_stay <= ShopsTotal(shop_stay') + lost_shop
      BY <1>0, <1>2, <1>5, <2>2
    <2>5. TotalsOrdered'
      BY <1>2, <2>1, <2>3, <2>4 DEF TotalsOrdered
    <2>6. RoomForTotals'
      BY <1>2, <1>3, <1>4, <2>1, <2>4 DEF RoomForTotals
    <2> QED BY <2>5, <2>6 DEF TotalsSound
  <1>7. CASE ~done /\ ~link
    <2>1. shop_stay' = shop_stay /\ lost_shop' = lost_shop /\ ~link'
      BY <1>1, <1>2, <1>7 DEF Put, Refusal
    <2> QED BY <1>2, <1>5, <2>1 DEF TotalsSound, TotalsOrdered, RoomForTotals
  <1>8. CASE ~done /\ link
    <2>1. shop_stay' = shop_stay /\ lost_shop' = lost_shop + Interval
      BY <1>1, <1>8 DEF Put, Refusal
    <2>2. ShopsTotal(shop_stay') = ShopsTotal(shop_stay)
      BY <2>1
    <2>3. mall_stay + Interval <= ShopsTotal(shop_stay') + lost_shop'
          /\ mall_stay <= ShopsTotal(shop_stay') + lost_shop'
      BY <1>0, <1>2, <1>5, <2>1, <2>2
    <2>4. TotalsOrdered'
      BY <1>2, <1>5, <2>1, <2>3 DEF TotalsOrdered
    <2>5. RoomForTotals'
      BY <1>2, <1>3, <1>4, <2>3 DEF RoomForTotals
    <2> QED BY <2>4, <2>5 DEF TotalsSound
  <1> QED BY <1>6, <1>7, <1>8

\* The user's stay is counted first, then that of the shop, then the mall's.
LEMMA NextTotals ==
    ASSUME IInv, TotalsSound, [Next]_vars
    PROVE  TotalsSound'
  <1> USE DEF IInv
  <1>0. Interval \in Nat
    BY IntervalBounds
  <1>1. ASSUME NEW s \in Shops, NEW M \in SUBSET Macs, ParseApmacCloser(s, M) PROVE TotalsSound'
    BY <1>1, ParseJob, TotalsKept DEF ParseApmacCloser
  <1>2. CASE NextMac
    BY <1>2, NextMacJob, TotalsKept DEF NextMac, env
  <1>3. CASE EndSignal \/ Restart
    <2>1. job'.pc = "idle"
      BY <1>3, NoJobType DEF EndSignal, Restart
    <2>2. UNCHANGED stays
      BY <1>3 DEF EndSignal, Restart
    <2> QED BY <2>1, <2>2 DEF TotalsSound, TotalsOrdered, RoomForTotals, stays
  <1>4. CASE ReadSeen
    BY <1>4, ReadSeenJob, TotalsKept DEF ReadSeen, env
  <1>5. CASE SetSeen \/ SetListed \/ Arrive
    <2>1. PICK loc \in {"list", "user", "set_shop"} : Goto(loc)
      BY <1>5 DEF SetSeen, SetListed, Arrive
    <2>2. job'.pc = loc
      BY <2>1, GotoType DEF PCs
    <2>3. UNCHANGED <<stays, link>>
      BY <1>5 DEF SetSeen, SetListed, Arrive, env
    <2> QED BY <2>2, <2>3, TotalsKept
  <1>6. CASE SetShop
    BY <1>6, SetShopJob, TotalsKept DEF SetShop, env
  <1>7. CASE Tick \/ DropLink \/ UNCHANGED vars
    BY <1>7, TotalsKept DEF Tick, DropLink, vars, env
  <1>8. CASE AddMallStay
    <2>1. PICK done \in BOOLEAN :
             Sent(done) /\ mall_stay' = IF done THEN mall_stay + Interval ELSE mall_stay
      BY <1>8 DEF AddMallStay
    <2>2. job'.pc = "arrive" /\ job.pc = "mall"
      BY <1>8, GotoType DEF AddMallStay, PCs
    <2>3. UNCHANGED <<user_stay, shop_stay, lost_user, lost_shop>>
      BY <1>8 DEF AddMallStay
    <2>4. /\ mall_stay <= ShopsTotal(shop_stay) + lost_shop
          /\ link => mall_stay + Interval <= ShopsTotal(shop_stay) + lost_shop
      BY <2>2 DEF TotalsSound, TotalsOrdered, RoomForTotals
    <2>5. mall_stay' <= ShopsTotal(shop_stay) + lost_shop
      BY <2>1, <2>4 DEF Sent
    <2>6. TotalsOrdered'
      BY <2>3, <2>5 DEF TotalsSound, TotalsOrdered
    <2> QED BY <2>2, <2>6 DEF TotalsSound, RoomForTotals
  <1> QED
    BY <1>1, <1>2, <1>3, <1>4, <1>5, <1>6, <1>7, <1>8, UserTotals, ShopTotals DEF Next

\* No total is ahead of what it sums up by more than the stays that were
\* refused there (user_map.cpp:870-902), however many shops and users there
\* are and wherever the receiver dies or loses its connection.
THEOREM TotalsAreOrdered == Spec => []TotalsOrdered
  <1>1. TotalsSound => TotalsOrdered
    BY DEF TotalsSound
  <1>2. IInv /\ TotalsSound /\ [Next]_vars => TotalsSound'
    BY NextTotals
  <1> QED BY InitTotals, <1>1, <1>2, Invariance, PTL DEF Spec
=============================================================================
