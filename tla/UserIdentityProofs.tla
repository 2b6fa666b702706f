------------------------ MODULE UserIdentityProofs ------------------------
(***************************************************************************)
(* For any number of processes, threads, macs and ids: the invariant IInv  *)
(* of UserIdentity is inductive; the agreement of answers, the soundness   *)
(* of the two caches, the mutual exclusion around the connection and the   *)
(* permanence of ids follow, every step is a step of IdentityRegistry, and *)
(* answers given at different times agree.                                 *)
(***************************************************************************)
EXTENDS UserIdentity, TLAPS

\* The table only grows: no step changes the id of a mac that has one, and
\* an id stays with one mac.
LEMMA AddUserGrows ==
    ASSUME TypeOK, UsersInjective, NEW m \in Macs, NEW i \in Ids, AddUserRow(m, i)
    PROVE  /\ users' \in [Macs -> Ids \cup {0}]
           /\ UsersInjective'
           /\ users'[m] = i
           /\ \A n \in Macs : users[n] # 0 => users'[n] = users[n]
  BY IdsPositive DEF TypeOK, UsersInjective, AddUserRow

\* The initial state satisfies the invariant.
LEMMA InitIInv == Init => IInv
<1> SUFFICES ASSUME Init PROVE IInv
  OBVIOUS
<1>1. TypeOK
  BY TriesPositive DEF Init, NoCall, Call, PCs, TypeOK
<1>2. CacheSound /\ UsersInjective /\ CallSound /\ CallShape
  BY DEF Init, NoCall, CacheSound, UsersInjective, CallSound, CallShape
<1>3. MutexSound
  BY DEF Init, NoCall, MutexSound, ConnectionNotShared, UsesConnection, At, Siblings
<1> QED
  BY <1>1, <1>2, <1>3 DEF IInv

\* Growth of the table keeps what caches and calls already know true.
LEMMA GrowthKeeps ==
    ASSUME IInv, users' \in [Macs -> Ids \cup {0}],
           \A n \in Macs : users[n] # 0 => users'[n] = users[n]
    PROVE  /\ UNCHANGED <<id_of, mac_of>> => CacheSound'
           /\ \A t \in Threads :
                 call[t].mac # NoMac /\ call[t].id # 0 => users'[call[t].mac] = call[t].id
  BY IdsPositive DEF IInv, TypeOK, CacheSound, CallSound, Call

\* The databases part of the invariant and the facts about calls survive
\* every step.
LEMMA NextDb ==
    ASSUME IInv, [Next]_vars
    PROVE  (TypeOK /\ CacheSound /\ UsersInjective /\ CallSound /\ CallShape)'
<1> DEFINE Inv == TypeOK /\ CacheSound /\ UsersInjective /\ CallSound /\ CallShape
<1> USE IdsPositive, NoMacIsNoMac, TriesPositive, ProcOfType DEF IInv
<1>1. ASSUME NEW t \in Threads, NEW m \in Macs, CallGetId(t, m) PROVE Inv'
  <2> DEFINE c == [pc |-> "lock", op |-> "get_id", mac |-> m, id |-> 0, tries |-> 0]
  <2>1. /\ c \in Call /\ c.pc = "lock" /\ c.op = "get_id" /\ c.mac = m /\ c.id = 0
        /\ call' = [call EXCEPT ![t] = c]
    BY <1>1 DEF CallGetId, Call, PCs
  <2> HIDE DEF c
  <2>2. UNCHANGED <<users, id_of, mac_of, started, mutex>>
    BY <1>1 DEF CallGetId, db
  <2>3. (TypeOK /\ CacheSound /\ UsersInjective)'
    BY <2>1, <2>2 DEF TypeOK, CacheSound, UsersInjective
  <2>4. CallSound'
    BY <2>1, <2>2 DEF TypeOK, CallSound
  <2>5. CallShape'
    BY <2>1 DEF TypeOK, CallShape
  <2> QED BY <2>3, <2>4, <2>5
<1>2. ASSUME NEW t \in Threads, NEW i \in Ids, CallGetMac(t, i) PROVE Inv'
  <2> DEFINE c == [pc |-> "init", op |-> "get_mac", mac |-> NoMac, id |-> i, tries |-> 0]
  <2>1. /\ c \in Call /\ c.pc = "init" /\ c.op = "get_mac" /\ c.mac = NoMac /\ c.id = i
        /\ call' = [call EXCEPT ![t] = c]
    BY <1>2 DEF CallGetMac, Call, PCs
  <2> HIDE DEF c
  <2>2. UNCHANGED <<users, id_of, mac_of, started, mutex>>
    BY <1>2 DEF CallGetMac, db
  <2>3. (TypeOK /\ CacheSound /\ UsersInjective)'
    BY <2>1, <2>2 DEF TypeOK, CacheSound, UsersInjective
  <2>4. CallSound'
    BY <2>1, <2>2 DEF TypeOK, CallSound
  <2>5. CallShape'
    BY <2>1 DEF TypeOK, CallShape
  <2> QED BY <2>3, <2>4, <2>5
<1>3. ASSUME NEW t \in Threads, Lock(t) PROVE Inv'
  BY <1>3 DEF Lock, Goto, At, TypeOK, CacheSound, UsersInjective, CallSound, CallShape,
              Call, PCs, db
<1>4. ASSUME NEW t \in Threads, UserMapInit(t) PROVE Inv'
  <2>1. TypeOK'
    BY <1>4 DEF UserMapInit, Goto, At, TypeOK, Call, PCs, db
  <2>2. (CacheSound /\ UsersInjective /\ CallSound /\ CallShape)'
    BY <1>4 DEF UserMapInit, Goto, At, TypeOK, CacheSound, UsersInjective, CallSound,
                CallShape, Call, PCs, db
  <2> QED BY <2>1, <2>2
<1>5. ASSUME NEW t \in Threads, ReadId(t) PROVE Inv'
  BY <1>5 DEF ReadId, At, TypeOK, CacheSound, UsersInjective, CallSound, CallShape,
              Call, PCs, db
<1>6. ASSUME NEW t \in Threads, AddUserAnswered(t) PROVE Inv'
  <2>1. PICK i \in Ids : /\ AddUserRow(call[t].mac, i)
                         /\ call' = [call EXCEPT ![t].id = i, ![t].pc = "set_id"]
    BY <1>6 DEF AddUserAnswered
  <2>2. call[t].mac \in Macs /\ call[t].op = "get_id"
    BY <1>6 DEF AddUserAnswered, At, CallShape
  <2>3. /\ users' \in [Macs -> Ids \cup {0}]
        /\ UsersInjective'
        /\ users'[call[t].mac] = i
        /\ \A n \in Macs : users[n] # 0 => users'[n] = users[n]
    BY <2>1, <2>2, AddUserGrows
  <2>4. CacheSound' /\ CallSound'
    BY <1>6, <2>1, <2>3, GrowthKeeps DEF AddUserAnswered, CallSound, TypeOK, Call
  <2>5. TypeOK' /\ CallShape'
    BY <1>6, <2>1, <2>2, <2>3 DEF AddUserAnswered, At, TypeOK, CallShape, Call, PCs
  <2> QED BY <2>3, <2>4, <2>5
<1>7. ASSUME NEW t \in Threads, AddUserSilent(t) PROVE Inv'
  <2>1. call[t].mac \in Macs /\ call[t].op = "get_id" /\ call[t].id = 0
        /\ call[t].tries + 1 \in 0..MaxTries
    BY <1>7 DEF AddUserSilent, At, TypeOK, Call, CallShape
  <2>2. /\ users' \in [Macs -> Ids \cup {0}]
        /\ UsersInjective'
        /\ \A n \in Macs : users[n] # 0 => users'[n] = users[n]
    <3>1. CASE UNCHANGED users
      BY <3>1 DEF TypeOK, UsersInjective
    <3>2. CASE \E i \in Ids : AddUserRow(call[t].mac, i)
      BY <3>2, <2>1, AddUserGrows
    <3> QED BY <1>7, <3>1, <3>2 DEF AddUserSilent
  <2>3. CacheSound' /\ CallSound'
    BY <1>7, <2>1, <2>2, GrowthKeeps DEF AddUserSilent, CallSound, TypeOK, Call
  <2>4. TypeOK'
    <3>1. call' \in [Threads -> Call]
      <4>1. PICK loc \in PCs :
               call' = [call EXCEPT ![t].tries = @ + 1, ![t].pc = loc]
        BY <1>7 DEF AddUserSilent, PCs
      <4> DEFINE c == [call[t] EXCEPT !.tries = @ + 1, !.pc = loc]
      <4>2. c \in Call
        <5>1. call[t] \in Call
          BY DEF TypeOK
        <5> QED BY <2>1, <5>1 DEF Call
      <4>3. call' = [call EXCEPT ![t] = c]
        BY <4>1
      <4> QED BY <4>2, <4>3 DEF TypeOK
    <3> QED BY <1>7, <2>2, <3>1 DEF AddUserSilent, TypeOK
  <2>5. CallShape'
    BY <1>7, <2>1 DEF AddUserSilent, At, TypeOK, CallShape, Call, PCs
  <2> QED BY <2>2, <2>3, <2>4, <2>5
<1>8. ASSUME NEW t \in Threads, Unlock(t) PROVE Inv'
  BY <1>8 DEF Unlock, Goto, At, TypeOK, CacheSound, UsersInjective, CallSound, CallShape,
              Call, PCs, db
<1>9. ASSUME NEW t \in Threads, ReadMac(t) PROVE Inv'
  BY <1>9 DEF ReadMac, At, TypeOK, CacheSound, UsersInjective, CallSound, CallShape,
              Call, PCs, db
<1>10. ASSUME NEW t \in Threads, QueryMac(t) PROVE Inv'
  BY <1>10 DEF QueryMac, At, TypeOK, CacheSound, UsersInjective, CallSound, CallShape,
               Call, PCs, db
<1>11. ASSUME NEW t \in Threads, SetId(t) PROVE Inv'
  BY <1>11 DEF SetId, Goto, At, TypeOK, CacheSound, UsersInjective, CallSound, CallShape,
               Call, PCs
<1>12. ASSUME NEW t \in Threads, SetMac(t) PROVE Inv'
  <2>1. call[t].mac \in Macs /\ call[t].id \in Ids /\ users[call[t].mac] = call[t].id
    BY <1>12 DEF SetMac, At, CallShape, CallSound
  <2>2. mac_of' \in [Ids -> Macs \cup {NoMac}] /\ CacheSound'
    BY <1>12, <2>1 DEF SetMac, TypeOK, CacheSound
  <2>4. TypeOK'
    <3>1. PICK loc \in PCs : call' = [call EXCEPT ![t].pc = loc]
      BY <1>12 DEF SetMac, Goto, PCs
    <3>2. call' \in [Threads -> Call]
      BY <3>1 DEF TypeOK, Call
    <3> QED BY <1>12, <2>2, <3>2 DEF SetMac, TypeOK
  <2>3. (UsersInjective /\ CallSound /\ CallShape)'
    BY <1>12, <2>1 DEF SetMac, Goto, At, TypeOK, UsersInjective, CallSound, CallShape, Call, PCs
  <2> QED BY <2>2, <2>3, <2>4
<1>13. ASSUME NEW p \in Procs, Crash(p) PROVE Inv'
  BY <1>13 DEF Crash, NoCall, TypeOK, CacheSound, UsersInjective, CallSound, CallShape,
               Call, PCs, db
<1>14. ASSUME NEW m \in Macs, ForgetId(m) PROVE Inv'
  BY <1>14 DEF ForgetId, TypeOK, CacheSound, UsersInjective, CallSound, CallShape
<1>15. ASSUME NEW i \in Ids, ForgetMac(i) PROVE Inv'
  BY <1>15 DEF ForgetMac, TypeOK, CacheSound, UsersInjective, CallSound, CallShape
<1>16. CASE UNCHANGED vars
  BY <1>16 DEF vars, TypeOK, CacheSound, UsersInjective, CallSound, CallShape
<1> QED
  BY <1>1, <1>2, <1>3, <1>4, <1>5, <1>6, <1>7, <1>8, <1>9, <1>10, <1>11, <1>12, <1>13,
     <1>14, <1>15, <1>16 DEF Next, Step

\* The lock part: it only matters between threads of one process, which the
\* process has started before they run, so that UserMapInit frees no mutex.
LEMMA NextMutex ==
    ASSUME IInv, [Next]_vars
    PROVE  MutexSound'
<1> USE ProcOfType, ThreadsAreWarm DEF IInv
<1>1. ASSUME NEW t \in Threads, NEW m \in Macs, CallGetId(t, m) PROVE MutexSound'
  BY <1>1 DEF CallGetId, TypeOK, MutexSound, ConnectionNotShared, UsesConnection, At, Siblings
<1>2. ASSUME NEW t \in Threads, NEW i \in Ids, CallGetMac(t, i) PROVE MutexSound'
  BY <1>2 DEF CallGetMac, TypeOK, MutexSound, ConnectionNotShared, UsesConnection, At, Siblings
<1>3. ASSUME NEW t \in Threads, Lock(t) PROVE MutexSound'
  BY <1>3 DEF Lock, Goto, TypeOK, MutexSound, ConnectionNotShared, UsesConnection, At,
              Siblings, CallShape, Call
<1>4. ASSUME NEW t \in Threads, UserMapInit(t) PROVE MutexSound'
  BY <1>4 DEF UserMapInit, Goto, TypeOK, MutexSound, ConnectionNotShared, UsesConnection, At,
              Siblings, CallShape, Call
<1>5. ASSUME NEW t \in Threads,
             ReadId(t) \/ AddUserAnswered(t) \/ AddUserSilent(t) \/ ReadMac(t)
                \/ QueryMac(t) \/ SetId(t)
      PROVE  MutexSound'
  <2>1. /\ UNCHANGED <<mutex, started>>
        /\ UsesConnection(t)
        /\ \A s \in Threads \ {t} : call'[s] = call[s]
        /\ call'[t].op = call[t].op
        /\ call[t].op = "get_id" => call'[t].pc # "idle"
    <3>1. CASE ReadId(t)
      BY <3>1 DEF ReadId, TypeOK, UsesConnection, At, Call
    <3>2. CASE AddUserAnswered(t)
      BY <3>2 DEF AddUserAnswered, TypeOK, UsesConnection, At, Call
    <3>3. CASE AddUserSilent(t)
      BY <3>3 DEF AddUserSilent, TypeOK, UsesConnection, At, Call
    <3>4. CASE ReadMac(t)
      BY <3>4 DEF ReadMac, TypeOK, UsesConnection, At, Call, CallShape
    <3>5. CASE QueryMac(t)
      BY <3>5 DEF QueryMac, TypeOK, UsesConnection, At, Call, CallShape
    <3>6. CASE SetId(t)
      BY <3>6 DEF SetId, Goto, TypeOK, UsesConnection, At, Call
    <3> QED BY <1>5, <3>1, <3>2, <3>3, <3>4, <3>5, <3>6
  <2> QED
    BY <2>1 DEF MutexSound, ConnectionNotShared, UsesConnection, At, Siblings
<1>6. ASSUME NEW t \in Threads, SetMac(t) PROVE MutexSound'
  BY <1>6 DEF SetMac, Goto, TypeOK, MutexSound, ConnectionNotShared, UsesConnection, At,
              Siblings, Call
<1>7. ASSUME NEW t \in Threads, Unlock(t) PROVE MutexSound'
  BY <1>7 DEF Unlock, Goto, TypeOK, MutexSound, ConnectionNotShared, UsesConnection, At,
              Siblings, CallShape, Call
<1>8. ASSUME NEW p \in Procs, Crash(p) PROVE MutexSound'
  BY <1>8 DEF Crash, NoCall, TypeOK, MutexSound, ConnectionNotShared, UsesConnection, At,
              Siblings
<1>9. CASE (\E m \in Macs : ForgetId(m)) \/ (\E i \in Ids : ForgetMac(i)) \/ UNCHANGED vars
  BY <1>9 DEF ForgetId, ForgetMac, vars, MutexSound, ConnectionNotShared, UsesConnection, At,
              Siblings
<1> QED
  BY <1>1, <1>2, <1>3, <1>4, <1>5, <1>6, <1>7, <1>8, <1>9 DEF Next, Step

\* IInv holds in every reachable state.
THEOREM Invariance == Spec => []IInv
<1>1. IInv /\ [Next]_vars => IInv'
  BY NextDb, NextMutex DEF IInv
<1> QED
  BY InitIInv, <1>1, PTL DEF Spec

\* Type correctness, the number of attempts included.
THEOREM TypeCorrect == Spec => []TypeOK
  BY Invariance, PTL DEF IInv

\* The two cache keys never contradict the users table (user_map.cpp:536-549
\* and 590-600), for any number of processes filling and losing them.
THEOREM CachesAreSound == Spec => []CacheSound
  BY Invariance, PTL DEF IInv

\* Any two answered calls agree on which mac goes with which id
\* (test/user_map_test.cpp:111-124), in any processes.
THEOREM AnswersAlwaysAgree == Spec => []AnswersAgree
<1>1. IInv => AnswersAgree
  BY IdsPositive DEF IInv, TypeOK, Call, CallSound, UsersInjective, AnswersAgree, Answered
<1> QED
  BY Invariance, <1>1, PTL

\* Two threads of one process never use its connection at the same time.
THEOREM ConnectionExclusive == Spec => []ConnectionNotShared
  BY Invariance, PTL DEF IInv, MutexSound

---------------------------------------------------------------------------
(* Every step is a step of the register, or none.                          *)

\* A call of user_get_mac that ends with a row of the table, or with nothing,
\* answers its question.
LEMMA MacAnswered ==
    ASSUME TypeOK, NEW t \in Threads, ~At(t, "idle"), call[t].op = "get_mac",
           NEW m \in {NoMac} \cup {n \in Macs : users[n] = call[t].id},
           call' = [call EXCEPT ![t].mac = m, ![t].pc = "idle"],
           UNCHANGED users
    PROVE  Registry!AnswerMac(t)
<1> DEFINE client == [s \in Threads |-> Client(call[s])]
           answered == [client[t] EXCEPT !.open = FALSE, !.mac = m]
<1>1. client[t].open /\ client[t].op = "get_mac" /\ client[t].id = call[t].id
  BY DEF At, Client
<1>2. Client(call'[t]) = answered
  BY DEF At, TypeOK, Call, Client
<1>3. \A s \in Threads \ {t} : call'[s] = call[s]
  BY DEF TypeOK
<1>4. client' = [client EXCEPT ![t] = answered]
  <2>1. \A s \in Threads \ {t} : Client(call'[s]) = Client(call[s])
    BY <1>3
  <2> QED BY <1>2, <2>1
<1> QED
  BY <1>1, <1>4 DEF Registry!AnswerMac

\* Each step of the caches' protocol is a step of the register, or invisible.
LEMMA StepImplements ==
    ASSUME IInv, [Next]_vars
    PROVE  [Registry!RegistryNext]_(Registry!registryVars)
<1> DEFINE client == [s \in Threads |-> Client(call[s])]
           Same == UNCHANGED users /\ client' = client
           Goal == [Registry!RegistryNext]_(Registry!registryVars)
<1> USE DEF IInv
<1>0. Same => Goal
  BY DEF Registry!registryVars
<1>1. ASSUME NEW t \in Threads, NEW m \in Macs, CallGetId(t, m) PROVE Goal
  <2>1. Registry!AskId(t, m)
    BY <1>1 DEF CallGetId, At, TypeOK, Client, Registry!AskId, db
  <2> QED BY <2>1 DEF Registry!RegistryNext
<1>2. ASSUME NEW t \in Threads, NEW i \in Ids, CallGetMac(t, i) PROVE Goal
  <2>1. Registry!AskMac(t, i)
    BY <1>2 DEF CallGetMac, At, TypeOK, Client, Registry!AskMac, db
  <2> QED BY <2>1 DEF Registry!RegistryNext
<1>3. ASSUME NEW t \in Threads, Lock(t) \/ UserMapInit(t) PROVE Goal
  <2>1. PICK loc \in PCs : loc # "idle" /\ call' = [call EXCEPT ![t].pc = loc]
    BY <1>3 DEF Lock, UserMapInit, Goto, PCs
  <2>2. ~At(t, "idle") /\ UNCHANGED users
    BY <1>3 DEF Lock, UserMapInit, At, db
  <2>3. client' = client
    BY <2>1, <2>2 DEF TypeOK, Call, Client, At
  <2> QED BY <2>2, <2>3, <1>0
<1>4. ASSUME NEW t \in Threads, ReadId(t) PROVE Goal
  <2>1. call[t].op = "get_id"
    BY <1>4 DEF ReadId, At, CallShape
  <2>2. client' = client /\ UNCHANGED users
    BY <1>4, <2>1 DEF ReadId, At, TypeOK, Call, Client, db
  <2> QED BY <2>2, <1>0
<1>5. ASSUME NEW t \in Threads, AddUserAnswered(t) \/ AddUserSilent(t) PROVE Goal
  <2>1. call[t].op = "get_id" /\ call[t].mac \in Macs /\ ~At(t, "idle")
    BY <1>5 DEF AddUserAnswered, AddUserSilent, At, CallShape
  <2>2. client' = client
    <3>1. CASE AddUserAnswered(t)
      BY <3>1, <2>1 DEF AddUserAnswered, At, TypeOK, Call, Client
    <3>2. CASE AddUserSilent(t)
      BY <3>2, <2>1 DEF AddUserSilent, At, TypeOK, Call, Client
    <3> QED BY <1>5, <3>1, <3>2
  <2>3. CASE UNCHANGED users
    BY <2>2, <2>3, <1>0
  <2>4. CASE users' # users
    <3>1. PICK i \in Ids : AddUserRow(call[t].mac, i)
      BY <1>5, <2>4 DEF AddUserAnswered, AddUserSilent
    <3>2. /\ users[call[t].mac] = 0
          /\ \A n \in Macs : users[n] # i
          /\ users' = [users EXCEPT ![call[t].mac] = i]
      BY <3>1, <2>1, <2>4 DEF AddUserRow, TypeOK
    <3>3. client[t].open /\ client[t].op = "get_id" /\ client[t].mac = call[t].mac
      BY <2>1 DEF Client, At
    <3>4. Registry!Register(call[t].mac, i)
      BY <3>2, <3>3, <2>2 DEF Registry!Register
    <3> QED BY <3>4, <2>1 DEF Registry!RegistryNext
  <2> QED BY <2>3, <2>4
<1>6. ASSUME NEW t \in Threads, Unlock(t) PROVE Goal
  <2>1. call[t].op = "get_id" /\ call[t].mac \in Macs /\ call[t].mac # NoMac
    BY <1>6, NoMacIsNoMac DEF Unlock, At, CallShape
  <2>2. call[t].id \in {0, users[call[t].mac]}
    BY <2>1 DEF CallSound
  <2>3. Registry!AnswerId(t)
    BY <1>6, <2>1, <2>2, ZenonT(60)
       DEF Unlock, Goto, At, TypeOK, Call, Client, Registry!AnswerId, db
  <2> QED BY <2>3 DEF Registry!RegistryNext
<1>7. ASSUME NEW t \in Threads, ReadMac(t) PROVE Goal
  <2>1. call[t].op = "get_mac" /\ call[t].id \in Ids /\ call[t].mac = NoMac
    BY <1>7 DEF ReadMac, At, CallShape
  <2>2. PICK m \in {NoMac, mac_of[call[t].id]} :
           call' = [call EXCEPT ![t].mac = m,
                                ![t].pc = IF m = NoMac THEN "query_mac" ELSE "idle"]
    BY <1>7 DEF ReadMac
  <2>3. CASE m = NoMac
    <3>1. client' = client /\ UNCHANGED users
      BY <1>7, <2>1, <2>2, <2>3 DEF ReadMac, At, TypeOK, Call, Client, db
    <3> QED BY <3>1, <1>0
  <2>4. CASE m # NoMac
    <3>1. m \in {n \in Macs : users[n] = call[t].id}
      BY <2>1, <2>2, <2>4 DEF TypeOK, CacheSound
    <3>2. Registry!AnswerMac(t)
      BY <1>7, <2>1, <2>2, <2>4, <3>1, MacAnswered DEF ReadMac, At, db
    <3> QED BY <3>2 DEF Registry!RegistryNext
  <2> QED BY <2>3, <2>4
<1>8. ASSUME NEW t \in Threads, QueryMac(t) PROVE Goal
  <2>1. call[t].op = "get_mac" /\ call[t].id \in Ids /\ call[t].mac = NoMac
    BY <1>8 DEF QueryMac, At, CallShape
  <2>2. PICK m \in {NoMac} \cup {n \in Macs : users[n] = call[t].id} :
           call' = [call EXCEPT ![t].mac = m,
                                ![t].pc = IF m = NoMac THEN "idle" ELSE "set_id"]
    BY <1>8 DEF QueryMac
  <2>3. CASE m = NoMac
    <3>1. Registry!AnswerMac(t)
      BY <1>8, <2>1, <2>2, <2>3, MacAnswered DEF QueryMac, At, db
    <3> QED BY <3>1 DEF Registry!RegistryNext
  <2>4. CASE m # NoMac
    <3>1. client' = client /\ UNCHANGED users
      BY <1>8, <2>1, <2>2, <2>4 DEF QueryMac, At, TypeOK, Call, Client, db
    <3> QED BY <3>1, <1>0
  <2> QED BY <2>3, <2>4
<1>9. ASSUME NEW t \in Threads, SetId(t) PROVE Goal
  <2>1. client' = client /\ UNCHANGED users
    BY <1>9 DEF SetId, Goto, At, TypeOK, Call, Client
  <2> QED BY <2>1, <1>0
<1>10. ASSUME NEW t \in Threads, SetMac(t) PROVE Goal
  <2>1. call[t].op \in {"get_id", "get_mac"} /\ call[t].mac \in Macs /\ call[t].id \in Ids
        /\ users[call[t].mac] = call[t].id
    BY <1>10, IdsPositive, NoMacIsNoMac DEF SetMac, At, TypeOK, Call, CallShape, CallSound
  <2>2. CASE call[t].op = "get_id"
    <3>1. client' = client /\ UNCHANGED users
      BY <1>10, <2>2 DEF SetMac, Goto, At, TypeOK, Call, Client
    <3> QED BY <3>1, <1>0
  <2>3. CASE call[t].op = "get_mac"
    <3>1. Registry!AnswerMac(t)
      <4>1. call' = [call EXCEPT ![t].mac = call[t].mac, ![t].pc = "idle"]
        BY <1>10, <2>3 DEF SetMac, Goto, TypeOK, Call
      <4> QED BY <1>10, <2>1, <2>3, <4>1, MacAnswered DEF SetMac, At
    <3> QED BY <3>1 DEF Registry!RegistryNext
  <2> QED BY <2>1, <2>2, <2>3
<1>11. ASSUME NEW p \in Procs, Crash(p) PROVE Goal
  <2> DEFINE S == {t \in Threads : ProcOf[t] = p}
  <2>1. Registry!Abandon(S)
    BY <1>11 DEF Crash, NoCall, Client, Registry!Abandon, Registry!NoClient, db
  <2> QED BY <2>1 DEF Registry!RegistryNext
<1>12. CASE (\E m \in Macs : ForgetId(m)) \/ (\E i \in Ids : ForgetMac(i)) \/ UNCHANGED vars
  <2>1. UNCHANGED <<call, users>>
    BY <1>12 DEF ForgetId, ForgetMac, vars
  <2> QED BY <2>1, <1>0
<1> QED
  BY <1>1, <1>2, <1>3, <1>4, <1>5, <1>6, <1>7, <1>8, <1>9, <1>10, <1>11, <1>12
     DEF Next, Step

\* Callers, in any number of processes, see the one-step register.
THEOREM Refinement == Spec => ImplementsRegistry
<1>1. Init => Registry!RegistryInit
  <2>1. Client(NoCall) = Registry!NoClient
    BY DEF NoCall, Client, Registry!NoClient
  <2> QED
    BY <2>1 DEF Init, Registry!RegistryInit
<1>2. IInv /\ [Next]_vars => [Registry!RegistryNext]_(Registry!registryVars)
  BY StepImplements
<1> QED
  BY Invariance, <1>1, <1>2, PTL DEF Spec, ImplementsRegistry, Registry!RegistrySpec

---------------------------------------------------------------------------
(* Answers given at different times.                                       *)

\* A finished call has answered that mac m goes with id i.
Told(m, i) == \E t \in Threads : Answered(t) /\ call[t].mac = m /\ call[t].id = i

\* A finished call that speaks of m or of i pairs the two.
Kept(m, i) == \A t \in Threads : Answered(t) => (call[t].mac = m <=> call[t].id = i)

\* No step takes a row from the table or changes its id.
LEMMA RowStays ==
    ASSUME IInv, [Next]_vars,
           NEW m \in Macs, NEW i \in Ids, users[m] = i
    PROVE  users'[m] = i
<1>0. i # 0
  BY IdsPositive
<1>1. CASE UNCHANGED users
  BY <1>1
<1>2. ASSUME NEW t \in Threads, AddUserAnswered(t) \/ AddUserSilent(t)
      PROVE  users'[m] = i
  <2>1. call[t].mac \in Macs
    BY <1>2 DEF AddUserAnswered, AddUserSilent, At, IInv, CallShape
  <2>2. UNCHANGED users \/ \E k \in Ids : AddUserRow(call[t].mac, k)
    BY <1>2 DEF AddUserAnswered, AddUserSilent
  <2> QED BY <1>0, <2>1, <2>2, AddUserGrows DEF IInv
<1> QED
  BY <1>1, <1>2 DEF Next, Step, vars, db, CallGetId, CallGetMac, Lock, UserMapInit, ReadId,
     Unlock, Goto, ReadMac, QueryMac, SetId, SetMac, Crash, ForgetId, ForgetMac

\* "One id per mac for ever": once any caller has been told a pair of mac and
\* id, no later call in any process, after any crashes and losses of cache
\* keys, is told that mac with another id, or that id with another mac
\* (user_map.cpp:520-604).
THEOREM AnswersAreForEver ==
    ASSUME NEW m \in Macs, NEW i \in Ids
    PROVE  Spec => [](Told(m, i) => []Kept(m, i))
<1> DEFINE Row == users[m] = i
<1>1. IInv /\ Told(m, i) => Row
  BY DEF IInv, CallSound, Told, Answered
<1>2. IInv /\ Row => Kept(m, i)
  BY IdsPositive DEF IInv, TypeOK, Call, CallSound, UsersInjective, Kept, Answered
<1>3. IInv /\ Row /\ [Next]_vars => Row'
  BY RowStays DEF IInv
<1> HIDE DEF Row
<1> QED
  BY Invariance, <1>1, <1>2, <1>3, PTL DEF Spec
=============================================================================
