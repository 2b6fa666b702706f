--------------------------- MODULE UserIdentity ---------------------------
(***************************************************************************)
(* user_get_id and user_get_mac of user_map.cpp, as run by every process   *)
(* that links user_map: the FastCGI workers (restart_fastcgi.sh starts 20  *)
(* user_op and 10 ad_op, each single-threaded), the message receivers, and *)
(* the unit test that calls user_get_id from five threads of one process.  *)
(*                                                                         *)
(* The users table of PostgreSQL is the only authority.  Two keys of the   *)
(* memory database cache it, "mac:M:user.id" and "user:I:mac"; they are    *)
(* read, filled and lost without any transaction.  One step of a thread is *)
(* one round trip to one of the two databases.                             *)
(***************************************************************************)
EXTENDS Naturals

CONSTANTS
    Macs,       \* mac addresses the callers use (never 0, the miss value)
    Ids,        \* ids add_user can return
    Threads,    \* callers
    Procs,      \* processes
    ProcOf,     \* ProcOf[t]: the process of thread t
    Warm,       \* processes that run user_map_init before any call: main of
                \* user_op and ad_op, SetUp of the test fixture.  The three
                \* message receivers leave it to their first call.
    MaxTries,   \* attempts of the add_user loop, 10 in the code
    NoMac       \* mac 0: "not exist" (user_map.h:36)

ASSUME IdsPositive == Ids \subseteq Nat \ {0}
ASSUME NoMacIsNoMac == NoMac \notin Macs
ASSUME TriesPositive == MaxTries \in Nat \ {0}
ASSUME ProcOfType == ProcOf \in [Threads -> Procs]
\* Only the unit test calls from several threads, and its fixture has run
\* user_map_init before it creates them.
ASSUME ThreadsAreWarm ==
    \A s, t \in Threads : s # t /\ ProcOf[s] = ProcOf[t] => ProcOf[s] \in Warm

VARIABLES
    users,      \* PostgreSQL: users[m] is the id of the row of mac m, 0: no row
    id_of,      \* "mac:M:user.id" in the memory database, 0: absent
    mac_of,     \* "user:I:mac" in the memory database, NoMac: absent
    started,    \* b_started of user_map_init, per process
    mutex,      \* the pthread mutex of the process is locked
    call        \* the call a thread runs, or the last one it finished

db == <<users, id_of, mac_of>>
vars == <<users, id_of, mac_of, started, mutex, call>>

PCs == {"idle", "lock", "init", "read_id", "add_user", "read_mac",
        "query_mac", "set_id", "set_mac", "unlock"}

Call == [pc : PCs, op : {"none", "get_id", "get_mac"},
         mac : Macs \cup {NoMac}, id : Ids \cup {0}, tries : 0..MaxTries]

NoCall == [pc |-> "idle", op |-> "none", mac |-> NoMac, id |-> 0, tries |-> 0]

Init ==
    /\ users = [m \in Macs |-> 0]
    /\ id_of = [m \in Macs |-> 0]
    /\ mac_of = [i \in Ids |-> NoMac]
    /\ started = [p \in Procs |-> p \in Warm]
    /\ mutex = [p \in Procs |-> FALSE]
    /\ call = [t \in Threads |-> NoCall]

At(t, loc) == call[t].pc = loc
Goto(t, loc) == call' = [call EXCEPT ![t].pc = loc]

Siblings(t) == {s \in Threads \ {t} : ProcOf[s] = ProcOf[t]}

---------------------------------------------------------------------------
(* The calls.  user_get_mac takes no lock, so a program with several       *)
(* threads only calls it while no other thread runs: the test joins its    *)
(* threads first.                                                          *)

CallGetId(t, m) ==
    /\ At(t, "idle")
    /\ \A s \in Siblings(t) : At(s, "idle") \/ call[s].op = "get_id"
    /\ call' = [call EXCEPT ![t] =
                   [pc |-> "lock", op |-> "get_id", mac |-> m, id |-> 0, tries |-> 0]]
    /\ UNCHANGED <<db, started, mutex>>

CallGetMac(t, i) ==
    /\ At(t, "idle")
    /\ \A s \in Siblings(t) : At(s, "idle")
    /\ call' = [call EXCEPT ![t] =
                   [pc |-> "init", op |-> "get_mac", mac |-> NoMac, id |-> i, tries |-> 0]]
    /\ UNCHANGED <<db, started, mutex>>

\* Fault: the result of the lock is not waited for.
LockNoWait(t) ==
    /\ At(t, "lock")
    /\ mutex' = [mutex EXCEPT ![ProcOf[t]] = TRUE]
    /\ Goto(t, "init")
    /\ UNCHANGED <<db, started>>

\* pthread_mutex_lock is the first thing user_get_id does, before
\* user_map_init has initialised the mutex.
Lock(t) ==
    /\ At(t, "lock")
    /\ ~mutex[ProcOf[t]]
    /\ mutex' = [mutex EXCEPT ![ProcOf[t]] = TRUE]
    /\ Goto(t, "init")
    /\ UNCHANGED <<db, started>>

\* user_map_init; the first call of a process also initialises the mutex,
\* which frees it in the hands of a caller inside user_get_id.
UserMapInit(t) ==
    /\ At(t, "init")
    /\ Goto(t, IF call[t].op = "get_id" THEN "read_id" ELSE "read_mac")
    /\ started' = [started EXCEPT ![ProcOf[t]] = TRUE]
    /\ mutex' = [mutex EXCEPT ![ProcOf[t]] = @ /\ started[ProcOf[t]]]
    /\ UNCHANGED db

---------------------------------------------------------------------------
(* user_get_id.                                                            *)

\* A read that fails gives the default value: it looks like a miss.
ReadId(t) ==
    /\ At(t, "read_id")
    /\ \E i \in {0, id_of[call[t].mac]} :
          call' = [call EXCEPT ![t].id = i,
                               ![t].pc = IF i = 0 THEN "add_user" ELSE "unlock"]
    /\ UNCHANGED <<db, started, mutex>>

\* PostgreSQL's add_user, in a serializable transaction: the row of m, made
\* if there is none, under an id no row has.
AddUserRow(m, i) ==
    /\ IF users[m] # 0 THEN i = users[m] ELSE \A n \in Macs : users[n] # i
    /\ users' = [users EXCEPT ![m] = i]

\* Fault: the answer is taken although the transaction did not commit (the
\* "grep COMMIT" of add_user_sql is dropped).
AddUserUncommitted(t) ==
    /\ At(t, "add_user")
    /\ \E i \in Ids :
          /\ AddUserRow(call[t].mac, i) \/ UNCHANGED users
          /\ call' = [call EXCEPT ![t].id = i, ![t].pc = "set_id"]
    /\ UNCHANGED <<id_of, mac_of, started, mutex>>

\* An attempt that committed and whose output reached exec().
AddUserAnswered(t) ==
    /\ At(t, "add_user")
    /\ \E i \in Ids :
          /\ AddUserRow(call[t].mac, i)
          /\ call' = [call EXCEPT ![t].id = i, ![t].pc = "set_id"]
    /\ UNCHANGED <<id_of, mac_of, started, mutex>>

\* Fault: one attempt too many.
AddUserOneMore(t) ==
    /\ At(t, "add_user")
    /\ UNCHANGED users \/ \E i \in Ids : AddUserRow(call[t].mac, i)
    /\ call' = [call EXCEPT ![t].tries = @ + 1,
                            ![t].pc = IF call[t].tries < MaxTries THEN "add_user" ELSE "unlock"]
    /\ UNCHANGED <<id_of, mac_of, started, mutex>>

\* Fault: an early return after the last attempt leaves the mutex locked.
AddUserKeepsLock(t) ==
    /\ At(t, "add_user")
    /\ UNCHANGED users \/ \E i \in Ids : AddUserRow(call[t].mac, i)
    /\ call' = [call EXCEPT ![t].tries = @ + 1,
                            ![t].pc = IF call[t].tries + 1 < MaxTries THEN "add_user"
                                                                       ELSE "idle"]
    /\ UNCHANGED <<id_of, mac_of, started, mutex>>

\* An attempt exec() returns nothing for: the transaction did not run or was
\* rolled back, or it committed and the answer was lost.
AddUserSilent(t) ==
    /\ At(t, "add_user")
    /\ UNCHANGED users \/ \E i \in Ids : AddUserRow(call[t].mac, i)
    /\ call' = [call EXCEPT ![t].tries = @ + 1,
                            ![t].pc = IF call[t].tries + 1 < MaxTries THEN "add_user"
                                                                       ELSE "unlock"]
    /\ UNCHANGED <<id_of, mac_of, started, mutex>>

Unlock(t) ==
    /\ At(t, "unlock")
    /\ mutex' = [mutex EXCEPT ![ProcOf[t]] = FALSE]
    /\ Goto(t, "idle")
    /\ UNCHANGED <<db, started>>

---------------------------------------------------------------------------
(* user_get_mac.                                                           *)

ReadMac(t) ==
    /\ At(t, "read_mac")
    /\ \E m \in {NoMac, mac_of[call[t].id]} :
          call' = [call EXCEPT ![t].mac = m,
                               ![t].pc = IF m = NoMac THEN "query_mac" ELSE "idle"]
    /\ UNCHANGED <<db, started, mutex>>

\* Fault: the query is not restricted to the id.
QueryMacAnyRow(t) ==
    /\ At(t, "query_mac")
    /\ \E m \in {NoMac} \cup {n \in Macs : users[n] # 0} :
          call' = [call EXCEPT ![t].mac = m,
                               ![t].pc = IF m = NoMac THEN "idle" ELSE "set_id"]
    /\ UNCHANGED <<db, started, mutex>>

\* The row with that id, or nothing: no such row, or psql failed.
QueryMac(t) ==
    /\ At(t, "query_mac")
    /\ \E m \in {NoMac} \cup {n \in Macs : users[n] = call[t].id} :
          call' = [call EXCEPT ![t].mac = m,
                               ![t].pc = IF m = NoMac THEN "idle" ELSE "set_id"]
    /\ UNCHANGED <<db, started, mutex>>

---------------------------------------------------------------------------
(* Both functions fill the two caches in this order, and neither looks at  *)
(* the result of set, which does nothing when the connection is down.      *)

SetId(t) ==
    /\ At(t, "set_id")
    /\ UNCHANGED id_of \/ id_of' = [id_of EXCEPT ![call[t].mac] = call[t].id]
    /\ Goto(t, "set_mac")
    /\ UNCHANGED <<users, mac_of, started, mutex>>

SetMac(t) ==
    /\ At(t, "set_mac")
    /\ UNCHANGED mac_of \/ mac_of' = [mac_of EXCEPT ![call[t].id] = call[t].mac]
    /\ Goto(t, IF call[t].op = "get_id" THEN "unlock" ELSE "idle")
    /\ UNCHANGED <<users, id_of, started, mutex>>

---------------------------------------------------------------------------
(* The environment.                                                        *)

\* kill -9 of restart_receiver.sh, pkill of restart_fastcgi.sh, or an
\* exception nobody catches (user_map_init throws when PostgreSQL is down).
Crash(p) ==
    /\ started' = [started EXCEPT ![p] = p \in Warm]
    /\ mutex' = [mutex EXCEPT ![p] = FALSE]
    /\ call' = [t \in Threads |-> IF ProcOf[t] = p THEN NoCall ELSE call[t]]
    /\ UNCHANGED db

\* A key leaves the memory database: removeKey, a restart of the server.
ForgetId(m) ==
    /\ id_of[m] # 0
    /\ id_of' = [id_of EXCEPT ![m] = 0]
    /\ UNCHANGED <<users, mac_of, started, mutex, call>>

ForgetMac(i) ==
    /\ mac_of[i] # NoMac
    /\ mac_of' = [mac_of EXCEPT ![i] = NoMac]
    /\ UNCHANGED <<users, id_of, started, mutex, call>>

---------------------------------------------------------------------------
Step(t) ==
    \/ Lock(t) \/ UserMapInit(t)
    \/ ReadId(t) \/ AddUserAnswered(t) \/ AddUserSilent(t) \/ Unlock(t)
    \/ ReadMac(t) \/ QueryMac(t)
    \/ SetId(t) \/ SetMac(t)

Next ==
    \/ \E t \in Threads :
          \/ \E m \in Macs : CallGetId(t, m)
          \/ \E i \in Ids : CallGetMac(t, i)
          \/ Step(t)
    \/ \E p \in Procs : Crash(p)
    \/ \E m \in Macs : ForgetId(m)
    \/ \E i \in Ids : ForgetMac(i)

Spec == Init /\ [][Next]_vars

\* A running thread is scheduled and its round trips end; nothing is assumed
\* of callers, crashes or lost keys.
FairSpec == Spec /\ \A t \in Threads : WF_vars(Step(t))

---------------------------------------------------------------------------
\* Every variable has values of the kind the code stores in it, and a retry
\* is never counted past the bound of its loop.
TypeOK ==
    /\ users \in [Macs -> Ids \cup {0}]
    /\ id_of \in [Macs -> Ids \cup {0}]
    /\ mac_of \in [Ids -> Macs \cup {NoMac}]
    /\ started \in [Procs -> BOOLEAN]
    /\ mutex \in [Procs -> BOOLEAN]
    /\ call \in [Threads -> Call]

\* The two cache keys never contradict the users table, whatever the order of
\* the fills of several processes, their crashes and the losses of keys: a key
\* that is there names the row that is there (user_map.cpp:536-549, 590-600).
CacheSound ==
    /\ \A m \in Macs : id_of[m] # 0 => users[m] = id_of[m]
    /\ \A i \in Ids : mac_of[i] # NoMac => users[mac_of[i]] = i

\* Two finished calls that both got an answer, of either function, in any two
\* processes, agree on which mac goes with which id: what the test expects of
\* its five threads and of the round trip through user_get_mac
\* (test/user_map_test.cpp:111-124).
Answered(t) == At(t, "idle") /\ call[t].mac # NoMac /\ call[t].id # 0

AnswersAgree ==
    \A s, t \in Threads :
        Answered(s) /\ Answered(t) =>
            (call[s].mac = call[t].mac <=> call[s].id = call[t].id)

\* Two threads of one process never use the connection to the memory database
\* (RedisDb keeps the reply in a member) at the same time: the mutex of
\* user_get_id (user_map.cpp:560, 601) really excludes.
UsesConnection(t) ==
    call[t].pc \in {"init", "read_id", "add_user", "read_mac", "query_mac", "set_id", "set_mac", "unlock"}

ConnectionNotShared ==
    \A s, t \in Threads :
        s # t /\ ProcOf[s] = ProcOf[t] => ~(UsesConnection(s) /\ UsesConnection(t))

---------------------------------------------------------------------------
(* The inductive invariant behind the safety properties.                   *)

\* No two rows share an id.
UsersInjective ==
    \A m, n \in Macs : users[m] # 0 /\ users[m] = users[n] => m = n

\* The pair a call carries, running or finished, is a row of the table.
CallSound ==
    \A t \in Threads :
        call[t].mac # NoMac /\ call[t].id # 0 => users[call[t].mac] = call[t].id

\* What a call knows at each point of its function.
CallShape ==
    \A t \in Threads : LET c == call[t] IN
        /\ c.pc # "idle" => c.op # "none"
        /\ c.pc \in {"lock", "read_id", "add_user", "unlock"} => c.op = "get_id"
        /\ c.pc \in {"read_mac", "query_mac"} => c.op = "get_mac"
        /\ c.pc # "idle" /\ c.op = "get_id" => c.mac \in Macs
        /\ c.pc # "idle" /\ c.op = "get_mac" => c.id \in Ids
        /\ c.pc \in {"set_id", "set_mac"} => c.mac \in Macs /\ c.id \in Ids
        /\ c.pc \in {"lock", "init", "read_id", "add_user"} /\ c.op = "get_id" => c.id = 0
        /\ c.pc \in {"init", "read_mac", "query_mac"} /\ c.op = "get_mac" => c.mac = NoMac
        /\ c.pc = "add_user" => c.tries < MaxTries

\* A call of user_get_mac runs alone in its process, and in a process with
\* several threads a call past Lock holds the mutex and is the only one.
MutexSound ==
    /\ \A p \in Warm \cap Procs : started[p]
    /\ \A t \in Threads : ProcOf[t] \in Warm /\ UsesConnection(t) /\ call[t].op = "get_id"
            => mutex[ProcOf[t]]
    /\ \A t \in Threads : ~At(t, "idle") /\ call[t].op = "get_mac" =>
            \A s \in Siblings(t) : At(s, "idle")
    /\ ConnectionNotShared

IInv == TypeOK /\ CacheSound /\ UsersInjective /\ CallSound /\ CallShape /\ MutexSound

---------------------------------------------------------------------------
\* What callers see is the one-step register of IdentityRegistry.
Client(c) ==
    [open |-> c.pc # "idle",
     op   |-> c.op,
     mac  |-> IF c.pc # "idle" /\ c.op = "get_mac" THEN NoMac ELSE c.mac,
     id   |-> IF c.pc # "idle" /\ c.op = "get_id" THEN 0 ELSE c.id]

Registry == INSTANCE IdentityRegistry
                WITH registry <- users, client <- [t \in Threads |-> Client(call[t])]

ImplementsRegistry == Registry!RegistrySpec

\* Every call comes to an end, because the attempts are bounded and the
\* mutex is released on every path, or its process dies.
EveryCallReturns == \A t \in Threads : ~At(t, "idle") ~> At(t, "idle")

\* user_map.h:32 and :36 say of the value zero that it "means not exist".
ZeroMeansNotExist ==
    [][\A t \in Threads :
          ~At(t, "idle") /\ call'[t].pc = "idle" /\ call'[t].op = call[t].op =>
              /\ call[t].op = "get_id" /\ call'[t].id = 0 => users[call[t].mac] = 0
              /\ call[t].op = "get_mac" /\ call'[t].mac = NoMac =>
                     \A m \in Macs : users[m] # call[t].id]_vars
=============================================================================
