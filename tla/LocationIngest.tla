-------------------------- MODULE LocationIngest --------------------------
(***************************************************************************)
(* What happens to a signal that says where a phone is: user_add and       *)
(* user_location_log_add of user_map.cpp (signals "Mac:" of the receiver   *)
(* and requests "add" of user_op) and parse_apmac_msg of                   *)
(* ap_signal_receiver.cpp (signals "ApMac:").  One mall, several           *)
(* processes; a step is one command to a database, which fails with the    *)
(* connection or is refused alone.  A mac is the number that stands for    *)
(* the phone in every key: "ApMac:" may make several of one phone, and     *)
(* each is then a mac of its own.  Coordinates are left out: nothing reads *)
(* them but to show them.                                                  *)
(***************************************************************************)
EXTENDS Integers, FiniteSets

CONSTANTS
    Procs,      \* processes that link user_map
    Macs,       \* numbers of phones
    Ids,        \* user ids, without the 0 of a failed user_get_id
    User,       \* User[m]: the id IdentityRegistry has for m
    Vips,       \* ids whose "user:M:I:is.mall.vip" is set
    Epoch,      \* time(0) at the beginning
    Horizon,    \* bound on the clock
    MaxSignals, \* bound on the number of signals
    MaxFailures,\* bound on the failures
    SliceLen,   \* time_slice of config.ini
    Cap,        \* max_duration_gap of config.ini
    Gap,        \* max_in_shop_gap of config.ini
    Freed       \* what a member of a freed reply can read as, other than its value

ASSUME SomeMac == Macs # {}
ASSUME IdsPositive == Ids \subseteq Nat \ {0}
ASSUME UserType == User \in [Macs -> Ids]
\* add_user gives two macs two ids: IdentityRegistry.
ASSUME UserInjective == \A m, n \in Macs : User[m] = User[n] => m = n
ASSUME ClockType == Epoch \in Nat /\ Horizon \in Nat /\ Epoch <= Horizon
ASSUME GapsType == Cap \in Nat /\ Gap \in Nat /\ SliceLen \in Nat \ {0}
\* The seconds since 1970 are more than any gap or slice.
ASSUME EpochLate == Epoch > Cap /\ Epoch > Gap /\ Epoch >= SliceLen
ASSUME FreedType == Freed \subseteq Nat /\ MaxSignals \in Nat /\ MaxFailures \in Nat

VARIABLES
    clock,      \* time(0)
    time,       \* "location:M:mac:time", 0: absent
    listed,     \* score of mac in "location.update.time:D:M", 0: absent
    counter,    \* "location.log:M:S:counter"
    rows,       \* user_location in PostgreSQL
    registered, \* "location.log:M:data.time.set", as slices
    mac_set,    \* "location.log:M:S:mac.set", as pairs of slice and mac
    log_set,    \* "location.log:M:S:mac:loc.log.set"
    log_prop,   \* "location.log:M:S:id:mac" and its siblings, as ever written
    stay,       \* "user:D:M:I:duration", summed over the days
    arrived,    \* score of I in "user.vip:M:arrive.time", 0: absent
    daily,      \* "mac.set:D:M:daily", over the days
    last,       \* last_date_time_map of the process, 0: empty
    link,       \* the process's connection to the memory database is up
    job,        \* the signal a process works on
    signals,    \* signals so far
    failures,   \* commands refused and connections lost so far
    first,      \* history: the first time user_add has set for mac, 0: none
    slips,      \* history: how often user_add's reading or writing it was refused
    overlap,    \* history: two signals of the mac were worked on at once
    misread,    \* history: signals whose id is not the counter's value
    unregistered\* history: slices that data.time.set refused, or has replaced

entries == <<rows, mac_set, log_set, log_prop>>
slices == <<registered, unregistered, last>>
logs == <<counter, misread, entries, slices>>
places == <<time, listed, first, slips>>
totals == <<stay, arrived, daily>>
env == <<clock, link, signals, overlap>>
vars == <<logs, places, totals, env, failures, job>>

Times == Epoch..Horizon
Slice(t) == t \div SliceLen
Slices == {Slice(t) : t \in Times}

\* A log entry; "sn" is history, the number of the signal it is about.
Entry == [slice : Slices, id : Nat, mac : Macs, sn : 1..MaxSignals]

PCs == {"idle", "read_time", "set_time", "set_listed", "log_id", "row", "slice", "mac_set",
        "log_set", "log_prop", "get_id", "stay", "arrive", "daily"}

\* "was" is history, the time of the mac that this signal has overwritten.
Job == [pc : PCs, op : {"none", "add", "apmac"}, mac : Macs, sn : 0..MaxSignals,
        now : Nat, pre : Nat, was : Nat, id : Nat, user : Ids \cup {0}]

NoJob == [pc |-> "idle", op |-> "none", mac |-> CHOOSE m \in Macs : TRUE, sn |-> 0,
          now |-> 0, pre |-> 0, was |-> 0, id |-> 0, user |-> 0]

Init ==
    /\ clock = Epoch
    /\ time = [m \in Macs |-> 0] /\ listed = [m \in Macs |-> 0]
    /\ counter = [s \in Slices |-> 0]
    /\ rows = {} /\ registered = {} /\ mac_set = {} /\ log_set = {} /\ log_prop = {}
    /\ misread = {} /\ unregistered = {}
    /\ stay = [i \in Ids \cup {0} |-> 0] /\ arrived = [i \in Ids \cup {0} |-> 0]
    /\ daily = {}
    /\ last = [p \in Procs |-> 0]
    /\ link = [p \in Procs |-> TRUE]
    /\ job = [p \in Procs |-> NoJob]
    /\ signals = 0 /\ failures = 0
    /\ first = [m \in Macs |-> 0] /\ slips = [m \in Macs |-> 0]
    /\ overlap = [m \in Macs |-> FALSE]

At(p, loc) == job[p].pc = loc
Goto(p, loc) == job' = [job EXCEPT ![p].pc = loc]

\* A command is done or not: a process without a connection does not send it,
\* and over one that is up the server may refuse it alone.
Refusal(p, done) == link[p] /\ ~done
Sent(p, done) ==
    /\ done => link[p]
    /\ Refusal(p, done) => failures < MaxFailures
    /\ failures' = IF Refusal(p, done) THEN failures + 1 ELSE failures
Put(f, k, v, done) == IF done THEN [f EXCEPT ![k] = v] ELSE f
Join(S, e, done) == IF done THEN S \cup {e} ELSE S
EntryOf(j) == [slice |-> Slice(j.now), id |-> j.id, mac |-> j.mac, sn |-> j.sn]

---------------------------------------------------------------------------
(* Signals.                                                                *)

Signal(p, m, op, loc) ==
    /\ At(p, "idle")
    /\ signals < MaxSignals
    /\ signals' = signals + 1
    /\ overlap' = [overlap EXCEPT ![m] =
                      @ \/ \E q \in Procs : ~At(q, "idle") /\ job[q].mac = m]
    /\ job' = [job EXCEPT ![p] = [NoJob EXCEPT !.pc = loc, !.op = op, !.mac = m,
                                               !.sn = signals + 1, !.now = clock]]
    /\ UNCHANGED <<logs, places, totals, clock, link, failures>>

UserAdd(p, m) == Signal(p, m, "add", "read_time")
ParseApmac(p, m) == Signal(p, m, "apmac", "set_time")

---------------------------------------------------------------------------
(* The place of the mac.                                                   *)

\* Fault: an absent time reads as an error code.
ReadTimeCode(p) ==
    /\ At(p, "read_time")
    /\ \E done \in BOOLEAN : LET m == job[p].mac IN
          /\ Sent(p, done)
          /\ job' = [job EXCEPT ![p].pc = "set_time",
                                ![p].pre = IF done /\ time[m] # 0 THEN time[m] ELSE -1]
          /\ slips' = Put(slips, m, slips[m] + 1, Refusal(p, done))
    /\ UNCHANGED <<time, listed, first, logs, totals, env>>

ReadTime(p) ==
    /\ At(p, "read_time")
    /\ \E done \in BOOLEAN : LET m == job[p].mac IN
          /\ Sent(p, done)
          /\ job' = [job EXCEPT ![p].pc = "set_time", ![p].pre = IF done THEN time[m] ELSE 0]
          /\ slips' = Put(slips, m, slips[m] + 1, Refusal(p, done))
    /\ UNCHANGED <<time, listed, first, logs, totals, env>>

\* tair_set_user_prop, update_mac_location_time.
SetTime(p) ==
    /\ At(p, "set_time")
    /\ \E done \in BOOLEAN : LET j == job[p]  m == j.mac  add == j.op = "add" IN
          /\ Sent(p, done)
          /\ time' = Put(time, m, j.now, done)
          /\ first' = Put(first, m, j.now, done /\ add /\ first[m] = 0)
          /\ slips' = Put(slips, m, slips[m] + 1, Refusal(p, done) /\ add)
          /\ job' = [job EXCEPT ![p].pc = "set_listed", ![p].was = time[m]]
    /\ UNCHANGED <<logs, listed, totals, env>>

\* update_location_update_time.
SetListed(p) ==
    /\ At(p, "set_listed")
    /\ \E done \in BOOLEAN :
          Sent(p, done) /\ listed' = Put(listed, job[p].mac, job[p].now, done)
    /\ Goto(p, IF job[p].op = "add" THEN "log_id" ELSE "get_id")
    /\ UNCHANGED <<logs, time, first, slips, totals, env>>

---------------------------------------------------------------------------
(* user_location_log_add.                                                  *)

\* Fault: a process increments the counter for the first log of a slice, and
\* reads it for the others.
NextLogIdRead(p) ==
    /\ At(p, "log_id")
    /\ \E done \in BOOLEAN : LET s == Slice(job[p].now) IN
          /\ Sent(p, done)
          /\ counter' = Put(counter, s, counter[s] + 1, done /\ last[p] # s)
          /\ job' = [job EXCEPT ![p].pc = "row", ![p].id = IF done THEN counter'[s] ELSE 0]
    /\ UNCHANGED <<misread, entries, slices, places, totals, env>>

\* RedisDb::incr returns a member of the reply it has just freed, that of Tair
\* 1, and 0 means that it failed.
NextLogId(p) ==
    /\ At(p, "log_id")
    /\ \E done \in BOOLEAN : LET s == Slice(job[p].now) IN
          /\ Sent(p, done)
          /\ counter' = Put(counter, s, counter[s] + 1, done)
          /\ \E i \in IF done THEN {counter'[s]} \cup Freed ELSE {0} :
                /\ job' = [job EXCEPT ![p].pc = "row", ![p].id = i]
                /\ misread' = Join(misread, job[p].sn, done /\ i # counter'[s])
    /\ UNCHANGED <<entries, slices, places, totals, env>>

\* The row goes to PostgreSQL, link or no link; a psql that fails is ignored.
InsertRow(p) ==
    /\ At(p, "row")
    /\ \E done \in BOOLEAN : rows' = Join(rows, EntryOf(job[p]), done)
    /\ Goto(p, "slice")
    /\ UNCHANGED <<counter, misread, mac_set, log_set, log_prop, slices, places, totals, env,
                   failures>>

\* The process remembers the slice whatever became of it.
Remember(p, s) == last' = [last EXCEPT ![p] = s]
\* The member of data.time.set is the bytes of the time up to the first 0, in a
\* command that is a format: one that begins with a 0 or has a blank or a
\* percent sign is refused, one that is cut may be another slice's, whose score
\* it replaces.
Register(p, s) ==
    \/ /\ link[p]
       /\ \E Z \in {{}} \cup {{z} : z \in registered \ {s}} :
             /\ registered' = (registered \ Z) \cup {s}
             /\ unregistered' = (unregistered \cup Z) \ {s}
    \/ /\ link[p]
       /\ unregistered' = unregistered \cup {s}
       /\ UNCHANGED registered
    \/ ~link[p] /\ UNCHANGED <<registered, unregistered>>

\* Fault: the map is asked whether it has the mall, not for its value.
RegisterSliceOnce(p) ==
    /\ At(p, "slice")
    /\ LET s == Slice(job[p].now) IN
          /\ \/ last[p] = 0 /\ Register(p, s)
             \/ last[p] # 0 /\ UNCHANGED <<registered, unregistered>>
          /\ Remember(p, s)
    /\ Goto(p, "mac_set")
    /\ UNCHANGED <<counter, misread, entries, places, totals, env, failures>>

RegisterSlice(p) ==
    /\ At(p, "slice")
    /\ LET s == Slice(job[p].now) IN
          /\ \/ last[p] # s /\ Register(p, s)
             \/ last[p] = s /\ UNCHANGED <<registered, unregistered>>
          /\ Remember(p, s)
    /\ Goto(p, "mac_set")
    /\ UNCHANGED <<counter, misread, entries, places, totals, env, failures>>

AddMac(p) ==
    /\ At(p, "mac_set")
    /\ \E done \in BOOLEAN :
          Sent(p, done) /\ mac_set' = Join(mac_set, <<Slice(job[p].now), job[p].mac>>, done)
    /\ Goto(p, "log_set")
    /\ UNCHANGED <<counter, misread, rows, log_set, log_prop, slices, places, totals, env>>

AddLog(p) ==
    /\ At(p, "log_set")
    /\ \E done \in BOOLEAN : Sent(p, done) /\ log_set' = Join(log_set, EntryOf(job[p]), done)
    /\ Goto(p, "log_prop")
    /\ UNCHANGED <<counter, misread, rows, mac_set, log_prop, slices, places, totals, env>>

SetLogProp(p) ==
    /\ At(p, "log_prop")
    /\ \E done \in BOOLEAN : Sent(p, done) /\ log_prop' = Join(log_prop, EntryOf(job[p]), done)
    /\ Goto(p, "get_id")
    /\ UNCHANGED <<counter, misread, rows, mac_set, log_set, slices, places, totals, env>>

---------------------------------------------------------------------------
(* The user.                                                               *)

\* user_get_id, one step of IdentityRegistry; the answer may be 0.  ApMac then
\* reads the time under another key than it has written, and finds none.
GetId(p) ==
    /\ At(p, "get_id")
    /\ \E i \in {0, User[job[p].mac]} :
          job' = [job EXCEPT ![p].user = i,
                             ![p].pc = IF job[p].op = "add" THEN "stay" ELSE "arrive"]
    /\ UNCHANGED <<logs, places, totals, env, failures>>

Min2(a, b) == IF a <= b THEN a ELSE b

\* Fault: an incr that is not answered is sent again.
AddStayAgain(p) ==
    /\ At(p, "stay")
    /\ \E done \in BOOLEAN : LET j == job[p] IN
          /\ Sent(p, done)
          /\ stay' = Put(stay, j.user, stay[j.user] + Min2(j.now - j.pre, Cap), done)
    /\ Goto(p, "arrive") \/ UNCHANGED job
    /\ UNCHANGED <<logs, places, arrived, daily, env>>

\* user_duration_add.
AddStay(p) ==
    /\ At(p, "stay")
    /\ \E done \in BOOLEAN : LET j == job[p] IN
          /\ Sent(p, done)
          /\ stay' = Put(stay, j.user, stay[j.user] + Min2(j.now - j.pre, Cap), done)
    /\ Goto(p, "arrive")
    /\ UNCHANGED <<logs, places, arrived, daily, env>>

\* vip_arrive_time_record; one whose flag is not read is no vip.
RecordArrival(p) ==
    /\ At(p, "arrive")
    /\ LET j == job[p] IN
          \/ /\ j.now - j.pre > Gap
             /\ \E done \in BOOLEAN :
                   /\ Sent(p, done)
                   /\ arrived' = Put(arrived, j.user, j.now, done /\ j.user \in Vips)
          \/ j.now - j.pre <= Gap /\ UNCHANGED <<arrived, failures>>
    /\ job' = [job EXCEPT ![p] = IF @.op = "add" THEN [@ EXCEPT !.pc = "daily"] ELSE NoJob]
    /\ UNCHANGED <<logs, places, stay, daily, env>>

\* mac_set_record.
AddDaily(p) ==
    /\ At(p, "daily")
    /\ \E done \in BOOLEAN : Sent(p, done) /\ daily' = Join(daily, job[p].mac, done)
    /\ job' = [job EXCEPT ![p] = NoJob]
    /\ UNCHANGED <<logs, places, stay, arrived, env>>

---------------------------------------------------------------------------
(* The environment.                                                        *)

Tick ==
    /\ clock < Horizon
    /\ clock' = clock + 1
    /\ UNCHANGED <<logs, places, totals, link, signals, overlap, failures, job>>

\* A broken connection is never opened again.
DropLink(p) ==
    /\ link[p]
    /\ failures < MaxFailures
    /\ failures' = failures + 1
    /\ link' = [link EXCEPT ![p] = FALSE]
    /\ UNCHANGED <<logs, places, totals, clock, signals, overlap, job>>

\* restart_receiver.sh, restart_fastcgi.sh: the map and the signal are gone.
Restart(p) ==
    /\ link' = [link EXCEPT ![p] = TRUE]
    /\ last' = [last EXCEPT ![p] = 0]
    /\ job' = [job EXCEPT ![p] = NoJob]
    /\ UNCHANGED <<counter, misread, entries, registered, unregistered, places, totals,
                   clock, signals, overlap, failures>>

---------------------------------------------------------------------------
Next ==
    \/ \E p \in Procs :
          \/ \E m \in Macs : UserAdd(p, m) \/ ParseApmac(p, m)
          \/ ReadTime(p) \/ SetTime(p) \/ SetListed(p)
          \/ NextLogId(p) \/ InsertRow(p) \/ RegisterSlice(p) \/ AddMac(p) \/ AddLog(p)
          \/ SetLogProp(p) \/ GetId(p) \/ AddStay(p) \/ RecordArrival(p) \/ AddDaily(p)
          \/ DropLink(p) \/ Restart(p)
    \/ Tick

Spec == Init /\ [][Next]_vars

---------------------------------------------------------------------------
\* Every variable has values of the kind the code stores in it.
TypeOK ==
    /\ clock \in Nat /\ signals \in 0..MaxSignals /\ failures \in 0..MaxFailures
    /\ time \in [Macs -> Nat] /\ listed \in [Macs -> Nat] /\ first \in [Macs -> Nat]
    /\ slips \in [Macs -> Nat]
    /\ counter \in [Slices -> Nat]
    /\ rows \subseteq Entry /\ log_set \subseteq Entry /\ log_prop \subseteq Entry
    /\ registered \subseteq Slices /\ unregistered \subseteq Slices
    /\ mac_set \subseteq Slices \X Macs /\ misread \subseteq 1..MaxSignals
    /\ stay \in [Ids \cup {0} -> Int] /\ arrived \in [Ids \cup {0} -> Nat]
    /\ daily \subseteq Macs
    /\ last \in [Procs -> Nat]
    /\ link \in [Procs -> BOOLEAN]
    /\ job \in [Procs -> Job]
    /\ overlap \in [Macs -> BOOLEAN]

\* A log id of a slice is about one signal, in the memory database and in
\* PostgreSQL, whatever processes log at once (user_map.cpp:271, 281-285,
\* 323-342), unless incr answered one of the two with something else than the
\* counter's value; a signal whose increment failed has id 0.
LogIdsUnique ==
    \A a, b \in rows \cup log_set \cup log_prop :
        a.slice = b.slice /\ a.id = b.id /\ a.id # 0 =>
            a.sn = b.sn \/ {a.sn, b.sn} \cap misread # {}

\* Whoever walks data.time.set finds every slice that has a log and was not
\* refused there or replaced, although a process registers a slice only once,
\* dies in between or has no connection (user_map.cpp:288-302).
SlicesRegistered ==
    /\ \A e \in mac_set : e[1] \in registered \cup unregistered
    /\ \A e \in log_set : e.slice \in registered \cup unregistered

StayBound(m) == (IF first[m] = 0 THEN 0 ELSE Cap + time[m] - first[m]) + Cap * slips[m]

\* If the signals of a mac are worked on one at a time, its stay is never more
\* than the time that has passed plus the Cap the first signal is worth, and
\* one for each time that was refused, to be read or to be written, wherever a
\* process dies (user_map.cpp:395-403).
StayNotTwice == \A m \in Macs : ~overlap[m] => stay[User[m]] <= StayBound(m)

\* What CBaseMdb.hpp:322 says of incr, "0----fail   success value": the log id
\* of an increment that was made is the value of the counter.
IncrAnswersValue ==
    [][\A p \in Procs : At(p, "log_id") /\ counter' # counter /\ job'[p] # job[p] =>
          job'[p].id = counter'[Slice(job[p].now)]]_vars

\* An arrival is recorded for a visitor who was "out of shop/mall" for the
\* "time gap" (user_map.cpp:47, 357).
ArrivalAfterAbsence ==
    [][\A p \in Procs : At(p, "arrive") /\ arrived' # arrived =>
          job[p].now - job[p].was > Gap]_vars
=============================================================================
