------------------------ MODULE LocationIngestProofs ------------------------
(***************************************************************************)
(* Theorems about LocationIngest, for any processes, phones, gaps, clocks  *)
(* and number of failures, whatever a reply that was freed reads as.       *)
(***************************************************************************)
EXTENDS LocationIngest, TLAPS

USE DEF At

LogPCs == {"row", "slice", "mac_set", "log_set", "log_prop"}
\* From the time that is written to the stay that is counted.
OwedPCs == {"set_listed", "log_id", "get_id", "stay"} \cup LogPCs
AddPCs == {"read_time", "log_id", "stay", "daily"} \cup LogPCs

\* What a process knows of the signal it works on.
JobsSound ==
    /\ clock \in Times
    /\ \A p \in Procs : job[p].pc # "idle" =>
          /\ job[p].now \in Times /\ job[p].now <= clock
          /\ job[p].sn \in 1..MaxSignals
          /\ job[p].user \in {0, User[job[p].mac]}
          /\ job[p].pc \in AddPCs => job[p].op = "add"

---------------------------------------------------------------------------
(* Types.                                                                  *)

LEMMA SliceOf == \A t \in Times : t \in Nat /\ Slice(t) \in Slices /\ Slice(t) \in Nat /\ Slice(t) # 0
  <1> SUFFICES ASSUME NEW t \in Times
               PROVE  t \in Nat /\ Slice(t) \in Slices /\ Slice(t) \in Nat /\ Slice(t) # 0
    OBVIOUS
  <1>1. t \in Nat /\ t >= SliceLen /\ SliceLen \in Nat /\ SliceLen > 0
    BY ClockType, GapsType, EpochLate DEF Times
  <1>2. t \div SliceLen \in Nat /\ t \div SliceLen # 0
    BY <1>1
  <1> QED BY <1>1, <1>2 DEF Slice, Slices

LEMMA NoJobType == NoJob \in Job /\ NoJob.pc = "idle"
  <1>1. (CHOOSE m \in Macs : TRUE) \in Macs
    BY SomeMac
  <1>2. 0 \in 0..MaxSignals
    BY FreedType
  <1> QED BY <1>1, <1>2 DEF NoJob, Job, PCs

\* What a change of one record leaves.
LEMMA JobSet ==
    ASSUME job \in [Procs -> Job], NEW p \in Procs, NEW j \in Job, job' = [job EXCEPT ![p] = j]
    PROVE  job' \in [Procs -> Job] /\ job'[p] = j /\ \A q \in Procs : q # p => job'[q] = job[q]
  OBVIOUS

\* p goes on with the same signal, and the others stay where they are.
Onward(p) ==
    /\ job' \in [Procs -> Job]
    /\ job'[p].op = job[p].op /\ job'[p].mac = job[p].mac
    /\ job'[p].sn = job[p].sn /\ job'[p].now = job[p].now
    /\ \A q \in Procs : q # p => job'[q] = job[q]

LEMMA GotoFields ==
    ASSUME TypeOK, NEW p \in Procs, NEW loc \in PCs, Goto(p, loc)
    PROVE  /\ Onward(p)
           /\ job'[p].pc = loc /\ job'[p].pre = job[p].pre /\ job'[p].id = job[p].id
           /\ job'[p].user = job[p].user
  <1> DEFINE j == [job[p] EXCEPT !.pc = loc]
  <1>1. job \in [Procs -> Job]
    BY DEF TypeOK
  <1>2. /\ j \in Job /\ j.pc = loc /\ j.op = job[p].op /\ j.mac = job[p].mac
        /\ j.sn = job[p].sn /\ j.now = job[p].now /\ j.pre = job[p].pre /\ j.id = job[p].id
        /\ j.user = job[p].user
    BY <1>1 DEF Job
  <1>3. job' = [job EXCEPT ![p] = j]
    BY DEF Goto
  <1> HIDE DEF j
  <1> QED BY <1>1, <1>2, <1>3, JobSet DEF Onward

\* The jobs after the steps that remember something.
LEMMA SignalJob ==
    ASSUME TypeOK, NEW p \in Procs, NEW m \in Macs,
           NEW op \in {"add", "apmac"}, NEW loc \in PCs, Signal(p, m, op, loc)
    PROVE  /\ job' \in [Procs -> Job] /\ signals' = signals + 1 /\ signals' \in 1..MaxSignals
           /\ job'[p].pc = loc /\ job'[p].op = op /\ job'[p].mac = m
           /\ job'[p].sn = signals + 1 /\ job'[p].now = clock /\ job'[p].user = 0
           /\ \A q \in Procs : q # p => job'[q] = job[q]
  <1> DEFINE j == [NoJob EXCEPT !.pc = loc, !.op = op, !.mac = m, !.sn = signals + 1, !.now = clock]
  <1>1. signals + 1 \in 1..MaxSignals /\ signals' = signals + 1 /\ clock \in Nat
    BY FreedType DEF Signal, TypeOK
  <1>2. NoJob \in Job /\ signals + 1 \in 0..MaxSignals /\ NoJob.user = 0
    BY <1>1, NoJobType DEF NoJob
  <1>3. j \in Job /\ j.pc = loc /\ j.op = op /\ j.mac = m /\ j.sn = signals + 1 /\ j.now = clock
        /\ j.user = 0
    BY <1>1, <1>2 DEF Job
  <1>4. job' = [job EXCEPT ![p] = j] /\ job \in [Procs -> Job]
    BY DEF Signal, TypeOK
  <1> HIDE DEF j
  <1> QED BY <1>1, <1>3, <1>4, JobSet

LEMMA ReadTimeJob ==
    ASSUME TypeOK, NEW p \in Procs, NEW done \in BOOLEAN,
           job' = [job EXCEPT ![p].pc = "set_time",
                              ![p].pre = IF done THEN time[job[p].mac] ELSE 0]
    PROVE  /\ Onward(p) /\ job'[p].pc = "set_time" /\ job'[p].user = job[p].user
           /\ job'[p].pre = IF done THEN time[job[p].mac] ELSE 0
  <1> PICK t : t = IF done THEN time[job[p].mac] ELSE 0
    OBVIOUS
  <1> DEFINE j == [job[p] EXCEPT !.pc = "set_time", !.pre = t]
  <1>1. job \in [Procs -> Job] /\ job[p] \in Job /\ t \in Nat
    BY DEF TypeOK, Job
  <1>2. /\ j \in Job /\ j.pc = "set_time" /\ j.op = job[p].op /\ j.mac = job[p].mac
        /\ j.sn = job[p].sn /\ j.now = job[p].now /\ j.pre = t /\ j.user = job[p].user
    BY <1>1 DEF Job, PCs
  <1>3. job' = [job EXCEPT ![p] = j]
    OBVIOUS
  <1> HIDE DEF j
  <1> QED BY <1>1, <1>2, <1>3, JobSet DEF Onward

LEMMA SetTimeJob ==
    ASSUME TypeOK, NEW p \in Procs, SetTime(p)
    PROVE  /\ Onward(p) /\ job'[p].pc = "set_listed" /\ job'[p].user = job[p].user
           /\ job'[p].pre = job[p].pre
  <1> PICK t : t = time[job[p].mac]
    OBVIOUS
  <1> DEFINE j == [job[p] EXCEPT !.pc = "set_listed", !.was = t]
  <1>1. job \in [Procs -> Job] /\ job[p] \in Job /\ t \in Nat
    BY DEF TypeOK, Job
  <1>2. /\ j \in Job /\ j.pc = "set_listed" /\ j.op = job[p].op /\ j.mac = job[p].mac
        /\ j.sn = job[p].sn /\ j.now = job[p].now /\ j.pre = job[p].pre /\ j.user = job[p].user
    BY <1>1 DEF Job, PCs
  <1>3. job' = [job EXCEPT ![p] = j]
    BY DEF SetTime
  <1> HIDE DEF j
  <1> QED BY <1>1, <1>2, <1>3, JobSet DEF Onward

LEMMA LogIdJob ==
    ASSUME TypeOK, NEW p \in Procs, NEW i \in Nat,
           job' = [job EXCEPT ![p].pc = "row", ![p].id = i]
    PROVE  /\ Onward(p) /\ job'[p].pc = "row" /\ job'[p].id = i /\ job'[p].user = job[p].user
           /\ job'[p].pre = job[p].pre
  <1> DEFINE j == [job[p] EXCEPT !.pc = "row", !.id = i]
  <1>1. job \in [Procs -> Job] /\ job[p] \in Job
    BY DEF TypeOK
  <1>2. /\ j \in Job /\ j.pc = "row" /\ j.op = job[p].op /\ j.mac = job[p].mac
        /\ j.sn = job[p].sn /\ j.now = job[p].now /\ j.id = i /\ j.user = job[p].user
        /\ j.pre = job[p].pre
    BY <1>1 DEF Job, PCs
  <1>3. job' = [job EXCEPT ![p] = j]
    OBVIOUS
  <1> HIDE DEF j
  <1> QED BY <1>1, <1>2, <1>3, JobSet DEF Onward

\* What NextLogId does: a number that is not the counter's is misread.
LEMMA LogIdStep ==
    ASSUME TypeOK, JobsSound, NEW p \in Procs, NextLogId(p)
    PROVE  LET s == Slice(job[p].now) IN
           /\ s \in Slices /\ counter[s] \in Nat /\ failures' \in 0..MaxFailures
           /\ Onward(p) /\ job'[p].pc = "row" /\ job'[p].user = job[p].user
           /\ job'[p].pre = job[p].pre /\ job'[p].id \in Nat
           /\ \/ /\ counter' = [counter EXCEPT ![s] = counter[s] + 1]
                 /\ \/ job'[p].id = counter[s] + 1 /\ misread' = misread
                    \/ misread' = misread \cup {job[p].sn}
              \/ counter' = counter /\ job'[p].id = 0 /\ misread' = misread
  <1> PICK s : s = Slice(job[p].now)
    OBVIOUS
  <1>1. job[p].pc # "idle" /\ job[p].now \in Times
    BY DEF NextLogId, JobsSound
  <1>2. s \in Slices /\ counter \in [Slices -> Nat] /\ counter[s] \in Nat
    BY <1>1, SliceOf DEF TypeOK
  <1>3. PICK done \in BOOLEAN :
           /\ Sent(p, done)
           /\ counter' = Put(counter, s, counter[s] + 1, done)
           /\ \E i \in IF done THEN {counter'[s]} \cup Freed ELSE {0} :
                 /\ job' = [job EXCEPT ![p].pc = "row", ![p].id = i]
                 /\ misread' = Join(misread, job[p].sn, done /\ i # counter'[s])
    BY DEF NextLogId
  <1>4. PICK i \in IF done THEN {counter'[s]} \cup Freed ELSE {0} :
           /\ job' = [job EXCEPT ![p].pc = "row", ![p].id = i]
           /\ misread' = Join(misread, job[p].sn, done /\ i # counter'[s])
    BY <1>3
  <1>5. failures' \in 0..MaxFailures
    BY <1>3, FreedType DEF TypeOK, Sent, Refusal
  <1>6. CASE done
    <2>1. counter' = [counter EXCEPT ![s] = counter[s] + 1] /\ counter'[s] = counter[s] + 1
      BY <1>2, <1>3, <1>6 DEF Put
    <2>2. i \in Nat
      BY <1>2, <1>4, <1>6, <2>1, FreedType
    <2>3. (i = counter[s] + 1 /\ misread' = misread) \/ misread' = misread \cup {job[p].sn}
      BY <1>4, <1>6, <2>1 DEF Join
    <2> QED BY <1>2, <1>4, <1>5, <2>1, <2>2, <2>3, LogIdJob
  <1>7. CASE ~done
    <2>1. counter' = counter /\ i = 0 /\ misread' = misread
      BY <1>3, <1>4, <1>7 DEF Put, Join
    <2>2. i \in Nat
      BY <2>1
    <2>3. /\ Onward(p) /\ job'[p].pc = "row" /\ job'[p].id = i /\ job'[p].user = job[p].user
          /\ job'[p].pre = job[p].pre
      BY <1>4, <2>2, LogIdJob
    <2> QED BY <1>2, <1>5, <2>1, <2>2, <2>3
  <1> QED BY <1>6, <1>7

LEMMA GetIdJob ==
    ASSUME TypeOK, NEW p \in Procs, GetId(p)
    PROVE  /\ Onward(p) /\ job'[p].pc = (IF job[p].op = "add" THEN "stay" ELSE "arrive")
           /\ job'[p].user \in {0, User[job[p].mac]} /\ job'[p].pre = job[p].pre
  <1>1. PICK i \in {0, User[job[p].mac]} :
           job' = [job EXCEPT ![p].user = i,
                              ![p].pc = IF job[p].op = "add" THEN "stay" ELSE "arrive"]
    BY DEF GetId
  <1> PICK loc \in {"stay", "arrive"} : loc = IF job[p].op = "add" THEN "stay" ELSE "arrive"
    OBVIOUS
  <1> DEFINE j == [job[p] EXCEPT !.user = i, !.pc = loc]
  <1>2. job \in [Procs -> Job] /\ job[p] \in Job /\ User[job[p].mac] \in Ids
    BY UserType DEF TypeOK, Job
  <1>3. /\ j \in Job /\ j.pc = loc /\ j.op = job[p].op /\ j.mac = job[p].mac
        /\ j.sn = job[p].sn /\ j.now = job[p].now /\ j.pre = job[p].pre /\ j.user = i
    BY <1>2 DEF Job, PCs
  <1>4. job' = [job EXCEPT ![p] = j]
    BY <1>1
  <1> HIDE DEF j
  <1> QED BY <1>2, <1>3, <1>4, JobSet DEF Onward

\* "ApMac:" ends with the arrival.
LEMMA ArrivalJob ==
    ASSUME TypeOK, NEW p \in Procs, RecordArrival(p)
    PROVE  \/ job[p].op = "add" /\ Goto(p, "daily")
           \/ job' = [job EXCEPT ![p] = NoJob]
  <1>1. CASE job[p].op = "add"
    <2>1. job' = [job EXCEPT ![p] = [job[p] EXCEPT !.pc = "daily"]]
      BY <1>1 DEF RecordArrival
    <2> QED BY <1>1, <2>1 DEF Goto
  <1>2. CASE job[p].op # "add"
    BY <1>2 DEF RecordArrival
  <1> QED BY <1>1, <1>2

LEMMA SentType ==
    ASSUME TypeOK, NEW p \in Procs, NEW done \in BOOLEAN, Sent(p, done)
    PROVE  failures' \in 0..MaxFailures
  BY FreedType DEF TypeOK, Sent, Refusal

\* What user_location_log_add writes about a signal is an entry.
LEMMA EntryType ==
    ASSUME TypeOK, JobsSound, NEW p \in Procs, job[p].pc # "idle"
    PROVE  EntryOf(job[p]) \in Entry /\ Slice(job[p].now) \in Slices /\ Slice(job[p].now) \in Nat
           /\ Slice(job[p].now) # 0 /\ job[p].mac \in Macs
  <1>1. job[p] \in Job /\ job[p].now \in Times /\ job[p].sn \in 1..MaxSignals
    BY DEF TypeOK, JobsSound
  <1> QED BY <1>1, SliceOf DEF EntryOf, Entry, Job

\* What becomes of the set of slices: it may lose one to s.
LEMMA RegisterType ==
    ASSUME NEW p \in Procs, NEW s \in Slices, Register(p, s),
           registered \subseteq Slices, unregistered \subseteq Slices
    PROVE  /\ registered' \subseteq Slices /\ unregistered' \subseteq Slices
           /\ registered \cup unregistered \subseteq registered' \cup unregistered'
           /\ link[p] => s \in registered' \cup unregistered'
  <1>1. CASE link[p] /\ \E Z \in {{}} \cup {{z} : z \in registered \ {s}} :
                /\ registered' = (registered \ Z) \cup {s}
                /\ unregistered' = (unregistered \cup Z) \ {s}
    <2>1. PICK Z \in {{}} \cup {{z} : z \in registered \ {s}} :
             /\ registered' = (registered \ Z) \cup {s}
             /\ unregistered' = (unregistered \cup Z) \ {s}
      BY <1>1
    <2>2. Z \subseteq registered
      OBVIOUS
    <2> QED BY <2>1, <2>2
  <1>2. CASE unregistered' = unregistered \cup {s} /\ registered' = registered
    BY <1>2
  <1>3. CASE ~link[p] /\ UNCHANGED <<registered, unregistered>>
    BY <1>3
  <1> QED BY <1>1, <1>2, <1>3 DEF Register

\* The steps of user_location_log_add that do no more than write and go on.
LogStep(p) == InsertRow(p) \/ RegisterSlice(p) \/ AddMac(p) \/ AddLog(p) \/ SetLogProp(p)

LEMMA InitType == Init => TypeOK /\ JobsSound
  <1> SUFFICES ASSUME Init PROVE TypeOK /\ JobsSound
    OBVIOUS
  <1>1. clock \in Times /\ clock \in Nat
    BY ClockType DEF Init, Times
  <1>2. \A p \in Procs : job[p] \in Job /\ job[p].pc = "idle"
    BY NoJobType DEF Init
  <1>3. job \in [Procs -> Job]
    BY NoJobType DEF Init
  <1>4. signals \in 0..MaxSignals /\ failures \in 0..MaxFailures
    BY FreedType DEF Init
  <1>5. TypeOK
    BY <1>1, <1>3, <1>4 DEF Init, TypeOK
  <1> QED BY <1>1, <1>2, <1>5 DEF JobsSound

LEMMA SignalType ==
    ASSUME TypeOK, JobsSound, NEW p \in Procs, NEW m \in Macs,
           NEW op \in {"add", "apmac"}, NEW loc \in PCs, Signal(p, m, op, loc),
           loc \in AddPCs => op = "add"
    PROVE  TypeOK' /\ JobsSound'
  <1>1. /\ job' \in [Procs -> Job] /\ signals' = signals + 1 /\ signals' \in 1..MaxSignals
        /\ job'[p].pc = loc /\ job'[p].op = op /\ job'[p].mac = m
        /\ job'[p].sn = signals + 1 /\ job'[p].now = clock /\ job'[p].user = 0
        /\ \A q \in Procs : q # p => job'[q] = job[q]
    BY SignalJob
  <1>2. overlap' \in [Macs -> BOOLEAN]
    <2> PICK o : o = (overlap[m] \/ \E q \in Procs : ~At(q, "idle") /\ job[q].mac = m)
      OBVIOUS
    <2>1. o \in BOOLEAN
      BY DEF TypeOK
    <2>2. overlap' = [overlap EXCEPT ![m] = o]
      BY DEF Signal
    <2> QED BY <2>1, <2>2 DEF TypeOK
  <1>3. TypeOK'
    BY <1>1, <1>2 DEF Signal, TypeOK, logs, entries, slices, places, totals
  <1>4. JobsSound'
    <2>1. clock' = clock /\ clock \in Times /\ clock \in Nat
      BY DEF Signal, JobsSound, TypeOK
    <2>2. /\ job'[p].now \in Times /\ job'[p].now <= clock /\ job'[p].sn \in 1..MaxSignals
          /\ job'[p].user \in {0, User[job'[p].mac]}
          /\ job'[p].pc \in AddPCs => job'[p].op = "add"
      BY <1>1, <2>1
    <2> QED BY <1>1, <2>1, <2>2 DEF JobsSound
  <1> QED BY <1>3, <1>4

\* A step of a job that keeps what the signal is about.
LEMMA JobStep ==
    ASSUME TypeOK, JobsSound, NEW p \in Procs, job[p].pc # "idle", Onward(p), clock' = clock,
           job'[p].user \in {0, User[job[p].mac]},
           job'[p].pc \in AddPCs => job[p].op = "add"
    PROVE  job' \in [Procs -> Job] /\ JobsSound'
  BY DEF JobsSound, Onward

\* A job that ends.
LEMMA EndJob ==
    ASSUME TypeOK, JobsSound, NEW p \in Procs, job' = [job EXCEPT ![p] = NoJob], clock' = clock
    PROVE  job' \in [Procs -> Job] /\ JobsSound'
  <1>1. job' \in [Procs -> Job] /\ job'[p] = NoJob /\ \A q \in Procs : q # p => job'[q] = job[q]
    BY NoJobType, JobSet DEF TypeOK
  <1> QED BY <1>1, NoJobType DEF JobsSound

LEMMA GotoType ==
    ASSUME TypeOK, JobsSound, NEW p \in Procs, NEW loc \in PCs, Goto(p, loc), clock' = clock,
           job[p].pc # "idle", loc \in AddPCs => job[p].op = "add"
    PROVE  job' \in [Procs -> Job] /\ JobsSound'
  <1>1. Onward(p) /\ job'[p].pc = loc /\ job'[p].user = job[p].user
    BY GotoFields
  <1>2. job[p].user \in {0, User[job[p].mac]}
    BY DEF JobsSound
  <1> QED BY <1>1, <1>2, JobStep

LEMMA LogType ==
    ASSUME TypeOK, JobsSound, NEW p \in Procs, LogStep(p)
    PROVE  TypeOK' /\ JobsSound'
  <1>1. job[p].pc \in LogPCs
    BY DEF LogStep, InsertRow, RegisterSlice, AddMac, AddLog, SetLogProp, LogPCs
  <1>2. /\ EntryOf(job[p]) \in Entry /\ Slice(job[p].now) \in Slices /\ Slice(job[p].now) \in Nat
        /\ job[p].mac \in Macs /\ job[p].op = "add"
    BY <1>1, EntryType DEF LogPCs, AddPCs, JobsSound
  <1>3. PICK loc \in PCs \ {"idle"} : Goto(p, loc)
    BY DEF LogStep, InsertRow, RegisterSlice, AddMac, AddLog, SetLogProp, PCs
  <1>4. clock' = clock
    BY DEF LogStep, InsertRow, RegisterSlice, AddMac, AddLog, SetLogProp, env
  <1>5. job' \in [Procs -> Job] /\ JobsSound'
    BY <1>1, <1>2, <1>3, <1>4, GotoType DEF LogPCs
  <1> DEFINE e == EntryOf(job[p])
             s == Slice(job[p].now)
  <1> HIDE DEF e, s
  <1>6. CASE InsertRow(p)
    <2>1. rows' \subseteq Entry
      BY <1>2, <1>6 DEF InsertRow, Join, TypeOK
    <2> QED BY <1>5, <1>6, <2>1 DEF InsertRow, TypeOK, slices, places, totals, env
  <1>7. CASE RegisterSlice(p)
    <2>1. s \in Slices /\ last' = [last EXCEPT ![p] = s] /\ s \in Nat
      BY <1>2, <1>7 DEF RegisterSlice, Remember, s
    <2>2. Register(p, s) \/ UNCHANGED <<registered, unregistered>>
      BY <1>7 DEF RegisterSlice, s
    <2>3. registered' \subseteq Slices /\ unregistered' \subseteq Slices /\ last' \in [Procs -> Nat]
      BY <2>1, <2>2, RegisterType DEF TypeOK
    <2> QED BY <1>5, <1>7, <2>3 DEF RegisterSlice, TypeOK, entries, places, totals, env
  <1>8. CASE AddMac(p)
    <2>1. PICK done \in BOOLEAN :
             Sent(p, done) /\ mac_set' = Join(mac_set, <<s, job[p].mac>>, done)
      BY <1>8 DEF AddMac, s
    <2>2. mac_set' \subseteq Slices \X Macs /\ failures' \in 0..MaxFailures
      BY <1>2, <2>1, SentType DEF Join, TypeOK, s
    <2> QED BY <1>5, <1>8, <2>2 DEF AddMac, TypeOK, slices, places, totals, env
  <1>9. CASE AddLog(p)
    <2>1. PICK done \in BOOLEAN : Sent(p, done) /\ log_set' = Join(log_set, e, done)
      BY <1>9 DEF AddLog, e
    <2>2. log_set' \subseteq Entry /\ failures' \in 0..MaxFailures
      BY <1>2, <2>1, SentType DEF Join, TypeOK, e
    <2> QED BY <1>5, <1>9, <2>2 DEF AddLog, TypeOK, slices, places, totals, env
  <1>10. CASE SetLogProp(p)
    <2>1. PICK done \in BOOLEAN : Sent(p, done) /\ log_prop' = Join(log_prop, e, done)
      BY <1>10 DEF SetLogProp, e
    <2>2. log_prop' \subseteq Entry /\ failures' \in 0..MaxFailures
      BY <1>2, <2>1, SentType DEF Join, TypeOK, e
    <2> QED BY <1>5, <1>10, <2>2 DEF SetLogProp, TypeOK, slices, places, totals, env
  <1> QED BY <1>6, <1>7, <1>8, <1>9, <1>10 DEF LogStep

\* The steps that remember something.
LEMMA WorkType ==
    ASSUME TypeOK, JobsSound, NEW p \in Procs,
           ReadTime(p) \/ SetTime(p) \/ NextLogId(p) \/ GetId(p)
    PROVE  TypeOK' /\ JobsSound'
  <1>1. job[p].pc # "idle" /\ job[p] \in Job /\ clock' = clock
    BY DEF ReadTime, SetTime, NextLogId, GetId, env, TypeOK
  <1>2. job[p].mac \in Macs /\ job[p].now \in Nat /\ slips[job[p].mac] \in Nat
    BY <1>1 DEF Job, TypeOK
  <1>3. job[p].user \in {0, User[job[p].mac]} /\ (job[p].pc \in AddPCs => job[p].op = "add")
    BY <1>1 DEF JobsSound
  <1>4. CASE ReadTime(p)
    <2>1. PICK done \in BOOLEAN :
             /\ Sent(p, done)
             /\ job' = [job EXCEPT ![p].pc = "set_time",
                                   ![p].pre = IF done THEN time[job[p].mac] ELSE 0]
             /\ slips' = Put(slips, job[p].mac, slips[job[p].mac] + 1, Refusal(p, done))
      BY <1>4 DEF ReadTime
    <2>2. Onward(p) /\ job'[p].pc = "set_time" /\ job'[p].user = job[p].user
      BY <2>1, ReadTimeJob
    <2>3. job' \in [Procs -> Job] /\ JobsSound'
      BY <1>1, <1>3, <2>2, JobStep DEF AddPCs, LogPCs
    <2>4. slips' \in [Macs -> Nat] /\ failures' \in 0..MaxFailures
      BY <1>2, <2>1, SentType DEF Put, TypeOK
    <2> QED BY <1>4, <2>3, <2>4 DEF ReadTime, TypeOK, logs, entries, slices, totals, env
  <1>5. CASE SetTime(p)
    <2>1. Onward(p) /\ job'[p].pc = "set_listed" /\ job'[p].user = job[p].user
      BY <1>5, SetTimeJob
    <2>2. job' \in [Procs -> Job] /\ JobsSound'
      BY <1>1, <1>3, <2>1, JobStep DEF AddPCs, LogPCs
    <2>3. PICK done \in BOOLEAN : LET m == job[p].mac  now == job[p].now  add == job[p].op = "add" IN
             /\ Sent(p, done)
             /\ time' = Put(time, m, now, done)
             /\ first' = Put(first, m, now, done /\ add /\ first[m] = 0)
             /\ slips' = Put(slips, m, slips[m] + 1, Refusal(p, done) /\ add)
      BY <1>5 DEF SetTime
    <2>4. time' \in [Macs -> Nat] /\ first' \in [Macs -> Nat] /\ slips' \in [Macs -> Nat]
      BY <1>2, <2>3 DEF Put, TypeOK
    <2>5. failures' \in 0..MaxFailures
      BY <2>3, SentType
    <2> QED BY <1>5, <2>2, <2>4, <2>5 DEF SetTime, TypeOK, logs, entries, slices, totals, env
  <1>6. CASE NextLogId(p)
    <2> PICK s : s = Slice(job[p].now)
      OBVIOUS
    <2>1. /\ s \in Slices /\ counter[s] \in Nat /\ failures' \in 0..MaxFailures
          /\ Onward(p) /\ job'[p].pc = "row" /\ job'[p].user = job[p].user
          /\ \/ counter' = [counter EXCEPT ![s] = counter[s] + 1]
             \/ counter' = counter
          /\ \/ misread' = misread
             \/ misread' = misread \cup {job[p].sn}
      BY <1>6, LogIdStep
    <2>2. job[p].op = "add" /\ job[p].sn \in 1..MaxSignals
      BY <1>3, <1>6 DEF NextLogId, AddPCs, JobsSound
    <2>3. job' \in [Procs -> Job] /\ JobsSound'
      BY <1>1, <1>3, <2>1, <2>2, JobStep
    <2>4. counter' \in [Slices -> Nat]
      BY <2>1 DEF TypeOK
    <2>5. misread' \subseteq 1..MaxSignals
      BY <2>1, <2>2 DEF TypeOK
    <2> QED BY <1>6, <2>1, <2>3, <2>4, <2>5 DEF NextLogId, TypeOK, entries, slices, places, totals, env
  <1>7. CASE GetId(p)
    <2>1. /\ Onward(p) /\ job'[p].pc = (IF job[p].op = "add" THEN "stay" ELSE "arrive")
          /\ job'[p].user \in {0, User[job[p].mac]}
      BY <1>7, GetIdJob
    <2>2. job' \in [Procs -> Job] /\ JobsSound'
      BY <1>1, <2>1, JobStep DEF AddPCs, LogPCs
    <2> QED BY <1>7, <2>2 DEF GetId, TypeOK, logs, entries, slices, places, totals, env
  <1> QED BY <1>4, <1>5, <1>6, <1>7

\* The steps that only write and go on, or leave no job.
LEMMA StayType ==
    ASSUME TypeOK, JobsSound, NEW p \in Procs,
           SetListed(p) \/ AddStay(p) \/ RecordArrival(p) \/ AddDaily(p)
    PROVE  TypeOK' /\ JobsSound'
  <1>1. job[p].pc # "idle" /\ job[p] \in Job /\ clock' = clock
    BY DEF SetListed, AddStay, RecordArrival, AddDaily, env, TypeOK
  <1>2. job[p].mac \in Macs /\ job[p].now \in Nat /\ job[p].pre \in Nat /\ job[p].user \in Ids \cup {0}
    BY <1>1 DEF Job
  <1>3. job[p].pc \in AddPCs => job[p].op = "add"
    BY <1>1 DEF JobsSound
  <1>4. CASE SetListed(p)
    <2>1. job' \in [Procs -> Job] /\ JobsSound'
      <3>1. PICK loc \in {"log_id", "get_id"} : Goto(p, loc) /\ (loc = "log_id" => job[p].op = "add")
        BY <1>4 DEF SetListed
      <3>2. loc \in AddPCs => job[p].op = "add"
        BY <3>1 DEF AddPCs, LogPCs
      <3> QED BY <1>1, <3>1, <3>2, GotoType DEF PCs
    <2>2. PICK done \in BOOLEAN :
             Sent(p, done) /\ listed' = Put(listed, job[p].mac, job[p].now, done)
      BY <1>4 DEF SetListed
    <2>3. listed' \in [Macs -> Nat] /\ failures' \in 0..MaxFailures
      BY <1>2, <2>2, SentType DEF Put, TypeOK
    <2> QED BY <1>4, <2>1, <2>3 DEF SetListed, TypeOK, logs, entries, slices, totals, env
  <1>5. CASE AddStay(p)
    <2>1. job' \in [Procs -> Job] /\ JobsSound'
      <3>1. "arrive" \notin AddPCs /\ "arrive" \in PCs
        BY DEF AddPCs, LogPCs, PCs
      <3> QED BY <1>1, <1>5, <3>1, GotoType DEF AddStay
    <2> PICK g : g = Min2(job[p].now - job[p].pre, Cap)
      OBVIOUS
    <2>2. PICK done \in BOOLEAN :
             Sent(p, done) /\ stay' = Put(stay, job[p].user, stay[job[p].user] + g, done)
      BY <1>5 DEF AddStay
    <2>3. stay' \in [Ids \cup {0} -> Int] /\ failures' \in 0..MaxFailures
      <3>1. g \in Int
        BY <1>2, GapsType DEF Min2
      <3>2. stay[job[p].user] + g \in Int
        BY <1>2, <3>1 DEF TypeOK
      <3> QED BY <1>2, <2>2, <3>2, SentType DEF Put, TypeOK
    <2> QED BY <1>5, <2>1, <2>3 DEF AddStay, TypeOK, logs, entries, slices, places, env
  <1>6. CASE RecordArrival(p)
    <2>1. job' \in [Procs -> Job] /\ JobsSound'
      BY <1>1, <1>6, ArrivalJob, GotoType, EndJob DEF PCs
    <2>2. arrived' \in [Ids \cup {0} -> Nat] /\ failures' \in 0..MaxFailures
      <3>1. CASE UNCHANGED <<arrived, failures>>
        BY <3>1 DEF TypeOK
      <3>2. CASE ~UNCHANGED <<arrived, failures>>
        <4>1. PICK done \in BOOLEAN :
                 /\ Sent(p, done)
                 /\ arrived' = Put(arrived, job[p].user, job[p].now, done /\ job[p].user \in Vips)
          BY <1>6, <3>2 DEF RecordArrival
        <4> QED BY <1>2, <4>1, SentType DEF Put, TypeOK
      <3> QED BY <3>1, <3>2
    <2> QED BY <1>6, <2>1, <2>2 DEF RecordArrival, TypeOK, logs, entries, slices, places, env
  <1>7. CASE AddDaily(p)
    <2>1. job' \in [Procs -> Job] /\ JobsSound'
      BY <1>1, <1>7, EndJob DEF AddDaily
    <2>2. PICK done \in BOOLEAN : Sent(p, done) /\ daily' = Join(daily, job[p].mac, done)
      BY <1>7 DEF AddDaily
    <2>3. daily' \subseteq Macs /\ failures' \in 0..MaxFailures
      BY <1>2, <2>2, SentType DEF Join, TypeOK
    <2> QED BY <1>7, <2>1, <2>3 DEF AddDaily, TypeOK, logs, entries, slices, places, env
  <1> QED BY <1>4, <1>5, <1>6, <1>7

LEMMA EnvType ==
    ASSUME TypeOK, JobsSound, Tick \/ (\E p \in Procs : DropLink(p) \/ Restart(p)) \/ UNCHANGED vars
    PROVE  TypeOK' /\ JobsSound'
  <1> USE DEF logs, entries, slices, places, totals
  <1>1. CASE Tick
    <2>1. clock' \in Times /\ clock' \in Nat /\ clock' = clock + 1 /\ clock \in Nat /\ job' = job
      BY <1>1, ClockType DEF Tick, JobsSound, Times, TypeOK
    <2>2. TypeOK'
      BY <1>1, <2>1 DEF Tick, TypeOK
    <2>3. \A p \in Procs : job[p].now \in Nat
      BY DEF TypeOK, Job
    <2> QED BY <2>1, <2>2, <2>3 DEF JobsSound
  <1>2. ASSUME NEW p \in Procs, DropLink(p) PROVE TypeOK' /\ JobsSound'
    <2>1. link' \in [Procs -> BOOLEAN] /\ failures' \in 0..MaxFailures
      BY <1>2, FreedType DEF DropLink, TypeOK
    <2> QED BY <1>2, <2>1 DEF DropLink, TypeOK, JobsSound
  <1>3. ASSUME NEW p \in Procs, Restart(p) PROVE TypeOK' /\ JobsSound'
    <2>1. job' \in [Procs -> Job] /\ JobsSound'
      BY <1>3, EndJob DEF Restart
    <2>2. TypeOK'
      BY <1>3, <2>1 DEF Restart, TypeOK
    <2> QED BY <2>1, <2>2
  <1>4. CASE UNCHANGED vars
    BY <1>4 DEF vars, env, TypeOK, JobsSound
  <1> QED BY <1>1, <1>2, <1>3, <1>4

LEMMA StepType == TypeOK /\ JobsSound /\ [Next]_vars => TypeOK' /\ JobsSound'
  <1> SUFFICES ASSUME TypeOK, JobsSound, [Next]_vars PROVE TypeOK' /\ JobsSound'
    OBVIOUS
  <1>1. ASSUME NEW p \in Procs, NEW m \in Macs, UserAdd(p, m) \/ ParseApmac(p, m)
        PROVE  TypeOK' /\ JobsSound'
    BY <1>1, SignalType DEF UserAdd, ParseApmac, PCs, AddPCs, LogPCs
  <1> QED BY <1>1, LogType, WorkType, StayType, EnvType DEF Next, LogStep

\* Every variable keeps its type, however many processes and signals there
\* are, whatever fails.
THEOREM TypeCorrect == Spec => []TypeOK
  <1>1. Spec => [](TypeOK /\ JobsSound)
    BY InitType, StepType, PTL DEF Spec
  <1> QED BY <1>1, PTL

---------------------------------------------------------------------------
(* Log ids.  A job from its log id to its last write is as good as written. *)

Writing == {p \in Procs : job[p].pc \in LogPCs}
Made == rows \cup log_set \cup log_prop \cup {EntryOf(job[p]) : p \in Writing}
\* An id that was read right is no more than the counter, and no other's.
LogsSound ==
    /\ \A a \in Made : a.sn \in misread \/ a.id <= counter[a.slice]
    /\ \A a, b \in Made : a.slice = b.slice /\ a.id = b.id /\ a.id # 0 =>
          a.sn = b.sn \/ a.sn \in misread \/ b.sn \in misread

LEMMA MadeType == TypeOK /\ JobsSound => Made \subseteq Entry
  <1> SUFFICES ASSUME TypeOK, JobsSound PROVE Made \subseteq Entry
    OBVIOUS
  <1>1. \A p \in Writing : EntryOf(job[p]) \in Entry
    BY EntryType DEF Writing, LogPCs
  <1> QED BY <1>1 DEF Made, TypeOK

\* Nothing new is made, and no id is handed out.
LEMMA LogsKept ==
    ASSUME LogsSound, Made' \subseteq Made, UNCHANGED <<counter, misread>>
    PROVE  LogsSound'
  BY DEF LogsSound

LEMMA WritingKept ==
    ASSUME \A q \in Procs : job'[q].pc \in LogPCs =>
               job[q].pc \in LogPCs /\ EntryOf(job'[q]) = EntryOf(job[q])
    PROVE  {EntryOf(job'[p]) : p \in Writing'} \subseteq {EntryOf(job[p]) : p \in Writing}
  BY DEF Writing

\* An id that the counter hands out is new, or is known to be misread.
LEMMA NewId ==
    ASSUME TypeOK, JobsSound, LogsSound, NEW p \in Procs, NextLogId(p)
    PROVE  LogsSound'
  <1> PICK s : s = Slice(job[p].now)
    OBVIOUS
  <1> PICK i : i = job'[p].id
    OBVIOUS
  <1> PICK n : n = job[p].sn
    OBVIOUS
  <1> DEFINE e == EntryOf(job'[p])
  <1>1. /\ s \in Slices /\ counter[s] \in Nat /\ i \in Nat /\ Onward(p)
        /\ \/ /\ counter' = [counter EXCEPT ![s] = counter[s] + 1]
              /\ \/ i = counter[s] + 1 /\ misread' = misread
                 \/ misread' = misread \cup {n}
           \/ counter' = counter /\ i = 0 /\ misread' = misread
    BY LogIdStep
  <1>2. e.slice = s /\ e.id = i /\ e.sn = n
    BY <1>1 DEF EntryOf, Onward
  <1> HIDE DEF e
  <1>3. Made' \subseteq Made \cup {e}
    <2>1. rows' = rows /\ log_set' = log_set /\ log_prop' = log_prop
      BY DEF NextLogId, entries
    <2> SUFFICES ASSUME NEW q \in Writing' PROVE EntryOf(job'[q]) \in Made \cup {e}
      BY <2>1 DEF Made
    <2>2. CASE q = p
      BY <2>2 DEF e
    <2>3. CASE q # p
      <3>1. q \in Procs /\ job'[q] = job[q] /\ q \in Writing
        BY <1>1, <2>3 DEF Writing, Onward
      <3> QED BY <3>1 DEF Made
    <2> QED BY <2>2, <2>3
  <1>4. \A a \in Made : a.id \in Nat /\ a.slice \in Slices /\ counter[a.slice] \in Nat
    BY MadeType DEF Entry, TypeOK
  <1>5. \A a \in Made : a.sn \in misread' \/ a.id <= counter'[a.slice]
    <2> SUFFICES ASSUME NEW a \in Made PROVE a.sn \in misread' \/ a.id <= counter'[a.slice]
      OBVIOUS
    <2>1. a.sn \in misread \/ a.id <= counter[a.slice]
      BY DEF LogsSound
    <2>2. a.id \in Nat /\ counter[a.slice] \in Nat /\ a.slice \in Slices
      BY <1>4
    <2>3. counter'[a.slice] = counter[a.slice] \/ counter'[a.slice] = counter[a.slice] + 1
      BY <1>1, <2>2 DEF TypeOK
    <2>4. misread \subseteq misread'
      BY <1>1
    <2> QED BY <2>1, <2>2, <2>3, <2>4
  <1>6. e.sn \in misread' \/ e.id <= counter'[e.slice]
    <2>1. CASE counter' = [counter EXCEPT ![s] = counter[s] + 1]
      BY <1>1, <1>2, <2>1 DEF TypeOK
    <2>2. CASE counter' = counter /\ i = 0
      BY <1>1, <1>2, <2>2
    <2> QED BY <1>1, <1>2, <2>1, <2>2
  <1>7. \A a \in Made : a.slice = s /\ a.id = i /\ i # 0 => a.sn \in misread' \/ n \in misread'
    <2> SUFFICES ASSUME NEW a \in Made, a.slice = s, a.id = i, i # 0, n \notin misread'
                 PROVE  a.sn \in misread'
      OBVIOUS
    <2>1. i = counter[s] + 1 /\ misread' = misread
      BY <1>1
    <2>2. a.sn \in misread \/ a.id <= counter[s]
      BY DEF LogsSound
    <2> QED BY <1>1, <2>1, <2>2
  <1>8. \A a, b \in Made : a.slice = b.slice /\ a.id = b.id /\ a.id # 0 =>
           a.sn = b.sn \/ a.sn \in misread' \/ b.sn \in misread'
    BY <1>1 DEF LogsSound
  <1>9. \A a, b \in Made \cup {e} : a.slice = b.slice /\ a.id = b.id /\ a.id # 0 =>
           a.sn = b.sn \/ a.sn \in misread' \/ b.sn \in misread'
    BY <1>2, <1>7, <1>8
  <1> QED BY <1>3, <1>5, <1>6, <1>9 DEF LogsSound

\* A log step writes nothing but the entry of its job.
LEMMA LogMade ==
    ASSUME TypeOK, JobsSound, LogsSound, NEW p \in Procs, LogStep(p)
    PROVE  LogsSound'
  <1>1. job[p].pc \in LogPCs /\ UNCHANGED <<counter, misread>>
    BY DEF LogStep, InsertRow, RegisterSlice, AddMac, AddLog, SetLogProp, LogPCs
  <1>2. PICK loc \in PCs : Goto(p, loc)
    BY DEF LogStep, InsertRow, RegisterSlice, AddMac, AddLog, SetLogProp, PCs
  <1>3. Onward(p) /\ job'[p].id = job[p].id
    BY <1>2, GotoFields
  <1>4. EntryOf(job[p]) \in Made
    BY <1>1 DEF Made, Writing
  <1>5. {EntryOf(job'[q]) : q \in Writing'} \subseteq {EntryOf(job[q]) : q \in Writing}
    <2>1. EntryOf(job'[p]) = EntryOf(job[p])
      BY <1>3 DEF EntryOf, Onward
    <2> QED BY <1>1, <1>3, <2>1, WritingKept DEF Onward
  <1> DEFINE e == EntryOf(job[p])
  <1> HIDE DEF e
  <1>6. /\ rows' \subseteq rows \cup {e} /\ log_set' \subseteq log_set \cup {e}
        /\ log_prop' \subseteq log_prop \cup {e}
    BY DEF LogStep, InsertRow, RegisterSlice, AddMac, AddLog, SetLogProp, entries, Join, e
  <1>7. Made' \subseteq Made
    BY <1>4, <1>5, <1>6 DEF Made, e
  <1> QED BY <1>1, <1>7, LogsKept

\* The other steps make nothing.
LEMMA OthersMade ==
    ASSUME TypeOK, LogsSound, UNCHANGED <<counter, misread, rows, log_set, log_prop>>,
           \A q \in Procs : job'[q] = job[q] \/ job'[q].pc \notin LogPCs
    PROVE  LogsSound'
  <1>1. {EntryOf(job'[p]) : p \in Writing'} \subseteq {EntryOf(job[p]) : p \in Writing}
    BY WritingKept
  <1>2. Made' \subseteq Made
    BY <1>1 DEF Made
  <1> QED BY <1>2, LogsKept

\* Such steps: what becomes of the jobs.
LEMMA OtherJobs ==
    ASSUME TypeOK, NEW p \in Procs,
           \/ \E m \in Macs : UserAdd(p, m) \/ ParseApmac(p, m)
           \/ ReadTime(p) \/ SetTime(p) \/ SetListed(p) \/ GetId(p) \/ AddStay(p)
           \/ RecordArrival(p) \/ AddDaily(p) \/ DropLink(p) \/ Restart(p)
    PROVE  /\ UNCHANGED <<counter, misread, rows, mac_set, log_set, log_prop, registered,
                          unregistered>>
           /\ \A q \in Procs : job'[q] = job[q] \/ job'[q].pc \notin LogPCs
  <1>1. UNCHANGED <<counter, misread, rows, mac_set, log_set, log_prop, registered, unregistered>>
    BY DEF UserAdd, ParseApmac, Signal, ReadTime, SetTime, SetListed, GetId, AddStay,
           RecordArrival, AddDaily, DropLink, Restart, logs, entries, slices
  <1>2. job \in [Procs -> Job] /\ NoJob.pc = "idle" /\ NoJob \in Job
    BY NoJobType DEF TypeOK
  <1> DEFINE Off == job'[p].pc \notin LogPCs /\ \A q \in Procs : q # p => job'[q] = job[q]
  <1>3. ASSUME NEW m \in Macs, UserAdd(p, m) \/ ParseApmac(p, m) PROVE Off
    BY <1>3, SignalJob DEF UserAdd, ParseApmac, PCs, LogPCs
  <1>4. ReadTime(p) \/ SetTime(p) => Off
    BY ReadTimeJob, SetTimeJob DEF ReadTime, Onward, LogPCs
  <1>5. ASSUME SetListed(p) \/ AddStay(p) PROVE Off
    <2>1. PICK loc \in {"log_id", "get_id", "arrive"} : Goto(p, loc)
      BY <1>5 DEF SetListed, AddStay
    <2> QED BY <2>1, GotoFields DEF Onward, PCs, LogPCs
  <1>6. GetId(p) => Off
    BY GetIdJob DEF Onward, LogPCs
  <1>7. RecordArrival(p) => Off
    BY <1>2, ArrivalJob, GotoFields DEF Onward, PCs, LogPCs
  <1>8. AddDaily(p) \/ Restart(p) => Off
    BY <1>2 DEF AddDaily, Restart, LogPCs
  <1>9. DropLink(p) => job' = job
    BY DEF DropLink
  <1> QED BY <1>1, <1>3, <1>4, <1>5, <1>6, <1>7, <1>8, <1>9

\* Whatever processes log at once, two signals of a slice have one log id only
\* if the answer to the increment of one of them was misread.
THEOREM LogsAreUnique == Spec => []LogIdsUnique
  <1>1. Init => LogsSound
    BY NoJobType DEF Init, LogsSound, Made, Writing, LogPCs
  <1>2. TypeOK /\ JobsSound /\ LogsSound /\ [Next]_vars => LogsSound'
    <2> SUFFICES ASSUME TypeOK, JobsSound, LogsSound, [Next]_vars PROVE LogsSound'
      OBVIOUS
    <2>1. CASE Tick
      BY <2>1, OthersMade DEF Tick, logs, entries
    <2>2. CASE UNCHANGED vars
      BY <2>2, OthersMade DEF vars, logs, entries
    <2> QED BY <2>1, <2>2, NewId, LogMade, OtherJobs, OthersMade DEF Next, LogStep
  <1>3. Spec => [](TypeOK /\ JobsSound)
    BY InitType, StepType, PTL DEF Spec
  <1>4. LogsSound => LogIdsUnique
    BY DEF LogsSound, LogIdsUnique, Made
  <1> QED BY <1>1, <1>2, <1>3, <1>4, PTL DEF Spec

---------------------------------------------------------------------------
(* Registered slices.                                                      *)

Known == registered \cup unregistered

\* A process that still writes remembers no slice that is not known, and
\* writes to none.
Registered ==
    /\ SlicesRegistered
    /\ \A p \in Procs : link[p] => last[p] = 0 \/ last[p] \in Known
    /\ \A p \in Procs : link[p] /\ job[p].pc \in {"mac_set", "log_set"} =>
          Slice(job[p].now) \in Known

\* Steps that write no slice, register none, and bring no job to mac_set.
LEMMA RegisteredKept ==
    ASSUME Registered, UNCHANGED <<mac_set, log_set, registered, unregistered>>,
           \A q \in Procs : link'[q] => (link[q] /\ last'[q] = last[q]) \/ last'[q] = 0,
           \A q \in Procs : link'[q] /\ job'[q].pc \in {"mac_set", "log_set"} =>
               link[q] /\ job[q].pc \in {"mac_set", "log_set"} /\ job'[q].now = job[q].now
    PROVE  Registered'
  <1>0. Known' = Known
    BY DEF Known
  <1>1. SlicesRegistered'
    BY DEF Registered, SlicesRegistered
  <1>2. \A q \in Procs : link'[q] => last'[q] = 0 \/ last'[q] \in Known'
    BY <1>0 DEF Registered
  <1>3. \A q \in Procs : link'[q] /\ job'[q].pc \in {"mac_set", "log_set"} =>
            Slice(job'[q].now) \in Known'
    BY <1>0 DEF Registered
  <1> QED BY <1>1, <1>2, <1>3 DEF Registered

LEMMA RegisterStep ==
    ASSUME TypeOK, JobsSound, Registered, NEW p \in Procs, RegisterSlice(p)
    PROVE  Registered'
  <1> PICK s : s = Slice(job[p].now)
    OBVIOUS
  <1>1. job[p].pc # "idle" /\ last \in [Procs -> Nat]
    BY DEF TypeOK, RegisterSlice
  <1>2. s \in Nat /\ s # 0 /\ s \in Slices
    BY <1>1, EntryType
  <1>3. /\ last'[p] = s /\ \A q \in Procs : q # p => last'[q] = last[q]
        /\ UNCHANGED <<mac_set, log_set, link>>
        /\ Register(p, s) \/ (last[p] = s /\ UNCHANGED <<registered, unregistered>>)
    BY <1>1, <1>2 DEF RegisterSlice, Remember, entries, env
  <1>4. job'[p].now = job[p].now /\ \A q \in Procs : q # p => job'[q] = job[q]
    BY GotoFields DEF RegisterSlice, PCs, Onward
  <1>5. Known \subseteq Known' /\ (link[p] => s \in Known')
    <2>1. CASE Register(p, s)
      BY <1>2, <2>1, RegisterType DEF Known, TypeOK
    <2>2. CASE last[p] = s /\ UNCHANGED <<registered, unregistered>>
      BY <1>2, <2>2 DEF Known, Registered
    <2> QED BY <1>3, <2>1, <2>2
  <1>6. SlicesRegistered'
    BY <1>3, <1>5 DEF Registered, SlicesRegistered, Known
  <1>7. \A q \in Procs : link'[q] => last'[q] = 0 \/ last'[q] \in Known'
    BY <1>3, <1>5 DEF Registered
  <1>8. \A q \in Procs : link'[q] /\ job'[q].pc \in {"mac_set", "log_set"} =>
            Slice(job'[q].now) \in Known'
    BY <1>3, <1>4, <1>5 DEF Registered
  <1> QED BY <1>6, <1>7, <1>8 DEF Registered

LEMMA WriteStep ==
    ASSUME TypeOK, JobsSound, Registered, NEW p \in Procs, AddMac(p) \/ AddLog(p)
    PROVE  Registered'
  <1> PICK s : s = Slice(job[p].now)
    OBVIOUS
  <1>2. PICK loc \in {"log_set", "log_prop"} : Goto(p, loc)
    BY DEF AddMac, AddLog
  <1>3. job'[p].now = job[p].now /\ \A q \in Procs : q # p => job'[q] = job[q]
    BY <1>2, GotoFields DEF PCs, Onward
  <1>4. UNCHANGED <<last, link>> /\ Known' = Known
    BY DEF AddMac, AddLog, env, slices, Known
  <1>5. link[p] => s \in Known
    BY DEF Registered, AddMac, AddLog
  <1>6. SlicesRegistered'
    <2>1. EntryOf(job[p]).slice = s
      BY DEF EntryOf
    <2>2. \A e \in mac_set' : e[1] \in Known
      <3>1. mac_set' \subseteq IF link[p] THEN mac_set \cup {<<s, job[p].mac>>} ELSE mac_set
        BY DEF AddMac, AddLog, Join, Sent
      <3> QED BY <1>5, <3>1 DEF Registered, SlicesRegistered, Known
    <2>3. \A e \in log_set' : e.slice \in Known
      <3>1. log_set' \subseteq IF link[p] THEN log_set \cup {EntryOf(job[p])} ELSE log_set
        BY DEF AddMac, AddLog, Join, Sent
      <3> QED BY <1>5, <2>1, <3>1 DEF Registered, SlicesRegistered, Known
    <2> QED BY <1>4, <2>2, <2>3 DEF SlicesRegistered, Known
  <1>7. \A q \in Procs : link'[q] => last'[q] = 0 \/ last'[q] \in Known'
    BY <1>4 DEF Registered
  <1>8. \A q \in Procs : link'[q] /\ job'[q].pc \in {"mac_set", "log_set"} =>
            Slice(job'[q].now) \in Known'
    BY <1>3, <1>4, <1>5 DEF Registered
  <1> QED BY <1>6, <1>7, <1>8 DEF Registered

\* The steps that go on within the log, or enter it.
LEMMA OtherLogSteps ==
    ASSUME TypeOK, JobsSound, Registered, NEW p \in Procs,
           NextLogId(p) \/ InsertRow(p) \/ SetLogProp(p)
    PROVE  Registered'
  <1>1. UNCHANGED <<mac_set, log_set, registered, unregistered, last, link>>
    BY DEF NextLogId, InsertRow, SetLogProp, entries, slices, env
  <1>2. job'[p].pc \notin {"mac_set", "log_set"} /\ \A q \in Procs : q # p => job'[q] = job[q]
    <2>1. CASE NextLogId(p)
      BY <2>1, LogIdStep DEF Onward
    <2>2. CASE InsertRow(p) \/ SetLogProp(p)
      <3>1. PICK loc \in {"slice", "get_id"} : Goto(p, loc)
        BY <2>2 DEF InsertRow, SetLogProp
      <3> QED BY <3>1, GotoFields DEF PCs, Onward
    <2> QED BY <2>1, <2>2
  <1> QED BY <1>1, <1>2, RegisteredKept

\* Whatever processes log at once, lose their connection or are restarted, a
\* slice with a log that data.time.set does not lead to was refused there or
\* replaced.
THEOREM SlicesAreRegistered == Spec => []SlicesRegistered
  <1>1. Init => Registered
    BY NoJobType DEF Init, Registered, SlicesRegistered
  <1>2. TypeOK /\ JobsSound /\ Registered /\ [Next]_vars => Registered'
    <2> SUFFICES ASSUME TypeOK, JobsSound, Registered, [Next]_vars PROVE Registered'
      OBVIOUS
    <2>1. CASE Tick
      BY <2>1, RegisteredKept DEF Tick, logs, entries, slices
    <2>2. CASE UNCHANGED vars
      BY <2>2, RegisteredKept DEF vars, logs, entries, slices, env
    <2>3. ASSUME NEW p \in Procs,
                 \/ \E m \in Macs : UserAdd(p, m) \/ ParseApmac(p, m)
                 \/ ReadTime(p) \/ SetTime(p) \/ SetListed(p) \/ GetId(p) \/ AddStay(p)
                 \/ RecordArrival(p) \/ AddDaily(p) \/ DropLink(p) \/ Restart(p)
          PROVE  Registered'
      <3>1. /\ UNCHANGED <<mac_set, log_set, registered, unregistered>>
            /\ \A q \in Procs : job'[q] = job[q] \/ job'[q].pc \notin LogPCs
        BY <2>3, OtherJobs
      <3>2. CASE Restart(p)
        <4>1. job'[p] = NoJob /\ last'[p] = 0 /\ NoJob.pc = "idle"
              /\ \A q \in Procs : q # p => last'[q] = last[q] /\ link'[q] = link[q] /\ job'[q] = job[q]
          BY <3>2, NoJobType DEF Restart, TypeOK
        <4> QED BY <3>1, <4>1, RegisteredKept
      <3>3. CASE ~Restart(p)
        <4>1. last' = last /\ \A q \in Procs : link'[q] => link[q]
          BY <2>3, <3>3 DEF UserAdd, ParseApmac, Signal, ReadTime, SetTime, SetListed, GetId,
                 AddStay, RecordArrival, AddDaily, DropLink, logs, slices, env, TypeOK
        <4> QED BY <3>1, <4>1, RegisteredKept DEF LogPCs
      <3> QED BY <3>2, <3>3
    <2> QED BY <2>1, <2>2, <2>3, RegisterStep, WriteStep, OtherLogSteps DEF Next
  <1>3. Spec => [](TypeOK /\ JobsSound)
    BY InitType, StepType, PTL DEF Spec
  <1>4. Registered => SlicesRegistered
    BY DEF Registered
  <1> QED BY <1>1, <1>2, <1>3, <1>4, PTL DEF Spec

---------------------------------------------------------------------------
(* The stay.  A job owes its gap from the time it writes to its incr.      *)

Busy(p) == job[p].pc # "idle"
\* p works alone on its mac, as every job of that mac has done.
Alone(p) == Busy(p) /\ ~overlap[job[p].mac]

TimesSound == \A m \in Macs : time[m] <= clock /\ (time[m] = 0 => first[m] = 0)
Single == \A p, q \in Procs : Alone(p) /\ Busy(q) /\ job[q].mac = job[p].mac => p = q
Later == \A p \in Procs : Alone(p) => time[job[p].mac] <= job[p].now
\* The time that was read is that of the mac, or was refused and makes room
\* for a whole Cap.
Fresh == \A p \in Procs, m \in Macs :
    Alone(p) /\ link[p] /\ job[p].mac = m /\ job[p].op = "add" /\ job[p].pc = "set_time" =>
        job[p].pre = time[m] \/ stay[User[m]] + Cap <= StayBound(m)
Owed == \A p \in Procs, m \in Macs :
    Alone(p) /\ link[p] /\ job[p].mac = m /\ job[p].op = "add" /\ job[p].pc \in OwedPCs =>
        stay[User[m]] + Min2(job[p].now - job[p].pre, Cap) <= StayBound(m)

StaySound == TimesSound /\ Single /\ Later /\ Fresh /\ Owed /\ StayNotTwice

\* What a step leaves of the job of q, as far as the stay is concerned.
Keeps(q) ==
    job'[q].pc # "idle" =>
        /\ job[q].pc # "idle" /\ (link'[q] => link[q])
        /\ job'[q].mac = job[q].mac /\ job'[q].now = job[q].now
        /\ job'[q].op = job[q].op /\ job'[q].pre = job[q].pre
        /\ job'[q].pc = "set_time" => job[q].pc = "set_time"
        /\ job'[q].op = "add" /\ job'[q].pc \in OwedPCs => job[q].pc \in OwedPCs

LEMMA StayKept ==
    ASSUME TypeOK, StaySound, UNCHANGED <<time, first, slips, stay, overlap>>,
           clock' \in Nat, clock <= clock', \A q \in Procs : Keeps(q)
    PROVE  StaySound'
  <1>0. \A m : StayBound(m)' = StayBound(m)
    BY DEF StayBound
  <1>1. \A q \in Procs : Alone(q)' => Alone(q) /\ job'[q].mac = job[q].mac
    BY DEF Alone, Busy, Keeps
  <1>2. TimesSound'
    BY DEF StaySound, TimesSound, TypeOK
  <1>3. Single'
    BY <1>1 DEF StaySound, Single, Busy, Keeps
  <1>4. Later'
    BY <1>1 DEF StaySound, Later, Alone, Busy, Keeps
  <1>5. Fresh'
    <2> SUFFICES ASSUME NEW q \in Procs, NEW m \in Macs, Alone(q)', link'[q], job'[q].mac = m,
                        job'[q].op = "add", job'[q].pc = "set_time"
                 PROVE  job'[q].pre = time[m] \/ stay[User[m]] + Cap <= StayBound(m)
      BY <1>0 DEF Fresh
    <2>1. /\ Alone(q) /\ link[q] /\ job[q].op = "add" /\ job[q].pc = "set_time"
          /\ job[q].mac = m /\ job'[q].pre = job[q].pre
      BY <1>1 DEF Keeps, Alone, Busy
    <2> QED BY <2>1 DEF StaySound, Fresh
  <1>6. Owed'
    <2> SUFFICES ASSUME NEW q \in Procs, NEW m \in Macs, Alone(q)', link'[q], job'[q].mac = m,
                        job'[q].op = "add", job'[q].pc \in OwedPCs
                 PROVE  stay[User[m]] + Min2(job'[q].now - job'[q].pre, Cap) <= StayBound(m)
      BY <1>0 DEF Owed
    <2>1. Alone(q) /\ link[q] /\ job[q].op = "add" /\ job[q].pc \in OwedPCs
          /\ job[q].mac = m /\ job'[q].now = job[q].now /\ job'[q].pre = job[q].pre
      BY <1>1 DEF Keeps, Alone, Busy
    <2> QED BY <2>1 DEF StaySound, Owed
  <1>7. StayNotTwice'
    BY <1>0 DEF StaySound, StayNotTwice
  <1> QED BY <1>2, <1>3, <1>4, <1>5, <1>6, <1>7 DEF StaySound

LEMMA UserOf ==
    ASSUME TypeOK
    PROVE  /\ \A m \in Macs : User[m] \in Ids /\ User[m] # 0 /\ stay[User[m]] \in Int
                 /\ time[m] \in Nat /\ first[m] \in Nat /\ slips[m] \in Nat
           /\ \A p \in Procs : job[p] \in Job /\ job[p].mac \in Macs /\ job[p].now \in Nat
                 /\ job[p].pre \in Nat
           /\ clock \in Nat /\ Cap \in Nat
  BY IdsPositive, UserType, GapsType DEF TypeOK, Job

\* The bound of a stay is a number.
LEMMA BoundType ==
    ASSUME TypeOK, NEW m \in Macs
    PROVE  StayBound(m) \in Int
  <1>1. Cap \in Nat /\ slips[m] \in Nat /\ time[m] \in Nat /\ first[m] \in Nat
    BY UserOf
  <1>2. Cap * slips[m] \in Int
    BY <1>1
  <1> QED BY <1>1, <1>2 DEF StayBound

\* One reading or writing refused is worth another Cap.
LEMMA SlipBound ==
    ASSUME TypeOK, NEW m \in Macs, NEW n \in Macs,
           slips' = [slips EXCEPT ![n] = slips[n] + 1], time' = time, first' = first
    PROVE  StayBound(m)' = IF m = n THEN StayBound(m) + Cap ELSE StayBound(m)
  <1>1. Cap \in Nat /\ slips[m] \in Nat /\ time[m] \in Nat /\ first[m] \in Nat
    BY UserOf
  <1>2. slips'[m] = IF m = n THEN slips[m] + 1 ELSE slips[m]
    BY DEF TypeOK
  <1>3. Cap * (slips[m] + 1) = Cap * slips[m] + Cap /\ Cap * slips[m] \in Int
    BY <1>1
  <1> PICK c : c = Cap * slips[m]
    OBVIOUS
  <1>4. Cap * slips'[m] = IF m = n THEN c + Cap ELSE c
    BY <1>2, <1>3
  <1> QED BY <1>1, <1>3, <1>4 DEF StayBound

LEMMA SignalStay ==
    ASSUME TypeOK, StaySound, NEW p \in Procs, NEW m \in Macs,
           UserAdd(p, m) \/ ParseApmac(p, m)
    PROVE  StaySound'
  <1>1. PICK op \in {"add", "apmac"}, loc \in {"read_time", "set_time"} :
           Signal(p, m, op, loc) /\ (op = "add" => loc = "read_time")
    BY DEF UserAdd, ParseApmac
  <1>2. /\ job'[p].pc = loc /\ job'[p].op = op /\ job'[p].mac = m /\ job'[p].now = clock
        /\ \A q \in Procs : q # p => job'[q] = job[q]
    BY <1>1, SignalJob DEF PCs
  <1> PICK o : o = (overlap[m] \/ \E q \in Procs : ~At(q, "idle") /\ job[q].mac = m)
    OBVIOUS
  <1>5. overlap' = [overlap EXCEPT ![m] = o]
    BY <1>1 DEF Signal
  <1>6. /\ overlap'[m] = (overlap[m] \/ \E q \in Procs : Busy(q) /\ job[q].mac = m)
        /\ \A n \in Macs : n # m => overlap'[n] = overlap[n]
    BY <1>5 DEF TypeOK, Busy
  <1>7. UNCHANGED <<time, first, slips, stay, clock, link>> /\ ~Busy(p)
    BY <1>1 DEF Signal, places, totals, Busy
  <1>8. \A n \in Macs : ~overlap'[n] => ~overlap[n]
    BY <1>6
  <1>9. \A q \in Procs : q # p /\ Alone(q)' => Alone(q) /\ job[q].mac # m
    <2> SUFFICES ASSUME NEW q \in Procs, q # p, Alone(q)' PROVE Alone(q) /\ job[q].mac # m
      OBVIOUS
    <2>1. job[q].mac \in Macs /\ Busy(q) /\ ~overlap'[job[q].mac]
      BY <1>2, UserOf DEF Alone, Busy
    <2> QED BY <1>6, <1>8, <2>1 DEF Alone
  <1>10. Alone(p)' => \A q \in Procs : ~(Busy(q) /\ job[q].mac = m)
    BY <1>2, <1>6 DEF Alone
  <1>11. TimesSound'
    BY <1>7 DEF StaySound, TimesSound
  <1>12. Single'
    <2> SUFFICES ASSUME NEW q \in Procs, NEW r \in Procs, Alone(q)', Busy(r)', job'[r].mac = job'[q].mac
                 PROVE  q = r
      BY DEF Single
    <2>1. CASE q = p /\ r # p
      BY <1>2, <1>10, <2>1 DEF Busy
    <2>2. CASE q # p /\ r = p
      BY <1>2, <1>9, <2>2
    <2>3. CASE q # p /\ r # p
      BY <1>2, <1>9, <2>3 DEF StaySound, Single, Busy
    <2> QED BY <2>1, <2>2, <2>3
  <1>13. Later'
    BY <1>2, <1>7, <1>9 DEF StaySound, Later, TimesSound
  <1>0. \A n : StayBound(n)' = StayBound(n)
    BY <1>7 DEF StayBound
  <1>14. Fresh'
    <2> SUFFICES ASSUME NEW q \in Procs, NEW n \in Macs, Alone(q)', link[q], job'[q].mac = n,
                        job'[q].op = "add", job'[q].pc = "set_time"
                 PROVE  job'[q].pre = time[n] \/ stay[User[n]] + Cap <= StayBound(n)
      BY <1>0, <1>7 DEF Fresh
    <2>1. q # p
      BY <1>1, <1>2
    <2> QED BY <1>2, <1>9, <2>1 DEF StaySound, Fresh
  <1>15. Owed'
    <2>1. job'[p].pc \notin OwedPCs
      BY <1>2 DEF OwedPCs, LogPCs
    <2> QED BY <1>0, <1>2, <1>7, <1>9, <2>1 DEF StaySound, Owed
  <1>16. StayNotTwice'
    BY <1>0, <1>7, <1>8 DEF StaySound, StayNotTwice
  <1> QED BY <1>11, <1>12, <1>13, <1>14, <1>15, <1>16 DEF StaySound

\* A step changes the bound of one mac alone, and does not lower it if the
\* signals of the mac come one at a time.
Raised(m) ==
    /\ StayBound(m)' \in Int /\ (~overlap[m] => StayBound(m) <= StayBound(m)')
    /\ \A n \in Macs : n # m => StayBound(n)' = StayBound(n)

LEMMA RaisedKeeps ==
    ASSUME TypeOK, StaySound, NEW m \in Macs, Raised(m), UNCHANGED <<stay, overlap>>
    PROVE  StayNotTwice'
  <1> SUFFICES ASSUME NEW n \in Macs, ~overlap[n] PROVE stay[User[n]] <= StayBound(n)'
    BY DEF StayNotTwice
  <1>1. stay[User[n]] <= StayBound(n) /\ stay[User[n]] \in Int /\ StayBound(n) \in Int
    BY BoundType, UserOf DEF StaySound, StayNotTwice
  <1>2. CASE n = m
    BY <1>1, <1>2 DEF Raised
  <1>3. CASE n # m
    BY <1>1, <1>3 DEF Raised
  <1> QED BY <1>2, <1>3

\* A step of p that goes on with its signal leaves the others what they had.
LEMMA OthersStay ==
    ASSUME TypeOK, JobsSound, StaySound, NEW p \in Procs, Busy(p), Busy(p)', Onward(p),
           UNCHANGED <<overlap, clock, link>>
    PROVE  /\ \A q \in Procs : /\ Alone(q)' => Alone(q)
                               /\ Busy(q)' => Busy(q)
                               /\ job'[q].mac = job[q].mac /\ job'[q].now = job[q].now
           /\ \A q \in Procs : q # p /\ Alone(q) => job[q].mac \in Macs /\ job[q].mac # job[p].mac
           /\ Single'
  <1>1. \A q \in Procs : /\ Alone(q)' => Alone(q)
                         /\ Busy(q)' => Busy(q)
                         /\ job'[q].mac = job[q].mac /\ job'[q].now = job[q].now
    BY DEF Alone, Busy, Onward
  <1>2. \A q \in Procs : q # p /\ Alone(q) => job[q].mac \in Macs /\ job[q].mac # job[p].mac
    BY UserOf DEF StaySound, Single
  <1>3. Single'
    BY <1>1 DEF StaySound, Single
  <1> QED BY <1>1, <1>2, <1>3

LEMMA ReadStay ==
    ASSUME TypeOK, JobsSound, StaySound, NEW p \in Procs, ReadTime(p)
    PROVE  StaySound'
  <1> PICK m : m = job[p].mac
    OBVIOUS
  <1>1. PICK done \in BOOLEAN :
           /\ Sent(p, done)
           /\ job' = [job EXCEPT ![p].pc = "set_time", ![p].pre = IF done THEN time[m] ELSE 0]
           /\ slips' = Put(slips, m, slips[m] + 1, Refusal(p, done))
    BY DEF ReadTime
  <1>2. Onward(p) /\ job'[p].pc = "set_time" /\ job'[p].pre = IF done THEN time[m] ELSE 0
    BY <1>1, ReadTimeJob
  <1>3. UNCHANGED <<time, first, stay, overlap, clock, link>> /\ Busy(p) /\ Busy(p)' /\ m \in Macs
    BY <1>2, UserOf DEF ReadTime, totals, env, Busy
  <1>4. /\ \A q \in Procs : /\ Alone(q)' => Alone(q)
                            /\ Busy(q)' => Busy(q)
                            /\ job'[q].mac = job[q].mac /\ job'[q].now = job[q].now
        /\ \A q \in Procs : q # p /\ Alone(q) => job[q].mac \in Macs /\ job[q].mac # m
        /\ Single'
    BY <1>2, <1>3, OthersStay
  <1>5. \A n \in Macs : StayBound(n) \in Int
    BY BoundType
  <1>6. /\ Raised(m)
        /\ link[p] => done \/ StayBound(m)' = StayBound(m) + Cap
    <2>1. CASE Refusal(p, done)
      <3>1. slips' = [slips EXCEPT ![m] = slips[m] + 1]
        BY <1>1, <2>1 DEF Put
      <3>2. \A n \in Macs : StayBound(n)' = IF n = m THEN StayBound(n) + Cap ELSE StayBound(n)
        BY <1>3, <3>1, SlipBound
      <3> QED BY <1>3, <1>5, <3>2, UserOf DEF Raised
    <2>2. CASE ~Refusal(p, done)
      <3>1. slips' = slips
        BY <1>1, <2>2 DEF Put
      <3>2. \A n : StayBound(n)' = StayBound(n)
        BY <1>3, <3>1 DEF StayBound
      <3> QED BY <1>3, <1>5, <2>2, <3>2 DEF Raised, Refusal
    <2> QED BY <2>1, <2>2
  <1>7. \A q \in Procs : q # p /\ Alone(q)' => job'[q] = job[q] /\ Alone(q) /\ job[q].mac # m
    BY <1>2, <1>4 DEF Onward
  <1>8. TimesSound' /\ Later'
    BY <1>3, <1>4 DEF StaySound, TimesSound, Later
  <1>9. Fresh'
    <2> SUFFICES ASSUME NEW q \in Procs, NEW n \in Macs, Alone(q)', link[q], job'[q].mac = n,
                        job'[q].op = "add", job'[q].pc = "set_time"
                 PROVE  job'[q].pre = time[n] \/ stay[User[n]] + Cap <= StayBound(n)'
      BY <1>3 DEF Fresh
    <2>1. CASE q # p
      <3>1. job'[q] = job[q] /\ Alone(q) /\ n # m /\ StayBound(n)' = StayBound(n)
        BY <1>6, <1>7, <2>1 DEF Raised
      <3> QED BY <3>1 DEF StaySound, Fresh
    <2>2. CASE q = p /\ done
      BY <1>2, <1>4, <2>2
    <2>3. CASE q = p /\ ~done
      <3>1. ~overlap[m] /\ n = m
        BY <1>4, <2>3 DEF Alone
      <3>2. stay[User[m]] <= StayBound(m) /\ StayBound(m)' = StayBound(m) + Cap
        BY <1>3, <1>6, <2>3, <3>1 DEF StaySound, StayNotTwice
      <3>3. stay[User[m]] + Cap <= StayBound(m)'
        BY <1>3, <1>5, <3>2, UserOf
      <3> QED BY <3>1, <3>3
    <2> QED BY <2>1, <2>2, <2>3
  <1>10. Owed'
    <2> SUFFICES ASSUME NEW q \in Procs, NEW n \in Macs, Alone(q)', link[q], job'[q].mac = n,
                        job'[q].op = "add", job'[q].pc \in OwedPCs
                 PROVE  stay[User[n]] + Min2(job'[q].now - job'[q].pre, Cap) <= StayBound(n)'
      BY <1>3 DEF Owed
    <2>1. q # p
      BY <1>2 DEF OwedPCs, LogPCs
    <2>2. job'[q] = job[q] /\ Alone(q) /\ n # m /\ StayBound(n)' = StayBound(n)
      BY <1>6, <1>7, <2>1 DEF Raised
    <2> QED BY <2>2 DEF StaySound, Owed
  <1>11. StayNotTwice'
    BY <1>3, <1>6, RaisedKeeps
  <1> QED BY <1>4, <1>8, <1>9, <1>10, <1>11 DEF StaySound

\* What SetTime does to the times, and to the bound of the mac.
LEMMA SetTimes ==
    ASSUME TypeOK, JobsSound, StaySound, NEW p \in Procs, SetTime(p), NEW m \in Macs,
           job[p].mac = m, NEW now \in Nat, now = job[p].now, now # 0
    PROVE  /\ Raised(m)
           /\ \A n \in Macs : n # m => time'[n] = time[n] /\ first'[n] = first[n]
           /\ \/ time'[m] = time[m] /\ first'[m] = first[m]
              \/ time'[m] = now
           /\ ~overlap[m] /\ link[p] /\ job[p].op = "add" =>
                 \/ StayBound(m)' >= StayBound(m) + Cap
                 \/ StayBound(m)' = StayBound(m) + (now - time[m])
  <1>1. PICK done \in BOOLEAN :
           /\ Sent(p, done)
           /\ time' = Put(time, m, now, done)
           /\ first' = Put(first, m, now, done /\ job[p].op = "add" /\ first[m] = 0)
           /\ slips' = Put(slips, m, slips[m] + 1, Refusal(p, done) /\ job[p].op = "add")
    BY DEF SetTime
  <1>2. /\ time \in [Macs -> Nat] /\ first \in [Macs -> Nat] /\ slips \in [Macs -> Nat]
        /\ Cap \in Nat
    BY UserOf DEF TypeOK
  <1>3. ~overlap[m] => time[m] <= now
    BY DEF StaySound, Later, Alone, Busy, SetTime
  <1> PICK c : c = Cap * slips[m]
    OBVIOUS
  <1>4. \A n \in Macs : StayBound(n) \in Int /\ c \in Int
    BY <1>2, BoundType
  <1>5. CASE done
    <2>1. time' = [time EXCEPT ![m] = now] /\ slips' = slips
          /\ \/ job[p].op = "add" /\ first[m] = 0 /\ first' = [first EXCEPT ![m] = now]
             \/ (job[p].op # "add" \/ first[m] # 0) /\ first' = first
      BY <1>1, <1>5 DEF Put, Refusal
    <2>2. \A n \in Macs : n # m => time'[n] = time[n] /\ first'[n] = first[n] /\ slips'[n] = slips[n]
      BY <1>2, <2>1
    <2>3. \A n \in Macs : n # m => StayBound(n)' = StayBound(n)
      BY <2>2 DEF StayBound
    <2>4. CASE first[m] = 0 /\ first' = first
      <3>1. StayBound(m)' = StayBound(m)
        BY <2>1, <2>4 DEF StayBound
      <3> QED BY <1>2, <1>4, <2>1, <2>2, <2>3, <2>4, <3>1 DEF Raised
    <2>5. CASE first[m] = 0 /\ first' = [first EXCEPT ![m] = now]
      <3>1. StayBound(m) = 0 + c /\ StayBound(m)' = Cap + now - now + c
        BY <1>2, <2>1, <2>5 DEF StayBound
      <3>2. StayBound(m)' = StayBound(m) + Cap
        BY <1>2, <1>4, <3>1
      <3> QED BY <1>2, <1>4, <2>1, <2>2, <2>3, <3>2 DEF Raised
    <2>6. CASE first[m] # 0
      <3>1. StayBound(m) = Cap + time[m] - first[m] + c /\ StayBound(m)' = Cap + now - first[m] + c
        BY <1>2, <2>1, <2>6 DEF StayBound
      <3>2. StayBound(m)' = StayBound(m) + (now - time[m])
        BY <1>2, <1>4, <3>1
      <3> QED BY <1>2, <1>3, <1>4, <2>1, <2>2, <2>3, <3>2 DEF Raised
    <2> QED BY <2>1, <2>4, <2>5, <2>6
  <1>6. CASE Refusal(p, done) /\ job[p].op = "add"
    <2>1. time' = time /\ first' = first /\ slips' = [slips EXCEPT ![m] = slips[m] + 1]
      BY <1>1, <1>6 DEF Put, Refusal
    <2>2. \A n \in Macs : StayBound(n)' = IF n = m THEN StayBound(n) + Cap ELSE StayBound(n)
      BY <2>1, SlipBound
    <2> QED BY <1>2, <1>4, <2>1, <2>2 DEF Raised
  <1>7. CASE ~done /\ ~(Refusal(p, done) /\ job[p].op = "add")
    <2>1. time' = time /\ first' = first /\ slips' = slips
      BY <1>1, <1>7 DEF Put, Refusal
    <2>2. \A n : StayBound(n)' = StayBound(n)
      BY <2>1 DEF StayBound
    <2>3. ~(link[p] /\ job[p].op = "add")
      BY <1>7 DEF Refusal
    <2> QED BY <1>4, <2>1, <2>2, <2>3 DEF Raised
  <1> QED BY <1>5, <1>6, <1>7

LEMMA SetStay ==
    ASSUME TypeOK, JobsSound, StaySound, NEW p \in Procs, SetTime(p)
    PROVE  StaySound'
  <1> PICK m : m = job[p].mac
    OBVIOUS
  <1> PICK now : now = job[p].now
    OBVIOUS
  <1>1. Onward(p) /\ job'[p].pc = "set_listed" /\ job'[p].pre = job[p].pre
    BY SetTimeJob
  <1>2. UNCHANGED <<stay, overlap, clock, link>> /\ Busy(p) /\ Busy(p)' /\ job[p].pc = "set_time"
    BY <1>1 DEF SetTime, totals, env, Busy
  <1>3. m \in Macs /\ now \in Nat /\ now # 0 /\ now <= clock
    BY <1>2, UserOf, EpochLate, ClockType, GapsType DEF JobsSound, Busy, Times
  <1>4. /\ \A q \in Procs : /\ Alone(q)' => Alone(q)
                            /\ Busy(q)' => Busy(q)
                            /\ job'[q].mac = job[q].mac /\ job'[q].now = job[q].now
        /\ \A q \in Procs : q # p /\ Alone(q) => job[q].mac \in Macs /\ job[q].mac # m
        /\ Single'
    BY <1>1, <1>2, OthersStay
  <1>5. /\ Raised(m)
        /\ \A n \in Macs : n # m => time'[n] = time[n] /\ first'[n] = first[n]
        /\ \/ time'[m] = time[m] /\ first'[m] = first[m]
           \/ time'[m] = now
        /\ ~overlap[m] /\ link[p] /\ job[p].op = "add" =>
              \/ StayBound(m)' >= StayBound(m) + Cap
              \/ StayBound(m)' = StayBound(m) + (now - time[m])
    BY <1>3, SetTimes
  <1>6. \A n \in Macs : StayBound(n) \in Int
    BY BoundType
  <1>7. \A q \in Procs : q # p /\ Alone(q)' => job'[q] = job[q] /\ Alone(q) /\ job[q].mac # m
    BY <1>1, <1>4 DEF Onward
  <1>8. TimesSound'
    <2> SUFFICES ASSUME NEW n \in Macs PROVE time'[n] <= clock /\ (time'[n] = 0 => first'[n] = 0)
      BY <1>2 DEF TimesSound
    <2> QED BY <1>3, <1>5 DEF StaySound, TimesSound
  <1>9. Later'
    <2> SUFFICES ASSUME NEW q \in Procs, NEW n \in Macs, Alone(q)', job'[q].mac = n
                 PROVE  time'[n] <= job'[q].now
      BY <1>4, UserOf DEF Later
    <2>1. time[n] <= job[q].now /\ job[q].mac = n
      BY <1>4 DEF StaySound, Later
    <2>2. CASE q = p
      BY <1>3, <1>4, <1>5, <2>1, <2>2
    <2>3. CASE q # p
      BY <1>4, <1>5, <1>7, <2>1, <2>3
    <2> QED BY <2>2, <2>3
  <1>10. Fresh'
    <2> SUFFICES ASSUME NEW q \in Procs, NEW n \in Macs, Alone(q)', link[q], job'[q].mac = n,
                        job'[q].op = "add", job'[q].pc = "set_time"
                 PROVE  job'[q].pre = time'[n] \/ stay[User[n]] + Cap <= StayBound(n)'
      BY <1>2 DEF Fresh
    <2>1. q # p
      BY <1>1
    <2>2. job'[q] = job[q] /\ Alone(q) /\ n # m /\ StayBound(n)' = StayBound(n) /\ time'[n] = time[n]
      BY <1>5, <1>7, <2>1 DEF Raised
    <2> QED BY <2>2 DEF StaySound, Fresh
  <1>11. Owed'
    <2> SUFFICES ASSUME NEW q \in Procs, NEW n \in Macs, Alone(q)', link[q], job'[q].mac = n,
                        job'[q].op = "add", job'[q].pc \in OwedPCs
                 PROVE  stay[User[n]] + Min2(job'[q].now - job'[q].pre, Cap) <= StayBound(n)'
      BY <1>2 DEF Owed
    <2>1. CASE q # p
      <3>1. job'[q] = job[q] /\ Alone(q) /\ n # m /\ StayBound(n)' = StayBound(n)
        BY <1>5, <1>7, <2>1 DEF Raised
      <3> QED BY <3>1 DEF StaySound, Owed
    <2>2. CASE q = p
      <3>1. /\ n = m /\ job'[q].now = now /\ job'[q].pre = job[p].pre /\ job[p].op = "add"
            /\ job[p].mac = m /\ link[p] /\ Alone(p) /\ ~overlap[m]
        BY <1>1, <1>4, <2>2 DEF Alone, Onward
      <3>2. stay[User[m]] <= StayBound(m) /\ time[m] <= now
        BY <1>3, <3>1 DEF StaySound, StayNotTwice, Later
      <3>3. job[p].pre = time[m] \/ stay[User[m]] + Cap <= StayBound(m)
        BY <1>2, <1>3, <3>1 DEF StaySound, Fresh
      <3>4. \/ StayBound(m)' >= StayBound(m) + Cap
            \/ StayBound(m)' = StayBound(m) + (now - time[m])
        BY <1>5, <3>1
      <3> PICK g : g = Min2(now - job[p].pre, Cap)
        OBVIOUS
      <3>5. g \in Int /\ g <= Cap /\ g <= now - job[p].pre
        BY <1>3, UserOf DEF Min2
      <3>6. /\ stay[User[m]] \in Int /\ StayBound(m) \in Int /\ StayBound(m)' \in Int /\ Cap \in Nat
            /\ time[m] \in Nat
        BY <1>3, <1>5, <1>6, UserOf DEF Raised
      <3>7. stay[User[m]] + g <= StayBound(m)'
        BY <1>3, <3>2, <3>3, <3>4, <3>5, <3>6
      <3> QED BY <3>1, <3>7
    <2> QED BY <2>1, <2>2
  <1>12. StayNotTwice'
    BY <1>2, <1>3, <1>5, RaisedKeeps
  <1> QED BY <1>4, <1>8, <1>9, <1>10, <1>11, <1>12 DEF StaySound

LEMMA CountStay ==
    ASSUME TypeOK, JobsSound, StaySound, NEW p \in Procs, AddStay(p)
    PROVE  StaySound'
  <1> PICK m : m = job[p].mac
    OBVIOUS
  <1> PICK u : u = job[p].user
    OBVIOUS
  <1> PICK g : g = Min2(job[p].now - job[p].pre, Cap)
    OBVIOUS
  <1>1. m \in Macs /\ u \in {0, User[m]} /\ job[p].op = "add" /\ job[p].pc = "stay" /\ Busy(p)
    BY UserOf DEF AddStay, JobsSound, AddPCs, Busy
  <1>2. /\ \/ link[p] /\ stay' = [stay EXCEPT ![u] = stay[u] + g]
           \/ stay' = stay
        /\ UNCHANGED <<time, first, slips, overlap, clock, link>>
    BY DEF AddStay, Put, Sent, places, env
  <1>3. g \in Int /\ u \in Ids \cup {0}
    BY <1>1, UserOf DEF Min2
  <1>4. \A n \in Macs : n # m => stay'[User[n]] = stay[User[n]]
    BY <1>1, <1>2, <1>3, UserOf, UserInjective DEF TypeOK
  <1>5. stay'[User[m]] = stay[User[m]] \/ (link[p] /\ stay'[User[m]] = stay[User[m]] + g)
    BY <1>1, <1>2, <1>3, UserOf DEF TypeOK
  <1>6. Onward(p) /\ job'[p].pc = "arrive" /\ Busy(p)'
    BY GotoFields DEF AddStay, PCs, Busy
  <1>7. /\ \A q \in Procs : /\ Alone(q)' => Alone(q)
                            /\ Busy(q)' => Busy(q)
                            /\ job'[q].mac = job[q].mac /\ job'[q].now = job[q].now
        /\ \A q \in Procs : q # p /\ Alone(q) => job[q].mac \in Macs /\ job[q].mac # m
        /\ Single'
    BY <1>1, <1>2, <1>6, OthersStay
  <1>8. \A n : StayBound(n)' = StayBound(n)
    BY <1>2 DEF StayBound
  <1>9. \A q \in Procs : q # p /\ Alone(q)' => job'[q] = job[q] /\ Alone(q) /\ job[q].mac # m
    BY <1>6, <1>7 DEF Onward
  <1>10. TimesSound' /\ Later'
    BY <1>2, <1>7 DEF StaySound, TimesSound, Later
  <1>11. Fresh'
    <2> SUFFICES ASSUME NEW q \in Procs, NEW n \in Macs, Alone(q)', link[q], job'[q].mac = n,
                        job'[q].op = "add", job'[q].pc = "set_time"
                 PROVE  job'[q].pre = time[n] \/ stay'[User[n]] + Cap <= StayBound(n)
      BY <1>2, <1>8 DEF Fresh
    <2>1. job'[q] = job[q] /\ Alone(q) /\ n # m /\ stay'[User[n]] = stay[User[n]]
      BY <1>4, <1>6, <1>9
    <2> QED BY <2>1 DEF StaySound, Fresh
  <1>12. Owed'
    <2> SUFFICES ASSUME NEW q \in Procs, NEW n \in Macs, Alone(q)', link[q], job'[q].mac = n,
                        job'[q].op = "add", job'[q].pc \in OwedPCs
                 PROVE  stay'[User[n]] + Min2(job'[q].now - job'[q].pre, Cap) <= StayBound(n)
      BY <1>2, <1>8 DEF Owed
    <2>1. q # p
      BY <1>6 DEF OwedPCs, LogPCs
    <2>2. job'[q] = job[q] /\ Alone(q) /\ n # m /\ stay'[User[n]] = stay[User[n]]
      BY <1>4, <1>9, <2>1
    <2> QED BY <2>2 DEF StaySound, Owed
  <1>13. StayNotTwice'
    <2> SUFFICES ASSUME NEW n \in Macs, ~overlap[n] PROVE stay'[User[n]] <= StayBound(n)
      BY <1>2, <1>8 DEF StayNotTwice
    <2>1. stay[User[n]] <= StayBound(n)
      BY DEF StaySound, StayNotTwice
    <2>2. CASE n = m /\ link[p] /\ stay'[User[m]] = stay[User[m]] + g
      <3>1. Alone(p) /\ job[p].pc \in OwedPCs
        BY <1>1, <2>2 DEF Alone, OwedPCs
      <3>2. stay[User[m]] + g <= StayBound(m)
        BY <1>1, <2>2, <3>1 DEF StaySound, Owed
      <3> QED BY <2>2, <3>2
    <2> QED BY <1>4, <1>5, <2>1, <2>2
  <1> QED BY <1>7, <1>10, <1>11, <1>12, <1>13 DEF StaySound

\* A step that only moves a job on.
LEMMA MoveStay ==
    ASSUME TypeOK, JobsSound, StaySound, NEW p \in Procs, Onward(p), job'[p].pre = job[p].pre,
           job[p].pc # "idle", job'[p].pc # "set_time",
           job[p].op = "add" /\ job'[p].pc \in OwedPCs => job[p].pc \in OwedPCs,
           UNCHANGED <<time, first, slips, stay, overlap, clock, link>>
    PROVE  StaySound'
  <1>1. Keeps(p)
    BY DEF Keeps, Onward
  <1>2. \A q \in Procs : q # p => Keeps(q)
    BY DEF Keeps, Onward
  <1> QED BY <1>1, <1>2, StayKept DEF TypeOK

\* A step that ends a job, or starts none.
LEMMA EndStay ==
    ASSUME TypeOK, JobsSound, StaySound,
           UNCHANGED <<time, first, slips, stay, overlap>>, clock' \in Nat, clock <= clock',
           \A q \in Procs : job'[q].pc = "idle" \/ (job'[q] = job[q] /\ (link'[q] => link[q]))
    PROVE  StaySound'
  <1>1. \A q \in Procs : Keeps(q)
    BY DEF Keeps
  <1> QED BY <1>1, StayKept

\* A job keeps what the stay depends on while it logs.
LEMMA LoggingStay ==
    ASSUME TypeOK, JobsSound, StaySound, NEW p \in Procs,
           SetListed(p) \/ NextLogId(p) \/ LogStep(p)
    PROVE  StaySound'
  <1>1. UNCHANGED <<time, first, slips, stay, overlap, clock, link>>
    BY DEF SetListed, NextLogId, LogStep, InsertRow, RegisterSlice, AddMac, AddLog, SetLogProp,
           places, totals, env
  <1>2. job[p].pc \in LogPCs \cup {"set_listed", "log_id"}
    BY DEF SetListed, NextLogId, LogStep, InsertRow, RegisterSlice, AddMac, AddLog, SetLogProp,
           LogPCs
  <1>3. Onward(p) /\ job'[p].pre = job[p].pre /\ job'[p].pc # "set_time"
    <2>1. CASE NextLogId(p)
      BY <2>1, LogIdStep
    <2>2. CASE SetListed(p) \/ LogStep(p)
      <3>1. PICK loc \in {"log_id", "slice", "mac_set", "log_set", "log_prop", "get_id"} : Goto(p, loc)
        BY <2>2 DEF SetListed, LogStep, InsertRow, RegisterSlice, AddMac, AddLog, SetLogProp
      <3> QED BY <3>1, GotoFields DEF PCs
    <2> QED BY <2>1, <2>2
  <1>4. job[p].pc # "idle" /\ job[p].pc \in OwedPCs
    BY <1>2 DEF LogPCs, OwedPCs
  <1> QED BY <1>1, <1>3, <1>4, MoveStay

\* The rest of the work on a signal, and its end.
LEMMA EndingStay ==
    ASSUME TypeOK, JobsSound, StaySound, NEW p \in Procs,
           GetId(p) \/ RecordArrival(p) \/ AddDaily(p)
    PROVE  StaySound'
  <1>1. job \in [Procs -> Job] /\ NoJob.pc = "idle" /\ clock \in Nat
    BY NoJobType DEF TypeOK
  <1>2. UNCHANGED <<time, first, slips, stay, overlap, clock, link>> /\ job[p].pc # "idle"
    BY DEF GetId, RecordArrival, AddDaily, places, totals, env
  <1>3. CASE GetId(p)
    <2>1. job[p].pc \in OwedPCs
      BY <1>3 DEF GetId, OwedPCs
    <2> QED BY <1>2, <1>3, <2>1, GetIdJob, MoveStay
  <1>4. CASE RecordArrival(p) /\ Goto(p, "daily")
    <2>1. Onward(p) /\ job'[p].pc = "daily" /\ job'[p].pre = job[p].pre
      BY <1>4, GotoFields DEF PCs
    <2>2. "daily" \notin OwedPCs
      BY DEF OwedPCs, LogPCs
    <2> QED BY <1>2, <2>1, <2>2, MoveStay
  <1>5. CASE job' = [job EXCEPT ![p] = NoJob]
    BY <1>1, <1>2, <1>5, EndStay
  <1> QED BY <1>3, <1>4, <1>5, ArrivalJob DEF AddDaily

LEMMA EnvStay ==
    ASSUME TypeOK, JobsSound, StaySound,
           Tick \/ (\E p \in Procs : DropLink(p) \/ Restart(p)) \/ UNCHANGED vars
    PROVE  StaySound'
  <1>1. job \in [Procs -> Job] /\ NoJob.pc = "idle" /\ clock \in Nat
    BY NoJobType DEF TypeOK
  <1>2. CASE Tick
    BY <1>1, <1>2, EndStay DEF Tick, places, totals
  <1>3. ASSUME NEW p \in Procs, DropLink(p) PROVE StaySound'
    <2>1. UNCHANGED <<time, first, slips, stay, overlap, clock, job>>
          /\ \A q \in Procs : link'[q] => link[q]
      BY <1>3 DEF DropLink, places, totals, TypeOK
    <2> QED BY <1>1, <2>1, EndStay
  <1>4. ASSUME NEW p \in Procs, Restart(p) PROVE StaySound'
    <2>1. UNCHANGED <<time, first, slips, stay, overlap, clock>>
      BY <1>4 DEF Restart, places, totals
    <2>2. job'[p] = NoJob /\ \A q \in Procs : q # p => job'[q] = job[q] /\ link'[q] = link[q]
      BY <1>1, <1>4 DEF Restart, TypeOK
    <2> QED BY <1>1, <2>1, <2>2, EndStay
  <1>5. CASE UNCHANGED vars
    BY <1>1, <1>5, EndStay DEF vars, places, totals, env
  <1> QED BY <1>2, <1>3, <1>4, <1>5

\* A mac whose signals were worked on one at a time has not stayed longer than
\* the time between its first and its last, one Cap, and one more for each time
\* that was refused, whichever processes worked on them and wherever they died.
THEOREM StayIsNotTwice == Spec => []StayNotTwice
  <1>1. Init => StaySound
    <2> SUFFICES ASSUME Init PROVE StaySound
      OBVIOUS
    <2>1. /\ \A m \in Macs : time[m] = 0 /\ first[m] = 0 /\ slips[m] = 0 /\ stay[User[m]] = 0
          /\ \A p \in Procs : ~Busy(p)
          /\ 0 <= clock
      BY NoJobType, UserType, ClockType DEF Init, Busy
    <2>2. \A m \in Macs : StayBound(m) = 0
      BY <2>1, GapsType DEF StayBound
    <2> QED BY <2>1, <2>2 DEF StaySound, TimesSound, Single, Later, Fresh, Owed, StayNotTwice, Alone
  <1>2. TypeOK /\ JobsSound /\ StaySound /\ [Next]_vars => StaySound'
    <2> SUFFICES ASSUME TypeOK, JobsSound, StaySound, [Next]_vars PROVE StaySound'
      OBVIOUS
    <2> QED BY SignalStay, ReadStay, SetStay, CountStay, LoggingStay, EndingStay, EnvStay
            DEF Next, LogStep
  <1>3. Spec => [](TypeOK /\ JobsSound)
    BY InitType, StepType, PTL DEF Spec
  <1>4. StaySound => StayNotTwice
    BY DEF StaySound
  <1> QED BY <1>1, <1>2, <1>3, <1>4, PTL DEF Spec
=============================================================================
