----------------------- MODULE KafkaReceiversProofs -----------------------
(***************************************************************************)
(* Theorems about KafkaReceivers, for any phones, messages and restarts.   *)
(***************************************************************************)
EXTENDS KafkaReceivers, SequenceTheorems, TLAPS

USE DEF At, Users, Receivers

\* The initial state.
LEMMA InitIInv == Init => IInv
  <1> SUFFICES ASSUME Init PROVE IInv
    OBVIOUS
  <1>1. NoJob \in Job /\ NoJob.pc = "idle"
    BY DEF NoJob, Job, PCs
  <1>2. TypeOK
    BY <1>1, BoundsType DEF Init, TypeOK, history
  <1>3. JobSound /\ SignalsOnce /\ SignalsAhead
    BY <1>1 DEF Init, JobSound, SignalsOnce, SignalsAhead
  <1>4. PhonesFollowTopic
    BY <1>1 DEF Init, PhonesFollowTopic, Done
  <1> QED BY <1>2, <1>3, <1>4 DEF IInv

\* The message in work.
LEMMA MessageType ==
    ASSUME TypeOK, JobSound, NEW r \in Receivers, ~At(r, "idle")
    PROVE  Message(r) \in Messages(r) /\ offset[r] \in 1..Len(topic[r])
  <1>1. topic[r] \in Seq(Messages(r)) /\ offset[r] \in 1..Len(topic[r])
    BY DEF TypeOK, JobSound
  <1> QED BY <1>1, ElementOfSeq DEF Message

\* A message is appended at the end of its topic.
LEMMA SendTopic ==
    ASSUME TypeOK, NEW r \in Receivers, NEW msg \in Messages(r), Send(r, msg)
    PROVE  /\ TypeOK'
           /\ \A s \in Receivers : Len(topic[s]) <= Len(topic'[s])
           /\ \A s \in Receivers : \A k \in 1..Len(topic[s]) : topic'[s][k] = topic[s][k]
  <1> DEFINE All == UNION {Messages(s) : s \in Receivers}
  <1>1. /\ topic' = [topic EXCEPT ![r] = Append(topic[r], msg)]
        /\ UNCHANGED <<up, offset, job, phone, labels, link, starts, history>>
    BY DEF Send
  <1>2. topic[r] \in Seq(Messages(r)) /\ topic[r] \in Seq(All) /\ msg \in All
    BY DEF TypeOK
  <1> HIDE DEF All
  <1>3. /\ Append(topic[r], msg) \in Seq(Messages(r))
        /\ Append(topic[r], msg) \in Seq(All)
        /\ Len(Append(topic[r], msg)) = Len(topic[r]) + 1
        /\ Len(topic[r]) \in Nat
        /\ \A k \in 1..Len(topic[r]) : Append(topic[r], msg)[k] = topic[r][k]
    BY <1>2
  <1>4. topic \in [Receivers -> Seq(All)]
    BY DEF TypeOK, All
  <1>5. \A s \in Receivers : topic'[s] = IF s = r THEN Append(topic[r], msg) ELSE topic[s]
    BY <1>1, <1>4
  <1>6. topic' \in [Receivers -> Seq(All)]
    BY <1>1, <1>3, <1>4
  <1>7. \A s \in Receivers : topic'[s] \in Seq(Messages(s))
    BY <1>3, <1>5 DEF TypeOK
  <1>8. TypeOK'
    BY <1>1, <1>6, <1>7 DEF TypeOK, history, All
  <1>9. \A s \in Receivers : Len(topic[s]) \in Nat
    BY LenProperties DEF TypeOK
  <1>10. ASSUME NEW s \in Receivers
         PROVE  /\ Len(topic[s]) <= Len(topic'[s])
                /\ \A k \in 1..Len(topic[s]) : topic'[s][k] = topic[s][k]
    <2>1. CASE s = r
      <3>1. topic'[s] = Append(topic[r], msg)
        BY <1>5, <2>1
      <3> QED BY <1>3, <2>1, <3>1
    <2>2. CASE s # r
      <3>1. topic'[s] = topic[s]
        BY <1>5, <2>2
      <3> QED BY <1>9, <3>1
    <2> QED BY <2>1, <2>2
  <1> QED BY <1>8, <1>10

\* Type correctness is preserved.
LEMMA NextTypes ==
    ASSUME TypeOK, JobSound, [Next]_vars
    PROVE  TypeOK'
  <1>1. ASSUME NEW r \in Receivers, Start(r) PROVE TypeOK'
    <2>1. StartOffset(r) \in Nat
      BY LenProperties DEF TypeOK, StartOffset
    <2>2. starts' \in 0..MaxStarts /\ link' \in BOOLEAN
      BY <1>1, BoundsType DEF Start, TypeOK
    <2> QED BY <1>1, <2>1, <2>2 DEF Start, TypeOK
  <1>2. ASSUME NEW r \in Receivers, Kill(r) PROVE TypeOK'
    BY <1>2 DEF Kill, TypeOK, NoJob, Job, PCs
  <1>3. ASSUME NEW r \in Receivers, ConsumeFailed(r) PROVE TypeOK'
    BY <1>3 DEF ConsumeFailed, TypeOK, history
  <1>4. ASSUME NEW r \in Receivers, Consume(r) PROVE TypeOK'
    <2>1. job' \in [Receivers -> Job]
      <3>1. PICK loc \in PCs : job' = [job EXCEPT ![r].pc = loc]
        BY <1>4 DEF Consume, PCs
      <3>2. job \in [Receivers -> Job] /\ [job[r] EXCEPT !.pc = loc] \in Job
        BY DEF TypeOK, Job
      <3>3. job' = [job EXCEPT ![r] = [job[r] EXCEPT !.pc = loc]]
        BY <3>1
      <3> QED BY <3>2, <3>3
    <2>2. begun' \in [1..MaxMessages -> Nat]
      <3>1. CASE r = "signal"
        <4>1. begun' = [begun EXCEPT ![offset[r] + 1] = begun[offset[r] + 1] + 1]
          BY <1>4, <3>1 DEF Consume
        <4>2. begun \in [1..MaxMessages -> Nat]
          BY DEF TypeOK
        <4>3. ASSUME NEW k \in 1..MaxMessages PROVE begun'[k] \in Nat
          BY <4>1, <4>2
        <4> QED BY <4>1, <4>2, <4>3
      <3>2. CASE r # "signal"
        BY <1>4, <3>2 DEF Consume, TypeOK
      <3> QED BY <3>1, <3>2
    <2>3. offset' \in [Receivers -> Nat]
      <3>1. offset' = [offset EXCEPT ![r] = offset[r] + 1]
        BY <1>4 DEF Consume
      <3> QED BY <3>1 DEF TypeOK
    <2> QED BY <1>4, <2>1, <2>2, <2>3 DEF Consume, TypeOK
  <1>5. ASSUME NEW r \in Receivers, GetUser(r) PROVE TypeOK'
    <2>1. r # "signal" /\ Message(r).mac \in Macs
      BY <1>5, MessageType DEF GetUser, JobSound, Messages, PhoneMessage, TagMessage
    <2>2. User[Message(r).mac] \in Ids /\ Ghosts \subseteq Ids
      BY <2>1, UserType
    <2>3. PICK i \in Users : job' = [job EXCEPT ![r].pc = "write", ![r].user = i]
      BY <1>5, <2>2 DEF GetUser
    <2>4. job' \in [Receivers -> Job]
      BY <2>3 DEF TypeOK, Job, PCs
    <2> QED BY <1>5, <2>4 DEF GetUser, TypeOK, history
  <1>6. CASE UpdatePhone
    <2>1. Message("phone") \in PhoneMessage /\ offset["phone"] \in Nat
      BY <1>6, MessageType DEF UpdatePhone, Messages, TypeOK
    <2>2. job["phone"] \in Job /\ NoJob \in Job
      BY DEF TypeOK, NoJob, Job, PCs
    <2>3. phone' \in [Users -> Phones \cup {NoPhone}]
      BY <1>6, <2>1, <2>2 DEF UpdatePhone, TypeOK, PhoneMessage, Job
    <2>4. missed' \in [Receivers -> SUBSET Nat] /\ webbed' \subseteq Macs
      BY <1>6, <2>1 DEF UpdatePhone, TypeOK
    <2> QED BY <1>6, <2>2, <2>3, <2>4 DEF UpdatePhone, TypeOK
  <1>7. CASE SetLabel
    <2>1. Message("tag") \in TagMessage /\ offset["tag"] \in Nat
      BY <1>7, MessageType DEF SetLabel, Messages, TypeOK
    <2>2. job["tag"] \in Job /\ NoJob \in Job
      BY DEF TypeOK, NoJob, Job, PCs
    <2>3. labels' \subseteq Users \X Tags
      BY <1>7, <2>1, <2>2 DEF SetLabel, TypeOK, TagMessage, Job
    <2>4. missed' \in [Receivers -> SUBSET Nat]
      BY <1>7, <2>1 DEF SetLabel, TypeOK
    <2> QED BY <1>7, <2>2, <2>3, <2>4 DEF SetLabel, TypeOK
  <1>8. CASE EndSignal
    BY <1>8 DEF EndSignal, TypeOK, history, NoJob, Job, PCs
  <1>9. ASSUME NEW r \in Receivers, NEW msg \in Messages(r), Send(r, msg) PROVE TypeOK'
    BY <1>9, SendTopic
  <1>10. ASSUME NEW m \in Macs, NEW ph \in Phones, WebUpdate(m, ph) PROVE TypeOK'
    BY <1>10 DEF WebUpdate, TypeOK
  <1>11. CASE DropLink
    BY <1>11 DEF DropLink, TypeOK, history
  <1>12. CASE UNCHANGED vars
    BY <1>12 DEF vars, TypeOK, history
  <1> QED
    BY <1>1, <1>2, <1>3, <1>4, <1>5, <1>6, <1>7, <1>8, <1>9, <1>10, <1>11, <1>12 DEF Next, Step
---------------------------------------------------------------------------
\* What a receiver knows is preserved.
LEMMA NextJobs ==
    ASSUME TypeOK, JobSound, [Next]_vars
    PROVE  JobSound'
  <1>0. /\ \A r \in Receivers : Len(topic[r]) \in Nat
        /\ job \in [Receivers -> Job] /\ offset \in [Receivers -> Nat]
    BY LenProperties DEF TypeOK
  <1>1. ASSUME NEW r \in Receivers, Start(r) PROVE JobSound'
    <2>1. At(r, "idle") /\ StartOffset(r) \in 0..Len(topic[r])
      BY <1>0, <1>1 DEF Start, JobSound, StartOffset
    <2>2. /\ UNCHANGED <<topic, job>> /\ \A s \in Receivers : s # r => offset'[s] = offset[s] /\ up'[s] = up[s]
          /\ offset'[r] = StartOffset(r)
      BY <1>0, <1>1 DEF Start, TypeOK
    <2>3. \A s \in Receivers : offset'[s] <= Len(topic'[s])
      BY <1>0, <2>1, <2>2 DEF JobSound
    <2>4. \A s \in Receivers : At(s, "idle")' \/ (up'[s] /\ offset'[s] > 0)
      BY <2>1, <2>2 DEF JobSound
    <2>5. At("phone", "write")' =>
             job'["phone"].user \in {0, User[Message("phone")'.mac]}
      BY <2>1, <2>2 DEF JobSound, Message
    <2> QED BY <2>2, <2>3, <2>4, <2>5 DEF JobSound
  <1>2. ASSUME NEW r \in Receivers, Kill(r) PROVE JobSound'
    <2>1. /\ UNCHANGED <<topic, offset>> /\ job' = [job EXCEPT ![r] = NoJob]
          /\ \A s \in Receivers : s # r => up'[s] = up[s]
      BY <1>2 DEF Kill, TypeOK
    <2>2. \A s \in Receivers : job'[s] = job[s] \/ job'[s] = NoJob
      BY <1>0, <2>1
    <2>3. NoJob.pc = "idle" /\ job'[r] = NoJob
      BY <1>0, <2>1 DEF NoJob
    <2> QED BY <1>0, <2>1, <2>2, <2>3 DEF JobSound, Message
  <1>3. ASSUME NEW r \in Receivers, ConsumeFailed(r) PROVE JobSound'
    BY <1>3 DEF ConsumeFailed, JobSound, Message, TypeOK
  <1>4. ASSUME NEW r \in Receivers, Consume(r) PROVE JobSound'
    <2>1. PICK loc \in {"signal", "get_id"} :
             /\ job' = [job EXCEPT ![r].pc = loc]
             /\ loc = "signal" <=> r = "signal"
      BY <1>4 DEF Consume
    <2>2. /\ \A s \in Receivers : job'[s].pc = IF s = r THEN loc ELSE job[s].pc
          /\ \A s \in Receivers : s # r => job'[s] = job[s]
      BY <1>0, <2>1 DEF Job
    <2>3. /\ UNCHANGED <<topic, up>> /\ up[r]
          /\ offset[r] < Len(topic[r])
          /\ \A s \in Receivers : offset'[s] = IF s = r THEN offset[s] + 1 ELSE offset[s]
      BY <1>0, <1>4 DEF Consume
    <2> QED BY <1>0, <2>1, <2>2, <2>3 DEF JobSound, Message
  <1>5. ASSUME NEW r \in Receivers, GetUser(r) PROVE JobSound'
    <2>1. PICK i \in {0, User[Message(r).mac]} \cup (IF r = "tag" THEN Ghosts ELSE {}) :
             job' = [job EXCEPT ![r].pc = "write", ![r].user = i]
      BY <1>5 DEF GetUser
    <2>2. /\ \A s \in Receivers : s # r => job'[s] = job[s]
          /\ job'[r].pc = "write" /\ job'[r].user = i
      BY <1>0, <2>1 DEF Job
    <2>3. UNCHANGED <<topic, offset, up>> /\ job[r].pc = "get_id"
      BY <1>5 DEF GetUser
    <2> QED BY <1>0, <2>1, <2>2, <2>3 DEF JobSound, Message
  <1>6. ASSUME NEW r \in Receivers, job' = [job EXCEPT ![r] = NoJob],
               UNCHANGED <<topic, offset, up>>
        PROVE  JobSound'
    <2>1. NoJob.pc = "idle" /\ \A s \in Receivers : job'[s] = IF s = r THEN NoJob ELSE job[s]
      BY <1>0, <1>6 DEF NoJob
    <2> QED BY <1>0, <1>6, <2>1 DEF JobSound, Message
  <1>7. CASE UpdatePhone \/ SetLabel \/ EndSignal
    BY <1>6, <1>7 DEF UpdatePhone, SetLabel, EndSignal
  <1>8. ASSUME NEW r \in Receivers, NEW msg \in Messages(r), Send(r, msg) PROVE JobSound'
    <2>1. /\ \A s \in Receivers : Len(topic[s]) <= Len(topic'[s])
          /\ \A s \in Receivers : \A k \in 1..Len(topic[s]) : topic'[s][k] = topic[s][k]
          /\ \A s \in Receivers : Len(topic'[s]) \in Nat
      BY <1>8, SendTopic, LenProperties DEF TypeOK
    <2>2. UNCHANGED <<up, offset, job>>
      BY <1>8 DEF Send
    <2>3. At("phone", "write") => Message("phone")' = Message("phone")
      BY <1>0, <2>1, <2>2 DEF JobSound, Message
    <2>4. \A s \in Receivers : offset'[s] <= Len(topic'[s])
      <3> TAKE s \in Receivers
      <3>1. offset[s] <= Len(topic[s]) /\ offset'[s] = offset[s]
        BY <2>2 DEF JobSound
      <3>2. offset[s] \in Nat /\ Len(topic[s]) \in Nat
        BY <1>0
      <3>3. Len(topic[s]) <= Len(topic'[s]) /\ Len(topic'[s]) \in Nat
        BY <2>1
      <3> QED BY <3>1, <3>2, <3>3
    <2> QED BY <2>2, <2>3, <2>4 DEF JobSound
  <1>9. ASSUME UNCHANGED <<topic, up, offset, job>> PROVE JobSound'
    BY <1>9 DEF JobSound, Message
  <1>10. ASSUME NEW m \in Macs, NEW ph \in Phones, WebUpdate(m, ph) PROVE JobSound'
    BY <1>9, <1>10 DEF WebUpdate
  <1>11. CASE DropLink \/ UNCHANGED vars
    BY <1>9, <1>11 DEF DropLink, vars
  <1> QED
    BY <1>1, <1>2, <1>3, <1>4, <1>5, <1>7, <1>8, <1>10, <1>11 DEF Next, Step

---------------------------------------------------------------------------
\* Only Consume begins a signal, and the offset of signals never goes back.
LEMMA NextSignals ==
    ASSUME TypeOK, JobSound, SignalsOnce, SignalsAhead, [Next]_vars
    PROVE  SignalsOnce' /\ SignalsAhead'
  <1>0. Len(topic["signal"]) \in Nat /\ offset["signal"] \in 0..Len(topic["signal"])
    BY LenProperties DEF TypeOK, JobSound
  <1>1. ASSUME begun' = begun, offset'["signal"] \in Nat, offset'["signal"] >= offset["signal"]
        PROVE  SignalsOnce' /\ SignalsAhead'
    BY <1>0, <1>1 DEF SignalsOnce, SignalsAhead
  <1>2. ASSUME NEW r \in Receivers, Start(r) PROVE SignalsOnce' /\ SignalsAhead'
    <2>1. offset'["signal"] = IF r = "signal" THEN Len(topic["signal"]) ELSE offset["signal"]
      BY <1>2 DEF Start, StartOffset, TypeOK
    <2> QED BY <1>0, <1>1, <1>2, <2>1 DEF Start
  <1>3. ASSUME NEW r \in Receivers, Consume(r) PROVE SignalsOnce' /\ SignalsAhead'
    <2>1. CASE r = "signal"
      <3>1. /\ begun' = [begun EXCEPT ![offset[r] + 1] = begun[offset[r] + 1] + 1]
            /\ offset'["signal"] = offset["signal"] + 1
        BY <1>3, <2>1 DEF Consume, TypeOK
      <3>2. \A k \in 1..MaxMessages :
               begun'[k] = IF k = offset["signal"] + 1 THEN begun[k] + 1 ELSE begun[k]
        BY <2>1, <3>1 DEF TypeOK
      <3>3. \A k \in 1..MaxMessages : k > offset["signal"] => begun[k] = 0
        BY DEF SignalsAhead
      <3>4. \A k \in 1..MaxMessages : begun[k] \in Nat /\ begun[k] <= 1
        BY DEF SignalsOnce, TypeOK
      <3> QED BY <1>0, <3>1, <3>2, <3>3, <3>4, BoundsType DEF SignalsOnce, SignalsAhead
    <2>2. CASE r # "signal"
      <3>1. begun' = begun /\ offset'["signal"] = offset["signal"]
        BY <1>3, <2>2 DEF Consume, TypeOK
      <3> QED BY <1>0, <1>1, <3>1
    <2> QED BY <2>1, <2>2
  <1>4. CASE UNCHANGED <<begun, offset>>
    BY <1>0, <1>1, <1>4
  <1>5. ASSUME NEW r \in Receivers, Kill(r) \/ ConsumeFailed(r) \/ GetUser(r)
        PROVE  UNCHANGED <<begun, offset>>
    BY <1>5 DEF Kill, ConsumeFailed, GetUser, history
  <1>6. UpdatePhone \/ SetLabel \/ EndSignal \/ DropLink \/ UNCHANGED vars => UNCHANGED <<begun, offset>>
    BY DEF UpdatePhone, SetLabel, EndSignal, DropLink, vars, history
  <1>7. ASSUME NEW r \in Receivers, NEW msg \in Messages(r), Send(r, msg) PROVE UNCHANGED <<begun, offset>>
    BY <1>7 DEF Send, history
  <1>8. ASSUME NEW m \in Macs, NEW ph \in Phones, WebUpdate(m, ph) PROVE UNCHANGED <<begun, offset>>
    BY <1>8 DEF WebUpdate
  <1> QED
    BY <1>2, <1>3, <1>4, <1>5, <1>6, <1>7, <1>8 DEF Next, Step
---------------------------------------------------------------------------
\* What the phones show stays right.
LEMMA NextPhones ==
    ASSUME TypeOK, JobSound, PhonesFollowTopic, [Next]_vars
    PROVE  PhonesFollowTopic'
  <1> PICK n \in Int : n = Done("phone")
    BY DEF TypeOK, Done
  <1>0. /\ offset["phone"] \in 0..Len(topic["phone"]) /\ Len(topic["phone"]) \in Nat
        /\ n \in 0..Len(topic["phone"])
    BY LenProperties DEF TypeOK, JobSound, Done
  <1>1. \A k \in 1..n : topic["phone"][k].mac \in Macs /\ topic["phone"][k].phone \in Phones
    <2> SUFFICES ASSUME NEW k \in 1..n
                 PROVE  topic["phone"][k] \in PhoneMessage
      BY DEF PhoneMessage
    <2>1. topic["phone"] \in Seq(PhoneMessage) /\ k \in 1..Len(topic["phone"])
      BY <1>0 DEF TypeOK, Messages
    <2> QED BY <2>1, ElementOfSeq
  \* Nothing changes that the property looks at.
  <1>2. ASSUME UNCHANGED <<topic, phone, webbed>>, Done("phone")' = n,
               missed["phone"] \subseteq missed'["phone"]
        PROVE  PhonesFollowTopic'
    BY <1>2 DEF PhonesFollowTopic, LastAmong, Shown
  <1>3. ASSUME NEW r \in Receivers, Start(r) PROVE PhonesFollowTopic'
    <2>1. CASE r = "phone"
      <3>1. Done("phone")' = 0
        BY <1>3, <2>1 DEF Start, StartOffset, JobSound, Done, TypeOK
      <3> QED BY <3>1 DEF PhonesFollowTopic
    <2>2. CASE r # "phone"
      <3>1. /\ UNCHANGED <<topic, job, phone, webbed>>
            /\ offset'["phone"] = offset["phone"] /\ missed'["phone"] = missed["phone"]
        BY <1>3, <2>2 DEF Start, TypeOK
      <3> QED BY <1>2, <3>1 DEF Done
    <2> QED BY <2>1, <2>2
  <1>4. ASSUME NEW r \in Receivers, Kill(r) PROVE PhonesFollowTopic'
    <2>1. CASE r # "phone" \/ At(r, "idle")
      <3>1. /\ UNCHANGED <<topic, offset, phone, webbed>> /\ missed'["phone"] = missed["phone"]
            /\ job'["phone"].pc = job["phone"].pc
        BY <1>4, <2>1 DEF Kill, TypeOK, NoJob
      <3> QED BY <1>2, <3>1 DEF Done
    <2>2. CASE r = "phone" /\ ~At(r, "idle")
      <3>1. /\ UNCHANGED <<topic, phone, webbed>>
            /\ missed'["phone"] = missed["phone"] \cup {offset["phone"]}
            /\ Done("phone")' = n + 1 /\ offset["phone"] = n + 1
        BY <1>0, <1>4, <2>2 DEF Kill, TypeOK, NoJob, Done
      <3> SUFFICES ASSUME NEW k \in 1..(n + 1), LastAmong(n + 1, k)', k # n + 1
                   PROVE  Shown(k)'
        BY <3>1 DEF PhonesFollowTopic, Shown
      <3>2. k \in 1..n /\ LastAmong(n, k)
        BY <1>0, <3>1 DEF LastAmong
      <3>3. Shown(k)
        BY <3>2 DEF PhonesFollowTopic
      <3> QED BY <3>1, <3>3 DEF Shown
    <2> QED BY <2>1, <2>2
  <1>5. ASSUME NEW r \in Receivers, Consume(r) PROVE PhonesFollowTopic'
    <2>1. UNCHANGED <<topic, phone, missed, webbed>>
      BY <1>5 DEF Consume
    <2>2. Done("phone")' = n
      <3>1. CASE r = "phone"
        <4>1. /\ job'["phone"].pc = "get_id" /\ job["phone"].pc = "idle"
              /\ offset'["phone"] = offset["phone"] + 1
          BY <1>5, <3>1 DEF Consume, TypeOK, Job
        <4> QED BY <1>0, <4>1 DEF Done
      <3>2. CASE r # "phone"
        BY <1>5, <3>2 DEF Consume, TypeOK, Done
      <3> QED BY <3>1, <3>2
    <2> QED BY <1>2, <2>1, <2>2
  <1>6. ASSUME NEW r \in Receivers, GetUser(r) PROVE PhonesFollowTopic'
    <2>1. UNCHANGED <<topic, offset, phone, missed, webbed>> /\ job[r].pc = "get_id"
      BY <1>6 DEF GetUser, history
    <2>2. job'["phone"].pc = IF r = "phone" THEN "write" ELSE job["phone"].pc
      <3>1. PICK i : job' = [job EXCEPT ![r].pc = "write", ![r].user = i]
        BY <1>6 DEF GetUser
      <3> QED BY <3>1 DEF TypeOK, Job
    <2>3. Done("phone")' = n
      BY <2>1, <2>2 DEF Done
    <2> QED BY <1>2, <2>1, <2>3
  <1>7. CASE UpdatePhone
    <2> DEFINE m == Message("phone").mac
               i == job["phone"].user
    <2>1. /\ topic' = topic /\ Done("phone")' = n + 1 /\ offset["phone"] = n + 1
          /\ Message("phone") = topic["phone"][n + 1]
      BY <1>0, <1>7 DEF UpdatePhone, TypeOK, NoJob, Done, Message
    <2>2. Message("phone") \in PhoneMessage
      BY <1>7, MessageType DEF UpdatePhone, Messages
    <2>3. m \in Macs /\ Message("phone").phone \in Phones /\ User[m] \in Users
      BY <2>2, UserType DEF PhoneMessage
    <2> SUFFICES ASSUME NEW k \in 1..(n + 1), LastAmong(n + 1, k)'
                 PROVE  Shown(k)'
      BY <2>1 DEF PhonesFollowTopic
    <2>4. CASE missed' = [missed EXCEPT !["phone"] = missed["phone"] \cup {offset["phone"]}]
               /\ UNCHANGED <<phone, webbed>>
      <3>1. missed'["phone"] = missed["phone"] \cup {n + 1}
        BY <2>1, <2>4 DEF TypeOK
      <3>2. CASE k = n + 1
        BY <3>1, <3>2 DEF Shown
      <3>3. CASE k # n + 1
        <4>1. k \in 1..n /\ LastAmong(n, k)
          BY <1>0, <2>1, <3>3 DEF LastAmong
        <4>2. Shown(k)
          BY <4>1 DEF PhonesFollowTopic
        <4> QED BY <2>1, <2>4, <3>1, <4>2 DEF Shown
      <3> QED BY <3>2, <3>3
    <2>5. CASE /\ i # 0
               /\ phone' = [phone EXCEPT ![i] = Message("phone").phone]
               /\ webbed' = webbed \ {m}
               /\ UNCHANGED missed
      <3>1. i = User[m] /\ \A j \in Users : phone'[j] = IF j = i THEN Message("phone").phone ELSE phone[j]
        BY <1>7, <2>3, <2>5 DEF UpdatePhone, JobSound, TypeOK
      <3>2. CASE k = n + 1
        BY <2>1, <2>3, <3>1, <3>2 DEF Shown
      <3>3. CASE k # n + 1
        <4>1. k \in 1..n /\ LastAmong(n, k) /\ topic["phone"][k].mac # m
          BY <1>0, <2>1, <3>3 DEF LastAmong
        <4>2. Shown(k) /\ topic["phone"][k].mac \in Macs
          BY <1>1, <4>1 DEF PhonesFollowTopic
        <4>3. User[topic["phone"][k].mac] # i /\ User[topic["phone"][k].mac] \in Users
          BY <2>3, <3>1, <4>1, <4>2, UserInjective, UserType
        <4> QED BY <2>1, <2>5, <3>1, <4>1, <4>2, <4>3 DEF Shown
      <3> QED BY <3>2, <3>3
    <2> QED BY <1>7, <2>4, <2>5 DEF UpdatePhone
  <1>8. CASE SetLabel \/ EndSignal
    <2>1. /\ UNCHANGED <<topic, offset, phone, webbed>> /\ missed'["phone"] = missed["phone"]
          /\ job'["phone"] = job["phone"]
      BY <1>8 DEF SetLabel, EndSignal, TypeOK, history
    <2> QED BY <1>2, <2>1 DEF Done
  <1>9. ASSUME NEW r \in Receivers, NEW msg \in Messages(r), Send(r, msg) PROVE PhonesFollowTopic'
    <2>1. UNCHANGED <<offset, job, phone, missed, webbed>>
      BY <1>9 DEF Send, history
    <2>2. \A k \in 1..Len(topic["phone"]) : topic'["phone"][k] = topic["phone"][k]
      BY <1>9, SendTopic
    <2>3. Done("phone")' = n
      BY <2>1 DEF Done
    <2>4. \A k \in 1..n : topic'["phone"][k] = topic["phone"][k]
      BY <1>0, <2>2
    <2> SUFFICES ASSUME NEW k \in 1..n, LastAmong(n, k)'
                 PROVE  Shown(k)'
      BY <2>3 DEF PhonesFollowTopic
    <2>5. LastAmong(n, k)
      BY <1>0, <2>3, <2>4 DEF LastAmong
    <2> QED BY <2>1, <2>4, <2>5 DEF PhonesFollowTopic, Shown
  <1>10. ASSUME NEW m \in Macs, NEW ph \in Phones, WebUpdate(m, ph) PROVE PhonesFollowTopic'
    <2>1. /\ UNCHANGED <<topic, offset, job, missed>> /\ webbed' = webbed \cup {m}
          /\ phone' = [phone EXCEPT ![User[m]] = ph]
      BY <1>10 DEF WebUpdate
    <2>2. \A l \in Macs : l = m \/ phone'[User[l]] = phone[User[l]]
      BY <2>1, UserType, UserInjective DEF TypeOK
    <2>3. Done("phone")' = n
      BY <2>1 DEF Done
    <2> SUFFICES ASSUME NEW k \in 1..n, LastAmong(n, k)
                 PROVE  Shown(k)'
      BY <2>1, <2>3 DEF PhonesFollowTopic, LastAmong
    <2>4. Shown(k) /\ topic["phone"][k].mac \in Macs
      BY <1>1 DEF PhonesFollowTopic
    <2> QED BY <2>1, <2>2, <2>4 DEF Shown
  <1>11. ASSUME NEW r \in Receivers, ConsumeFailed(r) PROVE PhonesFollowTopic'
    BY <1>2, <1>11 DEF ConsumeFailed, history, Done
  <1>12. CASE DropLink \/ UNCHANGED vars
    BY <1>2, <1>12 DEF DropLink, vars, history, Done
  <1> QED
    BY <1>3, <1>4, <1>5, <1>6, <1>7, <1>8, <1>9, <1>10, <1>11, <1>12 DEF Next, Step

---------------------------------------------------------------------------
\* IInv holds at the beginning and every step keeps it.
THEOREM Invariance == Spec => []IInv
  <1>1. IInv /\ [Next]_vars => IInv'
    BY NextTypes, NextJobs, NextSignals, NextPhones DEF IInv
  <1> QED BY InitIInv, <1>1, PTL DEF Spec

\* Every variable keeps to its type, for any topics and any number of starts.
THEOREM TypeCorrect == Spec => []TypeOK
  <1>1. IInv => TypeOK
    BY DEF IInv
  <1> QED BY Invariance, <1>1, PTL

\* A phone is that of the last message that its receiver is through with,
\* wherever the receiver is killed and however often it reads its topic again.
THEOREM PhonesAreLast == Spec => []PhonesFollowTopic
  <1>1. IInv => PhonesFollowTopic
    BY DEF IInv
  <1> QED BY Invariance, <1>1, PTL

\* No signal is begun twice, however often its receiver is started.
THEOREM SignalsAreOnce == Spec => []SignalsOnce
  <1>1. IInv => SignalsOnce
    BY DEF IInv
  <1> QED BY Invariance, <1>1, PTL
=============================================================================
