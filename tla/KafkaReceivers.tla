-------------------------- MODULE KafkaReceivers --------------------------
(***************************************************************************)
(* The three programs that consume a Kafka topic: user_phone_receiver.cpp, *)
(* user_tag_receiver.cpp and ap_signal_receiver.cpp, with user_update and  *)
(* user_tag_update of user_map.cpp, which the first two call.  What the    *)
(* third does with a signal is in LocationIngest and ShopPresence.         *)
(*                                                                         *)
(* No program resumes where it was: the first two read their topic from    *)
(* its beginning whenever they start, the third from its end.              *)
(***************************************************************************)
EXTENDS Integers, Sequences

CONSTANTS
    Macs,       \* phones
    Ids,        \* user ids, without the 0 of a failed user_get_id
    User,       \* User[m]: the id IdentityRegistry has for m
    Ghosts,     \* ids of numbers that are a mac below uninitialised high bytes
    Phones, NoPhone,
    Tags,
    MaxMessages,\* bound on the number of messages
    MaxStarts   \* bound on the number of times a program is started

ASSUME IdsPositive == Ids \subseteq Nat \ {0}
ASSUME UserType == User \in [Macs -> Ids] /\ Ghosts \subseteq Ids
\* add_user gives two macs two ids: IdentityRegistry.
ASSUME UserInjective == \A m, n \in Macs : User[m] = User[n] => m = n
ASSUME BoundsType == MaxMessages \in Nat /\ MaxStarts \in Nat

Receivers == {"phone", "tag", "signal"}
PhoneMessage == [mac : Macs, phone : Phones]
TagMessage == [mac : Macs, tag : Tags]
SignalMessage == [signal : {"Mac"}]     \* one kind stands for all three
Messages(r) == CASE r = "phone" -> PhoneMessage
                 [] r = "tag" -> TagMessage
                 [] r = "signal" -> SignalMessage

VARIABLES
    topic,      \* topic[r]: the messages of the topic of r, at their offsets
    up,         \* the program runs
    offset,     \* how many messages it has consumed since it was started
    job,        \* the message it works on, the last one consumed
    phone,      \* column phone of users
    labels,     \* "user:I:label.set", as pairs of user and tag
    link,       \* user_tag_receiver's connection to the memory database is up
    starts,     \* starts so far
    begun,      \* history: how often work on a signal has begun
    missed,     \* history: messages that this start has consumed in vain
    webbed      \* history: macs whose phone was last written by user_op

history == <<begun, missed, webbed>>
vars == <<topic, up, offset, job, phone, labels, link, starts, history>>

Users == Ids \cup {0}
PCs == {"idle", "get_id", "write", "signal"}
Job == [pc : PCs, user : Users]
NoJob == [pc |-> "idle", user |-> 0]

Init ==
    /\ topic = [r \in Receivers |-> <<>>]
    /\ up = [r \in Receivers |-> FALSE]
    /\ offset = [r \in Receivers |-> 0]
    /\ job = [r \in Receivers |-> NoJob]
    /\ phone = [i \in Users |-> NoPhone]
    /\ labels = {}
    /\ link = TRUE
    /\ starts = 0
    /\ begun = [k \in 1..MaxMessages |-> 0]
    /\ missed = [r \in Receivers |-> {}]
    /\ webbed = {}

At(r, loc) == job[r].pc = loc
Message(r) == topic[r][offset[r]]

---------------------------------------------------------------------------
(* A program starts and stops.                                             *)

\* Fault: the constant of another program.
StartOffsetBeginning(r) == 0
\* Fault: OFFSET_STORED, which the programs have commented out, with the offset
\* that is committed every 200 ms, be the message processed or not.
StartOffsetStored(r) == offset[r]
StartOffset(r) == IF r = "signal" THEN Len(topic[r]) ELSE 0

\* restart_receiver.sh, main.
Start(r) ==
    /\ ~up[r]
    /\ starts < MaxStarts
    /\ starts' = starts + 1
    /\ up' = [up EXCEPT ![r] = TRUE]
    /\ offset' = [offset EXCEPT ![r] = StartOffset(r)]
    /\ link' = (link \/ r = "tag")
    /\ missed' = [missed EXCEPT ![r] = {}]
    /\ UNCHANGED <<topic, job, phone, labels, begun, webbed>>

\* kill -9, or an exception of user_map_init that nobody catches.
Kill(r) ==
    /\ up[r]
    /\ up' = [up EXCEPT ![r] = FALSE]
    /\ job' = [job EXCEPT ![r] = NoJob]
    /\ missed' = [missed EXCEPT ![r] = IF At(r, "idle") THEN @ ELSE @ \cup {offset[r]}]
    /\ UNCHANGED <<topic, offset, phone, labels, link, starts, begun, webbed>>

\* An error other than a timeout or the end of the topic ends the program.
ConsumeFailed(r) ==
    /\ up[r] /\ At(r, "idle")
    /\ up' = [up EXCEPT ![r] = FALSE]
    /\ UNCHANGED <<topic, offset, job, phone, labels, link, starts, history>>

---------------------------------------------------------------------------
(* msg_consume.                                                            *)

Consume(r) ==
    /\ up[r] /\ At(r, "idle")
    /\ offset[r] < Len(topic[r])
    /\ offset' = [offset EXCEPT ![r] = @ + 1]
    /\ job' = [job EXCEPT ![r].pc = IF r = "signal" THEN "signal" ELSE "get_id"]
    /\ begun' = IF r = "signal" THEN [begun EXCEPT ![offset[r] + 1] = @ + 1] ELSE begun
    /\ UNCHANGED <<topic, up, phone, labels, link, starts, missed, webbed>>

\* Fault: a failure is answered by the -1 of user_update.
GetUserCode(r) ==
    /\ At(r, "get_id")
    /\ \E i \in {-1, User[Message(r).mac]} \cup IF r = "tag" THEN Ghosts ELSE {} :
          job' = [job EXCEPT ![r].pc = "write", ![r].user = i]
    /\ UNCHANGED <<topic, up, offset, phone, labels, link, starts, history>>

\* user_get_id, one step of IdentityRegistry; the answer may be 0.  The tag
\* receiver leaves the two high bytes of the number it asks for to chance.
GetUser(r) ==
    /\ At(r, "get_id")
    /\ \E i \in {0, User[Message(r).mac]} \cup IF r = "tag" THEN Ghosts ELSE {} :
          job' = [job EXCEPT ![r].pc = "write", ![r].user = i]
    /\ UNCHANGED <<topic, up, offset, phone, labels, link, starts, history>>

\* user_update: no row has id 0, and nobody looks at the -1 of an exception.
UpdatePhone ==
    /\ At("phone", "write")
    /\ LET m == Message("phone").mac  i == job["phone"].user
       IN \/ /\ i # 0
             /\ phone' = [phone EXCEPT ![i] = Message("phone").phone]
             /\ webbed' = webbed \ {m}
             /\ UNCHANGED missed
          \/ /\ missed' = [missed EXCEPT !["phone"] = @ \cup {offset["phone"]}]
             /\ UNCHANGED <<phone, webbed>>
    /\ job' = [job EXCEPT !["phone"] = NoJob]
    /\ UNCHANGED <<topic, up, offset, labels, link, starts, begun>>

\* user_tag_update: nobody looks at what it returns.  The server may refuse
\* the hset and leave the connection as it was.
SetLabel ==
    /\ At("tag", "write")
    /\ LET i == job["tag"].user  pair == <<i, Message("tag").tag>>
       IN \/ /\ link
             /\ labels' = labels \cup {pair}
             /\ missed' = IF i # 0 THEN missed
                          ELSE [missed EXCEPT !["tag"] = @ \cup {offset["tag"]}]
          \/ /\ missed' = [missed EXCEPT !["tag"] = @ \cup {offset["tag"]}]
             /\ UNCHANGED labels
    /\ job' = [job EXCEPT !["tag"] = NoJob]
    /\ UNCHANGED <<topic, up, offset, phone, link, starts, begun, webbed>>

\* user_add, parse_apmac_msg or parse_apmac_closer_msg has returned.
EndSignal ==
    /\ At("signal", "signal")
    /\ job' = [job EXCEPT !["signal"] = NoJob]
    /\ UNCHANGED <<topic, up, offset, phone, labels, link, starts, history>>

---------------------------------------------------------------------------
(* The environment.                                                        *)

Send(r, msg) ==
    /\ Len(topic["phone"]) + Len(topic["tag"]) + Len(topic["signal"]) < MaxMessages
    /\ topic' = [topic EXCEPT ![r] = Append(@, msg)]
    /\ UNCHANGED <<up, offset, job, phone, labels, link, starts, history>>

\* Request "update" of user_op, which calls user_update too.
WebUpdate(m, ph) ==
    /\ phone' = [phone EXCEPT ![User[m]] = ph]
    /\ webbed' = webbed \cup {m}
    /\ UNCHANGED <<topic, up, offset, job, labels, link, starts, begun, missed>>

\* A broken connection to the memory database is never opened again.
DropLink ==
    /\ link /\ up["tag"]
    /\ link' = FALSE
    /\ UNCHANGED <<topic, up, offset, job, phone, labels, starts, history>>

---------------------------------------------------------------------------
Step(r) ==
    \/ Consume(r) \/ GetUser(r)
    \/ r = "phone" /\ UpdatePhone
    \/ r = "tag" /\ SetLabel
    \/ r = "signal" /\ EndSignal

Next ==
    \/ \E r \in Receivers :
          \/ Step(r) \/ Start(r) \/ Kill(r) \/ ConsumeFailed(r)
          \/ \E msg \in Messages(r) : Send(r, msg)
    \/ \E m \in Macs, ph \in Phones : WebUpdate(m, ph)
    \/ DropLink

Spec == Init /\ [][Next]_vars

\* A program that runs takes its next step: consume returns within a second,
\* and what a message makes it do ends, by a result or an error.
FairSpec == Spec /\ \A r \in Receivers : WF_vars(Step(r))

---------------------------------------------------------------------------
\* Every variable has values of the kind the code stores in it.
TypeOK ==
    /\ topic \in [Receivers -> Seq(UNION {Messages(r) : r \in Receivers})]
    /\ \A r \in Receivers : topic[r] \in Seq(Messages(r))
    /\ offset \in [Receivers -> Nat]
    /\ up \in [Receivers -> BOOLEAN]
    /\ job \in [Receivers -> Job]
    /\ phone \in [Users -> Phones \cup {NoPhone}]
    /\ labels \subseteq Users \X Tags
    /\ link \in BOOLEAN /\ starts \in 0..MaxStarts
    /\ begun \in [1..MaxMessages -> Nat]
    /\ missed \in [Receivers -> SUBSET Nat]
    /\ webbed \subseteq Macs

\* The messages this start of r is through with.
Done(r) == IF At(r, "idle") THEN offset[r] ELSE offset[r] - 1

\* k is the last message about its mac among the first n of the phone topic.
LastAmong(n, k) == \A j \in (k + 1)..n : topic["phone"][j].mac # topic["phone"][k].mac

\* The phone of k's user is the one of k, unless k was consumed in vain or
\* user_op has written the phone since.
Shown(k) ==
    LET m == topic["phone"][k].mac
    IN k \in missed["phone"] \/ m \in webbed \/ phone[User[m]] = topic["phone"][k].phone

\* A phone is that of the last message the receiver is through with, wherever
\* it was killed and although it goes back in time whenever it starts
\* (user_phone_receiver.cpp:15, 62-76, user_map.cpp:411-433).
PhonesFollowTopic ==
    \A k \in 1..Done("phone") : LastAmong(Done("phone"), k) => Shown(k)

\* Work on a signal never begins twice, so that no restart counts a stay or an
\* arrival again (ap_signal_receiver.cpp:17).
SignalsOnce == \A k \in 1..MaxMessages : begun[k] <= 1

\* Every message of the topic has left its mark, unless it was in vain.
Caught(r) ==
    CASE r = "phone" -> \A k \in 1..Len(topic[r]) : LastAmong(Len(topic[r]), k) => Shown(k)
      [] r = "tag" -> \A k \in 1..Len(topic[r]) :
            \/ k \in missed[r]
            \/ \E i \in {User[topic[r][k].mac]} \cup Ghosts : <<i, topic[r][k].tag>> \in labels

\* A receiver of phones or tags that is started often enough and in the end
\* keeps running catches up with its topic: nothing is lost in a kill or while
\* it was down (user_phone_receiver.cpp:15, user_tag_receiver.cpp:14).
CatchesUp == \A r \in {"phone", "tag"} : <>[]up[r] => <>[]Caught(r)

---------------------------------------------------------------------------
(* The inductive invariant behind PhonesFollowTopic and SignalsOnce.       *)

\* What a receiver knows at each point of msg_consume.
JobSound ==
    /\ \A r \in Receivers :
          /\ offset[r] <= Len(topic[r])
          /\ At(r, "idle") \/ (up[r] /\ offset[r] > 0)
          /\ At(r, "signal") => r = "signal"
          /\ At(r, "get_id") \/ At(r, "write") => r # "signal"
    /\ At("phone", "write") => job["phone"].user \in {0, User[Message("phone").mac]}

\* Signals beyond the offset have never been begun, in no start.
SignalsAhead == \A k \in 1..MaxMessages : k > offset["signal"] => begun[k] = 0

IInv == TypeOK /\ JobSound /\ PhonesFollowTopic /\ SignalsOnce /\ SignalsAhead
=============================================================================
