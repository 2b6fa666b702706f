----------------------------- MODULE MemoryDb -----------------------------
(***************************************************************************)
(* The memory database behind CBaseMdb (CBaseMdb.hpp): one server, Redis   *)
(* or Tair as the configuration says, and the connections of the programs  *)
(* that use it.  The two wrappers, RedisDb (redisDB.hpp) and TairDb        *)
(* (tairDB.hpp over tair_common.h), do not store and read the same data:   *)
(*                                                                         *)
(*   - RedisDb puts a command together as text, so a blank inside a value  *)
(*     makes two arguments of it, and reads a reply with "stream >> value",*)
(*     so it keeps the first word of what is stored;                       *)
(*   - TairDb stores the bytes of the value's C++ type and reads them as   *)
(*     those of the type its caller names, whatever that is;               *)
(*   - RedisDb casts scores and their bounds to whole numbers;             *)
(*   - RedisDb loses its connection at the first error and never connects  *)
(*     again; with TairDb each command fails alone;                        *)
(*   - a failed read has no error: get answers the caller's default, the   *)
(*     other reads leave the caller's container empty.                     *)
(*                                                                         *)
(* A value is a sequence of words, <<>> where there is none.  Scores are   *)
(* counted in halves, so that an odd one is not a whole number.            *)
(***************************************************************************)
EXTENDS Integers, Sequences, FiniteSets

CONSTANTS
    StrKeys, HashKeys, ZsetKeys, SetKeys,   \* keys, by what is stored there
    Words,          \* words values are made of: numbers, of at most six digits
                    \* (RedisDb prints a double with no more)
    Typed,          \* keys every program reads as the type it writes
    Misread,        \* what the bytes of a value read as, as another type
    Conns,          \* connections of the programs
    Freed,          \* what the memory of a freed reply may read as
    Commands,       \* commands the other programs give
    MaxWrites,      \* bound on the number of those
    InitialData     \* contents of the server when the programs start

Keys == StrKeys \cup HashKeys \cup ZsetKeys \cup SetKeys
Absent == <<>>
Values == {<<a>> : a \in Words} \cup {<<a, b>> : a, b \in Words}
Plain(v) == Len(v) = 1
Entry == [member : Values, score : Int]
FieldValue == [field : Words, value : Values]

\* What the keys of each kind hold.
DataOK(d) ==
    /\ d = [k \in Keys |-> d[k]]
    /\ \A k \in StrKeys : d[k] = Absent \/ d[k] \in Values
    /\ \A k \in HashKeys : d[k] \subseteq FieldValue
    /\ \A k \in ZsetKeys : d[k] \subseteq Entry /\ IsFiniteSet(d[k])
    /\ \A k \in SetKeys : d[k] \subseteq Values

\* No value holds more than one word.
AllPlain(d) ==
    /\ \A k \in StrKeys : d[k] # Absent => Plain(d[k])
    /\ \A k \in HashKeys : \A e \in d[k] : Plain(e.value)
    /\ \A k \in ZsetKeys : \A e \in d[k] : Plain(e.member)
    /\ \A k \in SetKeys : \A v \in d[k] : Plain(v)

Ops == {"set", "hset", "zadd", "sadd", "incr", "remove"}
Command == [op : Ops, key : Keys, field : Words, score : Int, value : Values]

KeysOfOp(op) == CASE op \in {"set", "incr"} -> StrKeys
                  [] op = "hset" -> HashKeys
                  [] op = "zadd" -> ZsetKeys
                  [] op = "sadd" -> SetKeys
                  [] op = "remove" -> Keys

ASSUME WordsType == Words \subseteq Int
ASSUME KeysDisjoint ==
    /\ StrKeys \cap (HashKeys \cup ZsetKeys \cup SetKeys) = {}
    /\ HashKeys \cap (ZsetKeys \cup SetKeys) = {}
    /\ ZsetKeys \cap SetKeys = {}
ASSUME FreedType == Freed \subseteq Int
ASSUME CommandsType == \A w \in Commands : w \in Command /\ w.key \in KeysOfOp(w.op)
ASSUME TypedType == Typed \subseteq Keys /\ Misread \in [Values -> Values]
ASSUME WritesType == MaxWrites \in Nat
ASSUME InitialType == \A d \in InitialData : DataOK(d) /\ AllPlain(d)

VARIABLES
    backend,    \* m_type, "REDIS" or "TAIR"
    whole,      \* what the build makes of (long long)DBL_MAX: the greatest
                \* number (TRUE) or the least one (undefined behaviour)
    data,       \* the server's data
    link,       \* link[c]: the connection is usable
    writes      \* writes of other programs so far

mdbVars == <<backend, whole, data, link, writes>>

---------------------------------------------------------------------------
(* Writes.  A command gives the data it leaves and the answers its caller  *)
(* can get when the server's reply arrives.                                *)

Reply(d, answers) == [data |-> d, answers |-> answers]
Refused(d) == Reply(d, {0})

WordsOf(v) == {<<v[i]>> : i \in 1..Len(v)}
Truncated(score) == IF score >= 0 THEN score - (score % 2) ELSE score + ((-score) % 2)

HashPut(h, field, v) == {e \in h : e.field # field} \cup {[field |-> field, value |-> v]}
ZsetPut(z, v, score) == {e \in z : e.member # v} \cup {[member |-> v, score |-> score]}
HasMember(z, v) == \E e \in z : e.member = v
Emptied(k) == IF k \in StrKeys THEN Absent ELSE {}

\* Fault: any reply at all is taken for success.
RedisSetAnyReply(d, w) ==
    Reply(IF Plain(w.value) THEN [d EXCEPT ![w.key] = w.value] ELSE d, {1})

\* Fault: the value is sent in quotes, and read back as before.
RedisSetQuoted(d, w) == Reply([d EXCEPT ![w.key] = w.value], {1})

\* "SET key value": a second word is a syntax error.
RedisSet(d, w) ==
    IF Plain(w.value) THEN Reply([d EXCEPT ![w.key] = w.value], {1}) ELSE Refused(d)

\* "HSET key field value"; the answer is read from the reply after it is freed.
RedisHset(d, w) ==
    IF Plain(w.value)
    THEN Reply([d EXCEPT ![w.key] = HashPut(d[w.key], w.field, w.value)],
               Freed \cup {IF \E e \in d[w.key] : e.field = w.field THEN 0 ELSE 1})
    ELSE Refused(d)

\* "ZADD key score value"; a new score for an old member answers 0.
RedisZadd(d, w) ==
    IF Plain(w.value)
    THEN Reply([d EXCEPT ![w.key] = ZsetPut(d[w.key], w.value, Truncated(w.score))],
               {IF HasMember(d[w.key], w.value) THEN 0 ELSE 1})
    ELSE Refused(d)

\* "SADD key value": every word becomes a member.
RedisSadd(d, w) ==
    Reply([d EXCEPT ![w.key] = d[w.key] \cup WordsOf(w.value)],
          {Cardinality(WordsOf(w.value) \ d[w.key])})

\* The sum a counter comes to; none where the server refuses.
Sum(old, w) == IF old = Absent THEN w.value[1] ELSE old[1] + w.value[1]
Counts(old, w) == (old = Absent \/ Plain(old)) /\ Sum(old, w) \in Words

\* "incrby key integer", the answer read from the freed reply too.
RedisIncr(d, w) ==
    IF Counts(d[w.key], w)
    THEN Reply([d EXCEPT ![w.key] = <<Sum(d[w.key], w)>>], Freed \cup {Sum(d[w.key], w)})
    ELSE Refused(d)

\* "del key": how many keys there were, from the freed reply.
RedisRemove(d, w) ==
    Reply([d EXCEPT ![w.key] = Emptied(w.key)],
          Freed \cup {IF d[w.key] = Emptied(w.key) THEN 0 ELSE 1})

\* TairDb sends a value as it is and answers 1 for the client's code 0;
\* removeKey answers that code.
TairSet(d, w) == Reply([d EXCEPT ![w.key] = w.value], {1})
TairHset(d, w) == Reply([d EXCEPT ![w.key] = HashPut(d[w.key], w.field, w.value)], {1})
TairZadd(d, w) == Reply([d EXCEPT ![w.key] = ZsetPut(d[w.key], w.value, w.score)], {1})
TairSadd(d, w) == Reply([d EXCEPT ![w.key] = d[w.key] \cup {w.value}], {1})
TairIncr(d, w) ==
    IF Counts(d[w.key], w) THEN Reply([d EXCEPT ![w.key] = <<Sum(d[w.key], w)>>], {1})
    ELSE Refused(d)
TairRemove(d, w) == Reply([d EXCEPT ![w.key] = Emptied(w.key)], {0})

\* CBaseMdb: one of the two, by m_type.
Set(b, d, w) == IF b = "REDIS" THEN RedisSet(d, w) ELSE TairSet(d, w)
Hset(b, d, w) == IF b = "REDIS" THEN RedisHset(d, w) ELSE TairHset(d, w)
Zadd(b, d, w) == IF b = "REDIS" THEN RedisZadd(d, w) ELSE TairZadd(d, w)
Sadd(b, d, w) == IF b = "REDIS" THEN RedisSadd(d, w) ELSE TairSadd(d, w)
Incr(b, d, w) == IF b = "REDIS" THEN RedisIncr(d, w) ELSE TairIncr(d, w)
RemoveKey(b, d, w) == IF b = "REDIS" THEN RedisRemove(d, w) ELSE TairRemove(d, w)

Executed(b, d, w) == CASE w.op = "set" -> Set(b, d, w)
                       [] w.op = "hset" -> Hset(b, d, w)
                       [] w.op = "zadd" -> Zadd(b, d, w)
                       [] w.op = "sadd" -> Sadd(b, d, w)
                       [] w.op = "incr" -> Incr(b, d, w)
                       [] w.op = "remove" -> RemoveKey(b, d, w)

---------------------------------------------------------------------------
(* Reads that are answered.                                                *)

FirstWord(v) == <<v[1]>>

AsRead(k, v) == IF k \in Typed THEN v ELSE Misread[v]
EntriesAsRead(k, z) == {[member |-> AsRead(k, e.member), score |-> e.score] : e \in z}

RedisGet(d, k, default) == IF d[k] = Absent THEN default ELSE FirstWord(d[k])
TairGet(d, k, default) == IF d[k] = Absent THEN default ELSE AsRead(k, d[k])
Get(b, d, k, default) == IF b = "REDIS" THEN RedisGet(d, k, default) ELSE TairGet(d, k, default)

RedisHget(d, k) == {[field |-> e.field, value |-> FirstWord(e.value)] : e \in d[k]}
TairHget(d, k) == {[field |-> e.field, value |-> AsRead(k, e.value)] : e \in d[k]}
Hget(b, d, k) == IF b = "REDIS" THEN RedisHget(d, k) ELSE TairHget(d, k)

RedisSmembers(d, k) == {FirstWord(v) : v \in d[k]}
TairSmembers(d, k) == {AsRead(k, v) : v \in d[k]}
Smembers(b, d, k) == IF b = "REDIS" THEN RedisSmembers(d, k) ELSE TairSmembers(d, k)

Between(z, min, max) == {e \in z : min <= e.score /\ e.score <= max}

RedisRange(d, k, min, max) == Between(d[k], Truncated(min), Truncated(max))
TairRange(d, k, min, max) == Between(EntriesAsRead(k, d[k]), min, max)
ZrangeByScore(b, d, k, min, max) ==
    IF b = "REDIS" THEN RedisRange(d, k, min, max) ELSE TairRange(d, k, min, max)

\* "ZRANGE key 0 (long long)DBL_MAX": nothing when the cast gives the least
\* number, which counts from the end of the list.  Tair takes scores between
\* lowest() and max().  A key that was never written has no members.
Stored(d, k) == IF k \in ZsetKeys THEN d[k] ELSE {}
RedisZmembers(d, k, w) == IF w THEN Stored(d, k) ELSE {}
TairZmembers(d, k) == EntriesAsRead(k, Stored(d, k))
Zmembers(b, d, k, w) == IF b = "REDIS" THEN RedisZmembers(d, k, w) ELSE TairZmembers(d, k)

\* The order a sorted set is listed in: by score, members of one score in
\* whichever order the server has.
Listings(z) ==
    {s \in [1..Cardinality(z) -> z] :
        \A i, j \in 1..Cardinality(z) : i < j => s[i] # s[j] /\ s[i].score <= s[j].score}

---------------------------------------------------------------------------
(* Connections.                                                            *)

\* The connection after a command that failed.
Dropped(c) == IF backend = "REDIS" THEN [link EXCEPT ![c] = FALSE] ELSE link

\* A program is started again and connects; the result is not looked at.
Connect(cs) ==
    link' \in {l \in [Conns -> BOOLEAN] : \A c \in Conns \ cs : l[c] = link[c]}

\* A command of another program on connection c is carried out and answered,
\* carried out with the reply lost, refused alone, or does not reach the
\* server.
Write(c, w) ==
    /\ writes < MaxWrites
    /\ writes' = writes + 1
    /\ \/ /\ link[c]
          /\ data' = Executed(backend, data, w).data
          /\ link' \in {link, Dropped(c)}
       \/ /\ data' = data
          /\ link' \in {link, Dropped(c)}
    /\ UNCHANGED <<backend, whole>>

MdbInit ==
    /\ backend \in {"REDIS", "TAIR"}
    /\ whole \in IF backend = "REDIS" THEN BOOLEAN ELSE {TRUE}
    /\ data \in InitialData
    /\ link = [c \in Conns |-> TRUE]
    /\ writes = 0

---------------------------------------------------------------------------
(* Properties.                                                             *)

MdbTypeOK ==
    /\ backend \in {"REDIS", "TAIR"}
    /\ whole \in BOOLEAN
    /\ DataOK(data)
    /\ link \in [Conns -> BOOLEAN]
    /\ writes \in 0..MaxWrites
    /\ backend = "REDIS" => AllPlain(data)

\* What a value written by w reads as, through the same wrapper.
ReadsBack(b, d, w) ==
    CASE w.op = "set" -> Get(b, d, w.key, Absent) = w.value
      [] w.op = "hset" -> [field |-> w.field, value |-> w.value] \in Hget(b, d, w.key)
      [] w.op = "zadd" -> HasMember(ZrangeByScore(b, d, w.key, w.score, w.score), w.value)
      [] w.op = "sadd" -> w.value \in Smembers(b, d, w.key)

\* A write that is answered with anything but 0 (CBaseMdb.hpp:142-177,
\* 215-231, 269-285: the value a caller takes for success) is there for the
\* next reader: through the same wrapper the key then reads as what was
\* written, although Redis cuts values at blanks and scores at the point, and
\* although the answer of hset comes from freed memory.  A set member of
\* several words is the exception, since SADD stores its words, and so is a
\* key of Tair that is read as another type than it is written.
AckedIsStored ==
    \A w \in Commands :
        /\ w.op \in {"set", "hset", "zadd", "sadd"}
        /\ w.op = "sadd" => Plain(w.value)
        /\ backend = "TAIR" => w.key \in Typed
        /\ \E a \in Executed(backend, data, w).answers : a # 0
        => ReadsBack(backend, Executed(backend, data, w).data, w)
============================================================================
