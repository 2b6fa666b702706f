-------------------------- MODULE MemoryDbProofs --------------------------
(***************************************************************************)
(* Lemmas about the two wrappers of MemoryDb, for any keys, words and      *)
(* commands: what a write may change, and that an acknowledged write is    *)
(* read back.                                                              *)
(***************************************************************************)
EXTENDS MemoryDb, FiniteSetTheorems, TLAPS

Put(d, key, v) == [d EXCEPT ![key] = v]

\* What one key may hold, in DataOK and in AllPlain.
Holds(k, v) ==
    /\ k \in StrKeys => v = Absent \/ v \in Values
    /\ k \in HashKeys => v \subseteq FieldValue
    /\ k \in ZsetKeys => v \subseteq Entry /\ IsFiniteSet(v)
    /\ k \in SetKeys => v \subseteq Values
HoldsPlain(k, v) ==
    /\ k \in StrKeys => (v # Absent => Plain(v))
    /\ k \in HashKeys => \A e \in v : Plain(e.value)
    /\ k \in ZsetKeys => \A e \in v : Plain(e.member)
    /\ k \in SetKeys => \A u \in v : Plain(u)

LEMMA DataByKey ==
    ASSUME NEW d
    PROVE  /\ DataOK(d) <=> d = [k \in Keys |-> d[k]] /\ \A k \in Keys : Holds(k, d[k])
           /\ AllPlain(d) <=> \A k \in Keys : HoldsPlain(k, d[k])
  BY DEF DataOK, AllPlain, Holds, HoldsPlain, Keys

LEMMA DataPut ==
    ASSUME NEW d, DataOK(d), NEW key \in Keys, NEW v, Holds(key, v)
    PROVE  /\ DataOK(Put(d, key, v)) /\ Put(d, key, v)[key] = v
           /\ AllPlain(d) /\ HoldsPlain(key, v) => AllPlain(Put(d, key, v))
           /\ \A k \in Keys : k # key => Put(d, key, v)[k] = d[k]
  <1> DEFINE n == Put(d, key, v)
  <1>1. d = [k \in Keys |-> d[k]] /\ \A k \in Keys : Holds(k, d[k])
    BY DataByKey
  <1>2. n = [k \in Keys |-> IF k = key THEN v ELSE d[k]]
    BY <1>1 DEF Put
  <1>3. n[key] = v /\ \A k \in Keys : k # key => n[k] = d[k]
    BY <1>2
  <1>4. \A k \in Keys : Holds(k, n[k])
    BY <1>1, <1>3
  <1>5. n = [k \in Keys |-> n[k]]
    BY <1>2
  <1>6. AllPlain(d) /\ HoldsPlain(key, v) => \A k \in Keys : HoldsPlain(k, n[k])
    BY <1>3, DataByKey
  <1> HIDE DEF n
  <1>7. DataOK(n) /\ (AllPlain(d) /\ HoldsPlain(key, v) => AllPlain(n))
    BY <1>4, <1>5, <1>6, DataByKey
  <1> QED BY <1>3, <1>7 DEF n

\* Values are sequences of one or two words.
LEMMA ValueWords ==
    ASSUME NEW v \in Values
    PROVE  /\ v # Absent /\ v[1] \in Words
           /\ WordsOf(v) \subseteq Values
           /\ \A u \in WordsOf(v) : Plain(u)
           /\ FirstWord(v) \in Values /\ Plain(FirstWord(v))
           /\ Plain(v) => v = <<v[1]>> /\ WordsOf(v) = {v} /\ FirstWord(v) = v
  <1>1. CASE \E a \in Words : v = <<a>>
    <2> PICK a \in Words : v = <<a>>
      BY <1>1
    <2>1. Len(v) = 1 /\ v[1] = a /\ WordsOf(v) = {<<a>>}
      BY DEF WordsOf
    <2> QED BY <2>1 DEF Values, Plain, FirstWord, Absent
  <1>2. CASE \E a, b \in Words : v = <<a, b>>
    <2> PICK a \in Words, b \in Words : v = <<a, b>>
      BY <1>2
    <2>1. Len(v) = 2 /\ v[1] = a /\ v[2] = b /\ WordsOf(v) = {<<a>>, <<b>>}
      BY DEF WordsOf
    <2> QED BY <2>1 DEF Values, Plain, FirstWord, Absent
  <1> QED BY <1>1, <1>2 DEF Values

LEMMA TruncatedType ==
    ASSUME NEW s \in Int
    PROVE  Truncated(s) \in Int
  BY DEF Truncated

\* The containers a write leaves are well typed.
LEMMA PutTypes ==
    ASSUME NEW w \in Commands, NEW z, NEW s \in Int
    PROVE  /\ z \subseteq FieldValue => HashPut(z, w.field, w.value) \subseteq FieldValue
           /\ z \subseteq Entry /\ IsFiniteSet(z) =>
                 /\ ZsetPut(z, w.value, s) \subseteq Entry
                 /\ IsFiniteSet(ZsetPut(z, w.value, s))
                 /\ HasMember(ZsetPut(z, w.value, s), w.value)
  <1>1. w.field \in Words /\ w.value \in Values
    BY CommandsType DEF Command
  <1>2. z \subseteq FieldValue => HashPut(z, w.field, w.value) \subseteq FieldValue
    BY <1>1 DEF HashPut, FieldValue
  <1>3. ASSUME z \subseteq Entry, IsFiniteSet(z)
        PROVE  /\ ZsetPut(z, w.value, s) \subseteq Entry
               /\ IsFiniteSet(ZsetPut(z, w.value, s))
               /\ HasMember(ZsetPut(z, w.value, s), w.value)
    <2> DEFINE kept == {e \in z : e.member # w.value}
               new == [member |-> w.value, score |-> s]
    <2>1. kept \subseteq z /\ kept \subseteq Entry /\ new \in Entry /\ new.member = w.value
      BY <1>1, <1>3 DEF Entry
    <2>2. IsFiniteSet(kept)
      BY <1>3, <2>1, FS_Subset
    <2>3. ZsetPut(z, w.value, s) = kept \cup {new}
      BY DEF ZsetPut
    <2> HIDE DEF kept, new
    <2> QED BY <2>1, <2>2, <2>3, FS_AddElement DEF HasMember
  <1> QED BY <1>2, <1>3

\* What a write may put into its key.
Puts(b, d, w, v) ==
    /\ Holds(w.key, v)
    /\ b = "REDIS" /\ AllPlain(d) => HoldsPlain(w.key, v)
    /\ w.key \in ZsetKeys =>
          \A e \in v : e \in d[w.key] \/ (w.op = "zadd" /\ e.member = w.value)

\* A refused write puts what is there.
LEMMA KeepPuts ==
    ASSUME NEW d, DataOK(d), NEW w \in Commands, NEW b
    PROVE  Puts(b, d, w, d[w.key]) /\ d = [d EXCEPT ![w.key] = d[w.key]]
  <1>1. w.key \in Keys /\ w.op \in Ops
    BY CommandsType DEF Command
  <1>2. d = [k \in Keys |-> d[k]] /\ Holds(w.key, d[w.key])
    BY <1>1, DataByKey
  <1>3. AllPlain(d) => HoldsPlain(w.key, d[w.key])
    BY <1>1, DataByKey
  <1>4. d = [d EXCEPT ![w.key] = d[w.key]]
    BY <1>2
  <1> QED BY <1>2, <1>3, <1>4 DEF Puts

LEMMA WritePuts ==
    ASSUME NEW d, DataOK(d), NEW w \in Commands, NEW b \in {"REDIS", "TAIR"}
    PROVE  \E v : Puts(b, d, w, v) /\ Executed(b, d, w).data = [d EXCEPT ![w.key] = v]
  <1> DEFINE key == w.key
             x == Executed(b, d, w).data
  <1>1. /\ key \in Keys /\ w.op \in Ops /\ w.field \in Words /\ w.score \in Int
        /\ w.value \in Values /\ key \in KeysOfOp(w.op)
    BY CommandsType DEF Command
  <1>2. Holds(key, d[key]) /\ (AllPlain(d) => HoldsPlain(key, d[key]))
    BY <1>1, DataByKey
  <1>3. Puts(b, d, w, d[key]) /\ d = [d EXCEPT ![key] = d[key]]
    BY KeepPuts
  <1>4. ASSUME x = d PROVE \E v : Puts(b, d, w, v) /\ x = [d EXCEPT ![key] = v]
    BY <1>3, <1>4
  <1>5. CASE w.op = "set"
    <2>1. key \in StrKeys
      BY <1>1, <1>5 DEF KeysOfOp
    <2>2. x = d \/ (x = [d EXCEPT ![key] = w.value] /\ (b = "REDIS" => Plain(w.value)))
      BY <1>5 DEF Executed, Set, RedisSet, TairSet, Reply, Refused
    <2>3. b = "REDIS" => Plain(w.value) \/ x = d
      BY <2>2
    <2>4. CASE x = [d EXCEPT ![key] = w.value] /\ (b = "REDIS" => Plain(w.value))
      <3>1. Puts(b, d, w, w.value)
        BY <1>1, <2>1, <2>4, KeysDisjoint DEF Puts, Holds, HoldsPlain
      <3> QED BY <2>4, <3>1
    <2> QED BY <1>4, <2>2, <2>4
  <1>6. CASE w.op = "hset"
    <2> DEFINE h == HashPut(d[key], w.field, w.value)
    <2>1. key \in HashKeys
      BY <1>1, <1>6 DEF KeysOfOp
    <2>2. x = d \/ (x = [d EXCEPT ![key] = h] /\ (b = "REDIS" => Plain(w.value)))
      BY <1>6 DEF Executed, Hset, RedisHset, TairHset, Reply, Refused
    <2>3. h \subseteq FieldValue
      BY <1>1, <1>2, <2>1, PutTypes DEF Holds
    <2>4. Plain(w.value) /\ AllPlain(d) => HoldsPlain(key, h)
      BY <1>1, <1>2, <2>1, KeysDisjoint DEF HoldsPlain, HashPut
    <2>5. CASE x = [d EXCEPT ![key] = h] /\ (b = "REDIS" => Plain(w.value))
      <3>1. Puts(b, d, w, h)
        BY <2>1, <2>3, <2>4, <2>5, KeysDisjoint DEF Puts, Holds
      <3> QED BY <2>5, <3>1
    <2> QED BY <1>4, <2>2, <2>5
  <1>7. CASE w.op = "zadd"
    <2>1. key \in ZsetKeys
      BY <1>1, <1>7 DEF KeysOfOp
    <2>2. x = d \/ \E s \in Int : /\ x = [d EXCEPT ![key] = ZsetPut(d[key], w.value, s)]
                                  /\ b = "REDIS" => Plain(w.value)
      BY <1>1, <1>7, TruncatedType DEF Executed, Zadd, RedisZadd, TairZadd, Reply, Refused
    <2>3. ASSUME NEW s \in Int, x = [d EXCEPT ![key] = ZsetPut(d[key], w.value, s)],
                 b = "REDIS" => Plain(w.value)
          PROVE  \E v : Puts(b, d, w, v) /\ x = [d EXCEPT ![key] = v]
      <3> DEFINE z == ZsetPut(d[key], w.value, s)
      <3>1. z \subseteq Entry /\ IsFiniteSet(z)
        BY <1>1, <1>2, <2>1, PutTypes DEF Holds
      <3>2. \A e \in z : e \in d[key] \/ e.member = w.value
        BY DEF ZsetPut
      <3>3. Plain(w.value) /\ AllPlain(d) => HoldsPlain(key, z)
        BY <1>2, <2>1, <3>2, KeysDisjoint DEF HoldsPlain
      <3> HIDE DEF z
      <3>4. Puts(b, d, w, z)
        BY <1>7, <2>1, <2>3, <3>1, <3>2, <3>3, KeysDisjoint DEF Puts, Holds
      <3> QED BY <2>3, <3>4 DEF z
    <2> QED BY <1>4, <2>2, <2>3
  <1>8. CASE w.op = "sadd"
    <2>1. key \in SetKeys
      BY <1>1, <1>8 DEF KeysOfOp
    <2>2. \E new : /\ x = [d EXCEPT ![key] = d[key] \cup new]
                   /\ new = IF b = "REDIS" THEN WordsOf(w.value) ELSE {w.value}
      BY <1>8 DEF Executed, Sadd, RedisSadd, TairSadd, Reply
    <2>3. PICK new : /\ x = [d EXCEPT ![key] = d[key] \cup new]
                     /\ new = IF b = "REDIS" THEN WordsOf(w.value) ELSE {w.value}
      BY <2>2
    <2>4. new \subseteq Values /\ (b = "REDIS" => \A u \in new : Plain(u))
      BY <1>1, <2>3, ValueWords
    <2>5. Puts(b, d, w, d[key] \cup new)
      BY <1>2, <2>1, <2>4, KeysDisjoint DEF Puts, Holds, HoldsPlain
    <2> QED BY <2>3, <2>5
  <1>9. CASE w.op = "incr"
    <2>1. key \in StrKeys
      BY <1>1, <1>9 DEF KeysOfOp
    <2>2. x = d \/ \E n \in Words : x = [d EXCEPT ![key] = <<n>>]
      BY <1>9 DEF Executed, Incr, RedisIncr, TairIncr, Reply, Refused, Counts
    <2>3. ASSUME NEW n \in Words, x = [d EXCEPT ![key] = <<n>>]
          PROVE  \E v : Puts(b, d, w, v) /\ x = [d EXCEPT ![key] = v]
      <3>1. <<n>> \in Values /\ Plain(<<n>>)
        BY DEF Values, Plain
      <3>2. Puts(b, d, w, <<n>>)
        BY <2>1, <3>1, KeysDisjoint DEF Puts, Holds, HoldsPlain
      <3> QED BY <2>3, <3>2
    <2> QED BY <1>4, <2>2, <2>3
  <1>10. CASE w.op = "remove"
    <2>1. x = [d EXCEPT ![key] = Emptied(key)]
      BY <1>10 DEF Executed, RemoveKey, RedisRemove, TairRemove, Reply
    <2>2. Puts(b, d, w, Emptied(key))
      BY FS_EmptySet, KeysDisjoint DEF Puts, Holds, HoldsPlain, Emptied
    <2> QED BY <2>1, <2>2
  <1> QED BY <1>1, <1>5, <1>6, <1>7, <1>8, <1>9, <1>10 DEF Ops
---------------------------------------------------------------------------
(* Acknowledged writes.                                                    *)

LEMMA AckedStored == MdbTypeOK => AckedIsStored
  <1> SUFFICES ASSUME MdbTypeOK, NEW w \in Commands,
                      w.op \in {"set", "hset", "zadd", "sadd"},
                      w.op = "sadd" => Plain(w.value),
                      backend = "TAIR" => w.key \in Typed,
                      \E a \in Executed(backend, data, w).answers : a # 0
               PROVE  ReadsBack(backend, Executed(backend, data, w).data, w)
    BY DEF AckedIsStored
  <1> DEFINE key == w.key
             x == Executed(backend, data, w)
  <1>1. /\ key \in Keys /\ w.field \in Words /\ w.score \in Int
        /\ w.value \in Values /\ key \in KeysOfOp(w.op)
    BY CommandsType DEF Command
  <1>2. DataOK(data) /\ backend \in {"REDIS", "TAIR"} /\ (backend = "REDIS" => AllPlain(data))
    BY DEF MdbTypeOK
  <1>3. data = [k \in Keys |-> data[k]] /\ Holds(key, data[key])
    BY <1>1, <1>2, DataByKey
  <1>4. \A v : [data EXCEPT ![key] = v][key] = v
    BY <1>1, <1>3
  <1>5. /\ w.value # Absent /\ FirstWord(w.value) \in Values
        /\ Plain(w.value) => w.value = <<w.value[1]>> /\ WordsOf(w.value) = {w.value}
                             /\ FirstWord(w.value) = w.value
    BY <1>1, ValueWords
  <1>6. CASE w.op = "set"
    <2>1. /\ x.data = [data EXCEPT ![key] = w.value]
          /\ backend = "REDIS" => Plain(w.value)
      BY <1>2, <1>6 DEF Executed, Set, RedisSet, TairSet, Reply, Refused
    <2>2. x.data[key] = w.value
      BY <1>4, <2>1
    <2>3. backend = "TAIR" => AsRead(key, w.value) = w.value
      BY DEF AsRead
    <2>4. backend = "REDIS" => FirstWord(w.value) = w.value
      BY <1>5, <2>1
    <2> HIDE DEF x
    <2>5. Get(backend, x.data, key, Absent) = w.value
      BY <1>2, <1>5, <2>2, <2>3, <2>4 DEF Get, RedisGet, TairGet
    <2>6. ReadsBack(backend, x.data, w)
      BY <1>6, <2>5 DEF ReadsBack
    <2> QED BY <2>6 DEF x
  <1>7. CASE w.op = "hset"
    <2> DEFINE new == [field |-> w.field, value |-> w.value]
    <2>1. /\ x.data = [data EXCEPT ![key] = HashPut(data[key], w.field, w.value)]
          /\ backend = "REDIS" => Plain(w.value)
          /\ backend = "TAIR" => AsRead(key, w.value) = w.value
      BY <1>2, <1>7 DEF Executed, Hset, RedisHset, TairHset, Reply, Refused, AsRead
    <2>2. x.data[key] = HashPut(data[key], w.field, w.value)
      BY <1>4, <2>1
    <2>3. new \in x.data[key]
      BY <2>2 DEF HashPut
    <2>4. /\ backend = "REDIS" => new = [field |-> new.field, value |-> FirstWord(new.value)]
          /\ backend = "TAIR" => new = [field |-> new.field, value |-> AsRead(key, new.value)]
      BY <1>5, <2>1
    <2> HIDE DEF x, new
    <2>5. new \in Hget(backend, x.data, key)
      BY <1>2, <2>3, <2>4 DEF Hget, RedisHget, TairHget
    <2> QED BY <1>7, <2>5 DEF ReadsBack, new, x
  <1>8. CASE w.op = "zadd"
    <2> DEFINE s == IF backend = "REDIS" THEN Truncated(w.score) ELSE w.score
               e == [member |-> w.value, score |-> s]
    <2>1. x.data = [data EXCEPT ![key] = ZsetPut(data[key], w.value, s)]
      BY <1>2, <1>8 DEF Executed, Zadd, RedisZadd, TairZadd, Reply, Refused
    <2>2. x.data[key] = ZsetPut(data[key], w.value, s)
      BY <1>4, <2>1
    <2>3. s \in Int
      BY <1>1, TruncatedType
    <2>4. e \in x.data[key] /\ e.score = s /\ e.member = w.value
      BY <2>2 DEF ZsetPut
    <2>5. HasMember(Between(x.data[key], s, s), w.value)
      BY <2>3, <2>4 DEF Between, HasMember
    <2>6. HasMember(Between(EntriesAsRead(key, x.data[key]), s, s), w.value) \/ backend = "REDIS"
      <3>1. backend = "TAIR" => e = [member |-> AsRead(key, e.member), score |-> e.score]
        BY DEF AsRead
      <3> HIDE DEF x
      <3>2. backend = "TAIR" => e \in EntriesAsRead(key, x.data[key])
        BY <2>4, <3>1 DEF EntriesAsRead
      <3> QED BY <1>2, <2>3, <2>4, <3>2 DEF Between, HasMember
    <2>7. ZrangeByScore(backend, x.data, key, w.score, w.score)
             = IF backend = "REDIS" THEN Between(x.data[key], s, s)
               ELSE Between(EntriesAsRead(key, x.data[key]), s, s)
      BY DEF ZrangeByScore, RedisRange, TairRange
    <2> HIDE DEF x, e, s
    <2> QED BY <1>8, <2>5, <2>6, <2>7 DEF ReadsBack, x
  <1>9. CASE w.op = "sadd"
    <2>1. Plain(w.value)
      BY <1>9
    <2>2. x.data = [data EXCEPT ![key] = data[key] \cup {w.value}]
      BY <1>2, <1>5, <1>9, <2>1 DEF Executed, Sadd, RedisSadd, TairSadd, Reply
    <2>3. w.value \in x.data[key]
      BY <1>4, <2>2
    <2>4. w.value = FirstWord(w.value) /\ (backend = "TAIR" => w.value = AsRead(key, w.value))
      BY <1>5, <2>1 DEF AsRead
    <2> HIDE DEF x
    <2>5. w.value \in Smembers(backend, x.data, key)
      BY <1>2, <2>3, <2>4 DEF Smembers, RedisSmembers, TairSmembers
    <2> QED BY <1>9, <2>5 DEF ReadsBack, x
  <1> QED BY <1>6, <1>7, <1>8, <1>9

============================================================================
