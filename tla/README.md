# TLA+ models of simple_DSP

simple_DSP serves advertisements to the visitors of shopping malls.  Access
points report where phones are; the programs of this repository give every
phone (mac address) a user id, keep where it is and how long it stays, and
choose, count and charge the advertisements shown to it.  This directory holds
TLA+ models of those programs, the TLC configurations that check them, and
TLAPS proofs.

## 1. Inventory

There is no resident server: the programs are many small processes over two
databases.

| program | processes | start | threads |
|---|---|---|---|
| `user_op` (FastCGI) | 20 | `restart_fastcgi.sh` | 1 |
| `ad_op` (FastCGI) | 10 | `restart_fastcgi.sh` | 1 |
| `ap_signal_receiver`, `user_phone_receiver`, `user_tag_receiver` (Kafka consumers) | 1 each | `restart_receiver.sh`, which kills with -9 | 1 consumer |

All of them share a *memory database* (Redis, or Tair, behind `CBaseMdb`) and
PostgreSQL (through `psql` started by `popen`, or `pqxx`).  No operation of the
code uses a transaction of the memory database or a lock between processes, so
every operation is a series of single commands that interleave with those of
all other processes, and a process can die between any two of them.

A command fails in two ways.  It fails *with its connection*, which the process
then has lost until it is started again (`redisDB.hpp` never reconnects), so
that every later command fails too.  Or it is *refused alone*: the server sends
an error reply (no memory left, a failed save, a replica, a value of the wrong
kind, a command that came out malformed), the wrapper answers 0 or a default,
the connection is as good as before, and since hardly a caller looks at the
answer (`redisDB.hpp:84-88`), the next command of the same operation is carried
out.  Every module models both, wherever the sum of what was done and what was
refused matters to a property.

### Components

| component | state | operations | what makes it hard | what makes it correct |
|---|---|---|---|---|
| User identity, `user_map.cpp:520-604` | table `users`; keys `mac:M:user.id`, `user:I:mac`; a mutex and `b_started` per process | `user_get_id`, `user_get_mac`, `user_map_init` | many processes, retries after lost answers, crashes between the two writes, start-up inside the lock | one id per mac for ever; caches never contradict the table; every call returns |
| Ad serving, `ad_map.cpp` | show and click counters, valid flags, weights, prices, `fund_queue` | `ad_request` (`bidding`, `get_eCPM`), `ad_click` | counters read long before they are incremented; count and charge are separate; connections that break | rotation by weight; no charge without a count that was made or refused; no show of an invalid ad |
| Location ingest, `user_map.cpp:240-408` | last position and time of a mac, log counter, log sets and properties, stay times | `user_add`, `user_query`, `user_list_all` | the time is read and then written; the log is a counter, a row and several sets | unique log ids; stay time at most elapsed time; every slice registered, unless it was refused |
| Shop presence, `ap_signal_receiver.cpp:37-88`, `user_map.cpp:682-944` | location times per shop, arrival sets, stay times of user, shop and mall | `parse_apmac_msg`, `parse_apmac_closer_msg` and what they call | order of reading and writing the location time, crashes and refusals between them, macs read with high bytes of chance | the begin of a visit known; mall <= shop <= users' stay times, but for what was refused |
| Kafka receivers | offset, phones, tags | `msg_consume` of three programs | restart from the beginning or the end of a topic | phones converge to the last message |
| Memory database wrapper, `CBaseMdb.hpp`, `redisDB.hpp`, `tairDB.hpp` | the server's data, a connection per map and program | `get`, `set`, `hset`, `incr`, `zadd`, `sadd`, ... | two servers with different results, values put into the text of a command, freed replies, failed reads that answer a default | a write that is acknowledged reads back |
| Ad selection, `ad_map.cpp:123-190,242-344,406-483` | the locals of `bidding` | position, lists of groups, filters of a group | a request is a dozen reads or more over two connections while other programs write; a failed read looks like "no restriction" | no group is put up that a filter rules out; none that fits is missed |
| Cron timing | none | `check_cron_timing` | boundaries of days, Sunday twice | agrees with cron |
| Request dispatch, `user_op.cpp`, `ad_op.cpp` | none | parsing a request, calling the above | defaults that differ between operations | what was added can be queried |
| Shared ad table, `init_data.h`, `ad_register.cpp`, `adstat.cpp`, `ad_request.cpp` (no longer built) | a memory-mapped file | registering, listing, counting | growing the file without a lock | no registered ad is lost |
| ZeroMQ sender and dock (no longer built) | sequence, retries | one request and its reply | late replies, retries | a reply is taken for its own request |

The pieces that interact: `user_add`, `user_update`, `user_tag_update`, the
receivers and `ad_op` all begin with `user_get_id` or `user_get_mac`;
`bidding` reads the labels and the shop of a user that the receivers write; the
web site that manages campaigns (another repository) writes flags, weights,
prices and group sets.

## 2. Plan

The order puts first what every other component depends on and what
concurrency can break.

1. `IdentityRegistry`, `UserIdentity`, `UserIdentityProofs`: the ids everything
   else is filed under, and their abstract specification.
2. `AdLedger`, `AdServing`, `AdServingProofs`: concurrent requests and clicks,
   the rotation of ads and the charges, and the abstract specification of the
   charges.
3. `LocationIngest`, `LocationIngestProofs`: the location log and the stay in
   the mall.
4. `ShopPresence`, `ShopPresenceProofs`: visits and stays in shops.
5. `KafkaReceivers`, `KafkaReceiversProofs`: restarts of the consumers.
6. `MemoryDb` (`MemoryDbProofs`) and, on top of it, `AdSelection`
   (`AdSelectionProofs`, `AdSelectionFitProofs`): the two servers, and the
   choice of groups, which reads more of them than anything else.  The cron
   timing is part of it.

All of these are written.  `AdSelection` EXTENDS `MemoryDb` and details what is
one choice in `AdServing` (`FilterGroup`); `UserIdentity` stands below
`LocationIngest` and `ShopPresence` through its refinement of
`IdentityRegistry`, which is why `user_get_id` is one step there.

Left to do: an eCPM arithmetic with rounding, and `AdServing` over the commands
of `MemoryDb` instead of its own counters, which would give it Tair, whose `incr`
`get_eCPM` reads as another type, and reads that are refused alone.

## 3. Modules

### IdentityRegistry and UserIdentity

`IdentityRegistry` is the promise: a register from macs to ids that only grows,
questions to it, and answers that are the register's or "none".

`UserIdentity` is the code.  One thread step is one round trip to a database:

| action | code |
|---|---|
| `CallGetId`, `CallGetMac` | a call arrives; `user_get_mac` takes no lock, so a multi-threaded program calls it alone, as the test does after joining its threads |
| `Lock`, `UserMapInit`, `Unlock` | the mutex of `user_get_id`; the first call of a receiver runs `user_map_init` with the mutex in its hands, and that initialises the mutex |
| `ReadId`, `ReadMac` | `get` of a cache key; a failed read looks like a miss |
| `AddUserAnswered`, `AddUserSilent` | one pass of the retry loop: committed and answered; not run, rolled back, or committed with the answer lost |
| `QueryMac` | the query of `user_get_mac`; empty for "no row" and for "psql failed" |
| `SetId`, `SetMac` | the two cache writes, whose results nobody looks at |
| `Crash`, `ForgetId`, `ForgetMac` | kill -9 and uncaught exceptions; keys that leave the memory database |

`AddUserRow` is PostgreSQL's `add_user`, which is not in the repository: a
serializable get-or-create that returns a positive id no other row has.  That
its output always is a number is assumed too (`std::stoi` would throw with the
mutex locked).

`Warm` is the set of processes that ran `user_map_init` before their first
call: the FastCGI programs do it in `main`, the receivers do not.  The
assumption `ThreadsAreWarm` says that a process with several threads is warm;
only the unit test has several threads and its `SetUp` initialises.

### AdLedger and AdServing

`AdLedger` is the promise to the owners of ads: a worker counts a show or a
click, or has the count refused, and then owes the charge for it; before it
counts anything else it makes that charge once, for the same ad, or gives it up.
It has no requests, groups, flags or connections.  `AdServing` is the code, and
`KeepsLedger` says that it implements `AdLedger` under the mapping `DebtOf`: a
worker between the increment and psql owes a charge as long as its connection is
up (without one it has counted nothing, or can charge nobody).

The promise is not that every charge has its count.  An increment that the
server refuses is not looked at (`ad_map.cpp:352, 590`) and the charge is made
all the same, so a charge without its count exists; `lost_shows` and
`lost_clicks` count those, and the promise is that there are no others.

| action | code |
|---|---|
| `Request`, `FilterGroup` | `ad_request`, the head of `bidding` and its filters; place, shop, time and label filters are a choice, the group's flag is state |
| `CheckAd`, `ReadAd` | one pass of the loop of `get_eCPM`: the flag, and later the counters and the weight; `Lighter` is the comparison of show weights, cross-multiplied |
| `RankGroup`, `Insert` | the eCPM, any value of `Ecpms` (the counters make it anything), and the insertion loop of the `MaxN` best slots |
| `Answer`, `CountShow`, `ChargeShow` | the closing loop: `CountShow` takes the best slot that is left and increments its counter (`Incremented`: counted, refused alone, or not sent without a connection), `ChargeShow` runs psql, `NextSlot` decides between the next slot and the end |
| `Click`, `CountClick`, `ChargeClick` | `ad_click` |
| `ToggleAd`, `ToggleGroup` | the campaign web site |
| `DropLink`, `Restart` | a connection that broke stays broken in its process, reads give defaults and writes nothing; a restart opens a new one |

`seen`, the `read` field of a slot, `lost_shows` and `lost_clicks` are history:
they record what the properties speak about, and no action looks at them but
for the bound `MaxLost` on refused increments.

The database is Redis.  On Tair, `incr` stores a number and `get_eCPM` reads the
counter as text, so the rotation there depends on bytes; that is left out here.
What a read of the wrong type gives, and reads that are refused alone, are in
`MemoryDb` and `AdSelection`.

Weights are natural numbers and prices are such that an eCPM is a natural
number; 0 stands for every eCPM that is not positive, which `bidding` treats
alike.

### LocationIngest

`user_add` with `user_location_log_add`, and `parse_apmac_msg`, as series of
commands of several processes (the receiver, and the `user_op` workers that
handle requests "add").

| action | code |
|---|---|
| `UserAdd`, `ParseApmac` (`Signal`) | a signal arrives; `time(0)` is taken once |
| `ReadTime`, `SetTime`, `SetListed` | the previous time of the mac; the new one; the sorted set of update times. `ParseApmac` begins with the writes |
| `NextLogId` | `incr` of the slice's counter; the wrapper returns a member of a reply it has freed, or on Tair 1: the value, or one of `Freed`; 0 when it fails |
| `InsertRow`, `AddMac`, `AddLog`, `SetLogProp` | the row in PostgreSQL; the sets and properties of the log |
| `RegisterSlice` (`Register`, `Remember`) | the slice in `data.time.set`, once for each slice and process (`last`), remembered whatever became of it.  The member is the bytes of a `time_t` up to the first zero, pasted into a command that is a format (`user_map.cpp:293-298`, `redisDB.hpp:251-257`): it is taken, or taken for that of another slice which it replaces, or refused |
| `GetId` | `user_get_id`: one step, as `UserIdentity` implements `IdentityRegistry`; 0 when it fails |
| `AddStay`, `RecordArrival`, `AddDaily` | `user_duration_add`, `vip_arrive_time_record`, `mac_set_record` |
| `Tick`, `DropLink`, `Restart` | the clock; a broken connection, which stays broken; kill and restart, which forget the job and `last` |

Coordinates are left out, nothing reads them but to show them.  The stay of a
user is summed over the days, because the code begins a new key each day and
never adds across.  `User` is injective: that is what the theorems about
`IdentityRegistry` say of `add_user`.  History: `first` (when the mac was first
timed), `was` (the time a signal has overwritten), `sn` (which signal an entry
is about), `overlap` (two signals of the mac were in work at once), `slips` (how
often reading or writing the time was refused), `misread` (signals whose `incr`
answered something else than the counter's value) and `unregistered` (slices
that `data.time.set` has refused or replaced).  `failures` counts the lost
connections and refused commands, for the bound `MaxFailures`.  A mac here is
the number in the keys: that `ApMac` may make several of one phone makes each of
them a mac of its own.

### ShopPresence

`parse_apmac_closer_msg` and everything it calls.  One receiver with one thread
is deployed, so the interleavings are those with the clock, with a connection
that breaks and with kill -9.

| action | code |
|---|---|
| `ParseApmacCloser`, `NextMac`, `EndSignal` | a signal with a set of phones close to a shop's access point, the loop over them, in any order; `NextMac` reads the phone's mac with `str_to_uint64`, which leaves the high bytes to chance (`user_map.cpp:670-680`): the number is that of the mac or one of `Ghosts`; it also asks `mac_is_vip`, and `user_get_id` for the number |
| `ReadSeen`, `SetSeen`, `SetListed` | `get_user_location_time`, `update_user_location_time` |
| `AddUserStay`, `AddShopStay`, `AddMallStay` | the three counters of `shop_user_duration_add`, all incremented by `Interval` |
| `Arrive` | `update_user_arrive_time`; `Out` is its test of the gap |
| `SetShop` | `update_shopid_of_user_location` |
| `Tick`, `DropLink`, `Restart` | as above |

Keys are filed under numbers and users, visits are those of phones.  History:
`first`; `last`, `since` and `latest` (a phone's last signal from a shop, when its
present visit there began, and the shop of its last signal); `cut` (a step of
the visit was refused, never made, or filed under another number or no user);
`slips` (times that were refused, to be read or to be written); `lost_user` and
`lost_shop` (stays that were refused for a user of the shop, or for a shop).
`refused` counts refused commands, for the bound `MaxRefused`.  The clocks of both modules do not step back;
the code has no guard against a negative gap.

### KafkaReceivers

The three consumers of Kafka topics, from the outside: which messages they
work on, and what `user_update` and `user_tag_update` do with a message.

| action | code |
|---|---|
| `Start` | `main` after `restart_receiver.sh`; `StartOffset` is the constant `start_offset` of each program |
| `Kill`, `ConsumeFailed` | kill -9 or an uncaught exception; an error of `consume`, which ends the loop |
| `Consume` | the next message of the loop; timeouts and the end of the topic change nothing |
| `GetUser` | `user_get_id`, 0 when it fails; the tag receiver asks for a mac whose two high bytes are not initialised, so it may get one of `Ghosts` |
| `UpdatePhone`, `SetLabel`, `EndSignal` | the update of the phone, which may fail; the `hset`, which does nothing without a connection and may be refused with one; the return of the signal handlers, which `LocationIngest` and `ShopPresence` model |
| `Send`, `WebUpdate`, `DropLink` | messages arrive; `user_op` writes a phone; the connection of the tag receiver breaks |

Messages are well formed.  A topic keeps all its messages (how long a broker
keeps them is not in the repository).  History: `begun` (how often work on a
signal has begun), `missed` (messages consumed in vain since the start) and
`webbed` (macs whose phone `user_op` wrote last).

### MemoryDb

The two wrappers side by side: `RedisDb`, which puts every command together as
text and reads replies with a stream, and `TairDb`, which hands values to a
client library.  A value is a sequence of words, so that a blank inside it can
be told; a score is counted in halves, so that cutting it to a whole number
can be told.

| definition | code |
|---|---|
| `RedisSet` ... `RedisRemove`, `TairSet` ... `TairRemove` | what a command leaves on the server and what it answers; `Freed` is what a reply can read as after `freeReplyObject` |
| `RedisGet` ... `TairZmembers` | what a read answers when the server does.  Tair stores the bytes of a C++ type and reads them as the type the caller names (`tair_common.h:81-85`), so a key that is not in `Typed` reads as `Misread` says (`AsRead`); Redis stores text and reads its first word.  `whole` is what the build makes of `(long long)DBL_MAX`, a cast C++ leaves undefined |
| `Set`, `Hset`, ..., `Zmembers` | `CBaseMdb`, which asks `m_type` each time |
| `Dropped`, `Connect` | with Redis the first error ends a connection for good, with Tair each command fails alone; a start connects and does not look at the result |
| `Write` | a command of another program: done and answered, done with the answer lost, refused alone, or not done |

### AdSelection

`ad_op` and `bidding` from the request to the groups that are put up, one read
a step, over the connection of `user_map` (position and shop of the user) and
that of `ad_map` (everything else).

| action | code |
|---|---|
| `Request`, `Done` | `ad_op` with a known user or not; the end of the loop over the groups |
| `ReadPosition`, `ReadSpace`, `ReadLocation` | `user_query`, the lists of the ad space and of the location's cell (`Cell` cuts towards zero) |
| `Merge` | one round of `std::set_intersection`, which wants its lists sorted by id and gets them sorted by score |
| `ReadLabels` | the user's labels |
| `ReadShops`, `ReadUserShop` | `check_market_shop`; the first member that the server lists says whether the set is "in" or "not in" |
| `ReadValid`, `ReadStart`, `ReadEnd`, `ReadCron`, `ReadTargets` | the flag, the market window, the cron times and the target labels |
| `ReadAds`, `ReadPrice` | what `get_eCPM` needs of a group to give it a positive price; ad by ad it is in `AdServing` |
| `Restart`, `OtherRestart`, `Other` | `restart_fastcgi.sh`; another program starts again, or gives a command |

Every read has an `ok` that may be false: with its connection, for good on Redis,
or refused alone, `MaxRefused` times in a request.  `KeysTyped` says that every
key that matters is read as the type it is written as; the labels are the
exception, written as strings (`user_map.cpp:500`) and read as numbers
(`ad_map.cpp:436`), of which `bidding` only uses the names.  The side of a
location cell, `Slice`, is what the worker read at its start, or 10 if that
failed (`ad_map.cpp:112-120`): the reading itself is left out.  A cron time is a struct
stored as a string, and is cut at its first zero byte: `kept` says how many
fields survive, and `Readings` leaves the rest to chance.  History: `edited`
(keys written since the request began), `missed` (keys it failed to read) and
`refused` (those of them that were refused alone).

"Put up" means that a group gets as far as its price and has one: `get_eCPM`
then looks at the flags of its ads (`check_ad_valid`) and computes an eCPM that
can still be 0, which is in `AdServing`.

The modules carry operators whose comment begins with "Fault": they are
plausible bugs of the definition that follows them, used to see that each
property can fail.  No specification uses them.

## 4. Runs

| run | instance | shows |
|---|---|---|
| `identity_threads` | 1 process, 3 threads, 2 macs, 2 ids, 2 attempts | `TypeOK`, `AnswersAgree`, `ConnectionNotShared` |
| `identity_workers` | 2 single-threaded processes, one started (FastCGI) and one not (receiver), 2 macs, 2 ids, 2 attempts, weak fairness of each thread | `CacheSound`, `AnswersAgree`, `EveryCallReturns`, refinement of `IdentityRegistry` |
| `identity_zero` | 1 process, 1 mac, 3 attempts | the answer 0 does not mean "not exist" |
| `ads_rotation` | 3 workers, 1 group of 2 ads with weights 2 and unset, 3 requests, one refused increment of each ad | `RotationFair`; with one less in its bound it fails |
| `ads_charges` | 2 workers, 2 groups of one ad, 2 slots, 2 requests or clicks, a flag that toggles, one refused increment of each ad and counter | `TypeOK`, `ChargesCovered`, `SlotsRanked`, `ShownWasValid`, refinement of `AdLedger` (`KeepsLedger`) |
| `ingest` | 2 processes, 1 phone, 2 signals, 2 clock values, each a slice, one failure (a refused command or a lost connection), `incr` answering its value or 1 | `TypeOK`, `LogIdsUnique`, `SlicesRegistered`, `StayNotTwice` |
| `ingest_incr` | 1 process and signal, one value a freed reply can have | `incr` does not return its value |
| `ingest_apmac` | two `ApMac` signals of a VIP | an arrival without an absence |
| `shop` | 2 shops, 1 phone with 2 numbers, 2 signals, 3 clock values, one refused command | `TypeOK`, `StayNotTwice`, `TotalsOrdered`, `VisitKnown` |
| `shop_halfhour` | the same gaps, half an hour longer than the gap | an arrival after less than half an hour |
| `selection` | Redis (with either result of the cast) and Tair, 2 groups in a mall of 2 cells, three sets of data (targeted groups; groups out of place and time; lists not sorted by id and other days), 9 commands of other programs of which one is given, one read in a request that is refused alone, labels read as another type | `TypeOK`, `AckedIsStored`, `NoneMissed`, `OfferedFits`, `BrokenOffersNothing` |
| `kafka` | 2 phones, 3 messages over the topics, 2 starts, weak fairness of running programs | `TypeOK`, `PhonesFollowTopic`, `SignalsOnce`, `CatchesUp` |

Bounds.  Two macs and two ids are enough for an id to be given to the wrong mac
and for both orders of two fills; the number of calls is not bounded.  Two
attempts have a first one whose answer is lost and a last one; the code has
ten, and the theorems hold for any number.  In `AdServing` only the number of
requests and that of refused increments (`MaxLost`) are bounded: with three
requests all three workers can hold the same ad after reading the same counter,
and with one refused increment of each ad a worker can charge what it did not
count while the other serves.

In `LocationIngest` and `ShopPresence` the clock (`Epoch..Horizon`), the number
of signals (`MaxSignals`) and that of refused commands (`MaxFailures`, which
counts lost connections too, and `MaxRefused`) are bounded.  In `LocationIngest`
a slice is one clock value long (`SliceLen = 1`), so that two signals fall into
one slice or into two; two processes with one signal each race for the counter,
the slice and the stay, and one process with both has a signal before and after
a restart, a refusal or a lost connection.  `Freed = {1}` lets `incr` answer its
value or 1, as Tair does: `LogIdsUnique` says nothing of ids that were read so,
which is the finding of `ingest_incr`.  Two signals of a phone in `ShopPresence`
make a visit and a move to the other shop, or a stay, or a return to the same
shop after more than the gap; two numbers are the phone's own and another one
that chance makes of its mac.  The gaps of `etc/config.ini` are scaled down to 1;
`Epoch` stays above them, as the seconds since 1970 do, so that an absent time
reads as a long absence.

In `AdSelection` two groups are what it takes for lists to be in two orders, for
one group to carry over to the next what it should not, and for one to be offered
before the connection breaks and one after; one write at any point of a request
falls between any two of its reads, one read of a request may be refused alone
(`MaxRefused = 1`), and each filter has data that pass it, data that fail it and a
command that changes it.  Connections break at any point and any number of times.
The run has 979,969 states, its longest path without repetition 31 steps.

In `KafkaReceivers` three messages are two of one
phone and one of another, or one for each program, and two starts are a kill
and a start again.

Fairness.  `EveryCallReturns` assumes that a running thread takes its next step
(`WF_vars(Step(t))`): a round trip ends, by an answer or an error.  It is
checked for single-threaded processes, the ones that are deployed.  With
several threads a thread could starve at the mutex, which is not fair, if the
others called for ever; the test calls once per thread.  `CatchesUp` assumes
that a running receiver takes its next step (`WF_vars(Step(r))`): `consume`
returns within a second (`user_phone_receiver.cpp:148`).  Nothing starts a
receiver that has died, so the property is about one that in the end keeps
running.  The other modules make no assumption about fairness: a process may
stop anywhere.

### Findings

`identity_zero`: `user_map.h:32,36` say that zero means "not exist".  The
functions also answer zero for a user that exists when PostgreSQL gives no
output; the run shows an `add_user` that committed with its answer lost,
followed by failures.  The callers cannot tell, and `user_add` goes on with
user id 0.

`ingest_incr`: `RedisDb::incr` frees its reply and then returns
`reply->integer` (`redisDB.hpp:89-90`), where `CBaseMdb.hpp:322` says "0----fail
success value".  What it returns depends on the allocator; the id of a log
entry can be another number than the counter's.

`ingest_apmac`: `parse_apmac_msg` stores the time of a phone under its mac as a
number and reads it under the mac with colons (`ap_signal_receiver.cpp:49,53`).
It finds none, so every `ApMac` signal of a VIP is recorded as an arrival,
whereas `user_map.cpp:47` says that it takes the time gap `max_in_shop_gap` out
of the mall.

`shop_halfhour`: `user_map.h:81-82` says that `update_user_arrive_time` records
an arrival when the interval is bigger than half an hour; the code takes
`max_in_shop_gap` (`user_map.cpp:738`), 240 seconds in `etc/config.ini`.

What `selection` shows.  `OfferedFits` is about every filter on its own: if the
keys a filter reads were not written since the request began and were not among
the failed reads, a group that is put up passes it.  What it leaves out is true
of the code: a key that is written between two reads of one request, and a read
that fails, opens or closes its filter.  On Redis a read of `ad_map`'s own
connection that failed with that connection needs no exception, because the price
is read last over the same connection (`BrokenOffersNothing`); a read that is
refused alone opens its filter on either server, and so do the reads over
`user_map`'s connection: that is why `Reliable` names them.  `NoneMissed` needs
the lists sorted by id, which nothing in the code sees to.  `AckedIsStored` leaves
out members of several words, which `SADD` stores word by word and acknowledges,
and keys of Tair that are read as another type than they were written.

## 5. Proofs

TLAPS checks the following for every value of the constants, under the named
assumptions of the modules.

| theorem | says | assumes |
|---|---|---|
| `UserIdentityProofs!TypeCorrect`, `CachesAreSound`, `AnswersAlwaysAgree`, `ConnectionExclusive` | `[]` of `TypeOK`, `CacheSound`, `AnswersAgree`, `ConnectionNotShared` | `IdsPositive`, `NoMacIsNoMac`, `TriesPositive`, `ProcOfType`, `ThreadsAreWarm` |
| `UserIdentityProofs!Refinement` | `Spec` implements `IdentityRegistry` | the same |
| `UserIdentityProofs!AnswersAreForEver` | after an answer that pairs a mac and an id, no later answer contradicts it: `[](Told(m, i) => []Kept(m, i))` | the same |
| `AdServingProofs!TypeCorrect`, `SlotsAreRanked`, `ChargesAreCovered`, `RotationIsFair`, `ShowsWereValid` | `[]` of `TypeOK`, `SlotsRanked`, `ChargesCovered`, `RotationFair`; `ShownWasValid` | `ProcsFinite`, `GroupOfType`, `WeightType`, `FickleType`, `EcpmsType`, `BoundsType`, `NoAdIsNoAd` |
| `AdServingProofs!LedgerIsKept` | `Spec` implements `AdLedger` | the same |
| `ShopPresenceProofs!TypeCorrect`, `StaysAreBounded`, `VisitsAreKnown`, `TotalsAreOrdered` | `[]` of `TypeOK`, `StayNotTwice`, `VisitKnown`, `TotalsOrdered` | `GhostsApart`, `IdsPositive`, `UserType`, `UserInjective`, `TimesType`, `EpochLate`, `NothingType`; `TotalsAreOrdered` also `SetsFinite` |
| `LocationIngestProofs!TypeCorrect`, `LogsAreUnique`, `SlicesAreRegistered`, `StayIsNotTwice` | `[]` of `TypeOK`, `LogIdsUnique`, `SlicesRegistered`, `StayNotTwice` | `SomeMac`, `IdsPositive`, `UserType`, `UserInjective`, `ClockType`, `GapsType`, `EpochLate`, `FreedType` |
| `AdSelectionProofs!TypeCorrect`, `AcksAreStored`, `BrokenIsSilent` | `[]` of `TypeOK`, `AckedIsStored`; `BrokenOffersNothing` | the assumptions of `MemoryDb` and `AdSelection` |
| `AdSelectionFitProofs!OffersFit`, `NoGroupIsMissed` | `OfferedFits`; `[]NoneMissed` | the same |
| `AdSelectionFitProofs!OffersExactly` | when an undisturbed request is done, what is put up fits, and what fits is put up, but for groups whose shops have both signs or whose cron times are read by chance | the same |
| `KafkaReceiversProofs!TypeCorrect`, `PhonesAreLast`, `SignalsAreOnce` | `[]` of `TypeOK`, `PhonesFollowTopic`, `SignalsOnce` | `IdsPositive`, `UserType`, `UserInjective`, `BoundsType` |

Each proof has an inductive invariant, the conjunction of named parts (`IInv`,
or one for each property), and three facts: `Init` implies it, each action keeps
it, and it implies what is promised.

*UserIdentity.*  `CacheSound` is not inductive: a thread between the answer of
PostgreSQL and its two writes holds a pair that must be in the table
(`CallSound`), the pair must stay the only one of its id (`UsersInjective`), and
both its parts must be known where they are written (`CallShape`).  That a row is never changed is
what makes the pair a thread carries true whenever it is written.
It is also what `AnswersAreForEver` rests on: `AnswersAgree` compares the calls
that are still remembered, this theorem compares an answer with every later
one, by a row of the table that stays (`RowStays`).
`MutexSound` says who holds a process's mutex and that only he is at a step
which uses the connection; `ThreadsAreWarm` is what keeps `user_map_init` from
giving the mutex to a second thread.

*AdServing.*  `ChargesCovered` needs the workers that have sent an increment and
not yet charged (`Covered`: rows plus those workers are at most what was counted
plus what was refused).
`SlotsRanked` needs only the shapes (`ReqShape`) of what a request holds.
`RotationFair` is the deep one.  While ad `i` is the lighter one, choosing it is
what the algorithm means; once the counter of `i` reaches the point where `i`
is heavier than `j`, only workers that read the counters earlier can still
increment it, and each does so once.  `ChoicesJustified` says that a worker that
holds `i` read counters for which the choice was right, `HoldersBounded` counts
the workers that hold `i` beyond that point, and `SteadyValid` that an ad whose
flag nobody toggles is never skipped for it.
`ShownWasValid` has an invariant of its own, `SInv`: a request that still looks
at ads has seen all that are valid (`ValidSeen`), and as long as its worker's
connection is up it holds only ads it has seen (`ChoicesSeen`).  Once the
connection is lost a worker takes every flag for set, but it counts no show
before it is restarted, and a restart forgets the request.
`LedgerIsKept` is a step-by-step refinement over the types and shapes: an
increment through a connection that is up is a count of the ledger or a refused
count, and owes a charge in both cases, a row pays the debt, a psql without output, a lost connection and a restart give it up,
and every other step leaves counters, rows and debts alone.  That the charge is
for the ad that was counted rests on `CountShow` keeping the ad in the request;
that nobody counts twice before charging rests on the order of the loop.

*ShopPresence.*  `StayNotTwice` compares a counter with two times, which are
written by other steps.  `RoomForStay` says that after the new time is written
there is room for the interval that is still to be counted, and that what the
receiver read is still the stored time, or was refused, which makes room for a
whole `Cap` (`slips`); `SeenSound` orders times, signal and clock, and
`SignalSound` says what a signal knows at each step.  A crash or a lost
connection only gives room away.  `VisitKnown` leaves out the phone in work.  The
invariant behind it (`VisitSound`) is about phones, while the keys are filed
under numbers: nothing under a phone's own number is later than its last signal
(`WrittenBefore`), since no other phone's mac is read as that number
(`GhostsApart`), and unless the visit is cut the stored time is that of the last
signal (`SeenLast`).  `AtWork` says what is true of the phone in work between its
time and its shop: its number is its own, a visit that has begun is marked in
`since` and its arrival is still to come, a visit that goes on is known as it
was.  `Out`, the code's test, agrees with the history because what was read is
what was stored (`SeenLast`).  A crash, a refusal or a wrong number there sets
`cut`.
`TotalsOrdered` compares counters with sums over users and over shops.  The
invariant behind it is `TotalsSound`: the user's stay is incremented first, the
shop's next and the mall's last, so between two increments there is room for
the interval that is still to come (`RoomForTotals`): what was counted before
made it, or its refusal is in `lost_user` or `lost_shop`, and a crash or a lost
connection only leaves the room unused.  What an increment of one user does to
the sum is a fact about a recursive function over finite sets; it is proved
without the induction theorems, from a smallest set on which it would fail.

*LocationIngest.*  Three invariants on top of the types.  For the log ids, a job
from its `incr` to its last write counts as written: `Made` is what is written
or in such a job, an id in it that was read right is not above its slice's
counter and is no other signal's (`LogsSound`); `misread` names the signals of
the others.  For the slices, a connected process remembers only slices that
`data.time.set` has, has refused or has replaced (`Registered`), and writes its
sets of a slice only after that: a registration may fail over a connection that
is up, and the code goes on, but not unseen by `unregistered`; if the connection
is lost, the process writes no log entry either.  For the stay, a job that has
written its time owes its gap until its `incr` (`Owed`), and the bound holds with
the debt added; that the time it has read is still the stored one, or has left
room for a `Cap` (`Fresh`), that no stored time is later than the job's
(`Later`), and that no other job works on the mac (`Single`), is what `~overlap`
gives.

*MemoryDb and AdSelection.*  `AckedIsStored` follows from the commands, once
`TypeOK` says that on Redis no stored value has a blank.
`BrokenOffersNothing` needs that no step from a broken connection reaches the
price.  `OfferedFits` needs to know what every local of `bidding` was read from
(`Remembered`): as long as the keys of a filter are clean, neither written nor
missed, the position is the stored one (`Positions`), the lists hold only stored
ids (`Listed`), the labels are the user's (`UserLabels`), the group in work
passes every filter behind it (`Chosen`) and half of each filter that takes two
reads (`Halfway`); keys only ever become unclean.  On Redis, as long as
`ad_map`'s connection is up the failed reads are `user_map`'s or were refused
alone (`Connected`), and when it is down nothing is offered.
`NoneMissed` follows a group that fits through the whole request (`InPlay`): it
is in the list of the ad space, then in both lists or in their intersection, in
the list that is filtered, in work, and at last put up.  The merge of
`std::set_intersection` looks at two heads and never back; that it drops no
common member needs both lists sorted (`Rising`), and since each round of the
merge is an action of its own, its correctness is an invariant and needs no
induction over sequences.  For `OffersExactly`, `Explained` says that what has
been put up goes on fitting as long as nothing is written.

*KafkaReceivers.*  `PhonesFollowTopic` speaks of the messages the receiver is
through with; `JobSound` says that the user in work is that of the message in
work, and two users never share an id, so an update disturbs no other phone.
`SignalsOnce` needs that no signal beyond the offset has been begun in any
start (`SignalsAhead`): a start takes the end of the topic, which is never
before an earlier offset.

Only model-checked: `EveryCallReturns` and `CatchesUp`, which are liveness
under fairness and out of the provers' reach.  Every invariant and every action
property that a passing run checks, and both refinements, are theorems.

## 6. Not modelled

- Coordinates as numbers: `user_query` and `user_list_all` only show them;
  `AdSelection` reads them as words of a small set.
- The arithmetic of `get_eCPM` in floating point (`AdServing` takes any value),
  and the text of answers.
- In `AdServing`, a read that is refused alone while the connection is up: it
  would let a worker take a flag for set or a counter for 0 once, which
  `ShownWasValid` and `RotationFair` do not allow for.  `AdSelection` models such
  reads.
- The reading of `config:slice.x` and `.y` at the start of `ad_op`.
- `set_NumDb` and `close` of the wrappers, which nothing calls; how a double is
  printed with six digits (`Words` are numbers of at most six); what happens
  when hiredis gives no reply and the wrapper frees it all the same, which
  depends on its version.
- `redis_op.cpp`, `ad_request.cpp`, the shared ad table (`init_data.h`,
  `ad_register.cpp`, `adstat.cpp`) and the ZeroMQ sender and dock: `Makefile.am`
  no longer builds them.
- The parsing of requests in `user_op.cpp` and `ad_op.cpp` and of signals keeps
  no state; the operations behind it are actions of the modules.
- The robot bridge, the loading of the configuration, the message generator,
  the web pages and the scripts keep no state of their own beyond a file read at
  start-up; the restarts that the scripts cause are actions of the modules.
- Vendored libraries.
