-------------------------- MODULE MCAdSelection --------------------------
(* Instance of AdSelection: two groups, one device, a place of two cells.  *)
EXTENDS AdSelection, TLC

MCGroups == {1, 2}
MCWords == {-3, -1, 0, 1, 2, 3, 5, 6, 9}
MCStrKeys == {PosKey(a) : a \in Axes} \cup {UserShopKey}
             \cup UNION {{ValidKey(g), StartKey(g), EndKey(g), PriceKey(g)} : g \in MCGroups}
MCSetKeys == UNION {{ShopsKey(g), CronKey(g), TargetKey(g), AdsKey(g)} : g \in MCGroups}
Here == <<"ad.location", <<0, 0, 0>>>>
There == <<"ad.location", <<1, 0, 0>>>>
MCZsetKeys == {SpaceKey, Here, There}
MCHashKeys == {LabelsKey}
MCTyped == MCStrKeys \cup MCSetKeys \cup MCZsetKeys
MCMisread == [v \in {<<a>> : a \in MCWords} \cup {<<a, b>> : a, b \in MCWords} |-> <<0>>]
MCConns == {"ad", "user", "tool"}
MCFreed == {0, 9}

\* Cron times that fit this minute, that do not fit its day, that do not fit
\* its minute, cut after the day of the week, and one that is cut at once.
Times(except, kept) == [kept |-> kept, set |-> [f \in CronFields |-> f \notin except]]
MCCronOf == [w \in MCWords |-> CASE w = 1 -> Times({}, 5)
                                 [] w = 2 -> Times({"dom", "dow"}, 5)
                                 [] w = 3 -> Times({"minute"}, 5)
                                 [] OTHER -> Times(CronFields, 0)]

Ranked(g, score) == [member |-> <<g>>, score |-> score]
Ascending == {Ranked(1, 2), Ranked(2, 4)}
Descending == {Ranked(1, 4), Ranked(2, 2)}

\* A mall without restrictions, the user at a position of 1, 0, 0 and in shop 3.
Open == [k \in MCStrKeys \cup MCSetKeys \cup MCZsetKeys \cup MCHashKeys |->
            CASE k \in {PriceKey(g) : g \in MCGroups} -> <<1>>
              [] k \in {AdsKey(g) : g \in MCGroups} -> {<<1>>}
              [] k = PosKey("x") -> <<1>>
              [] k = UserShopKey -> <<3>>
              [] k = LabelsKey -> {[field |-> 5, value |-> <<1>>]}
              [] k \in {SpaceKey, Here} -> Ascending
              [] k \in MCStrKeys -> Absent
              [] OTHER -> {}]

\* Group 1 wants the user's shop and label, group 2 wants users that are
\* elsewhere; group 1 is in its window.
Targeted == (ShopsKey(1) :> {<<3>>, <<6>>} @@ ShopsKey(2) :> {<<-3>>}
             @@ TargetKey(1) :> {<<5>>, <<9>>} @@ StartKey(1) :> <<2>> @@ EndKey(1) :> <<5>>
             @@ CronKey(2) :> {<<1>>, <<3>>}) @@ Open
\* Group 1 is only where the user is not and past its window; group 2 wants a
\* label the user can get.
Elsewhere == (Here :> {Ranked(2, 4)} @@ There :> {Ranked(1, 2)} @@ StartKey(1) :> <<1>>
              @@ EndKey(1) :> <<2>> @@ TargetKey(2) :> {<<6>>}) @@ Open
\* The lists are not sorted by id, and the user has no label; group 1 is for
\* other days, and of the times of group 2 nothing can be read.
Unsorted == (SpaceKey :> Descending @@ There :> Ascending @@ CronKey(1) :> {<<2>>}
             @@ CronKey(2) :> {<<6>>}
             @@ PosKey("y") :> <<-1>> @@ LabelsKey :> {} @@ TargetKey(1) :> {<<5>>}
             @@ ShopsKey(2) :> {<<3>>, <<-3>>} @@ ValidKey(2) :> <<1>>) @@ Open

MCInitialData == {Targeted, Elsewhere, Unsorted}

Cmd(op, key, field, score, value) ==
    [op |-> op, key |-> key, field |-> field, score |-> score, value |-> value]
MCCommands ==
    {Cmd("set", PosKey("x"), 0, 0, <<3>>), Cmd("incr", UserShopKey, 0, 0, <<3>>),
     Cmd("set", StartKey(1), 0, 0, <<9, 1>>), Cmd("set", EndKey(1), 0, 0, <<9>>),
     Cmd("hset", LabelsKey, 6, 0, <<2>>), Cmd("hset", LabelsKey, 5, 0, <<2, 3>>),
     Cmd("zadd", Here, 0, 1, <<2>>), Cmd("sadd", TargetKey(2), 0, 0, <<5, 6>>),
     Cmd("remove", ShopsKey(2), 0, 0, <<0>>)}
============================================================================
