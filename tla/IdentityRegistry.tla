------------------------- MODULE IdentityRegistry -------------------------
(***************************************************************************)
(* What user_get_id and user_get_mac (user_map.h:32-37) promise together:  *)
(* one register that gives every mac at most one user id, for ever, shared *)
(* by every caller.  There is no cache, no process and no lock here; a     *)
(* question is asked, answered from the register in one step, or abandoned *)
(* because the asking process died.                                        *)
(***************************************************************************)
EXTENDS Naturals

CONSTANTS
    Macs,       \* the mac addresses asked about
    Ids,        \* the user ids the users table can hand out
    Threads,    \* the callers
    NoMac       \* the answer "no such user" to user_get_mac

VARIABLES
    registry,   \* registry[m]: the id of m, 0 when m has none
    client      \* client[t]: the question t asks, or its last answer

registryVars == <<registry, client>>

NoClient == [open |-> FALSE, op |-> "none", mac |-> NoMac, id |-> 0]

RegistryInit ==
    /\ registry = [m \in Macs |-> 0]
    /\ client = [t \in Threads |-> NoClient]

AskId(t, m) ==
    /\ ~client[t].open
    /\ client' = [client EXCEPT ![t] =
                     [open |-> TRUE, op |-> "get_id", mac |-> m, id |-> 0]]
    /\ UNCHANGED registry

AskMac(t, i) ==
    /\ ~client[t].open
    /\ client' = [client EXCEPT ![t] =
                     [open |-> TRUE, op |-> "get_mac", mac |-> NoMac, id |-> i]]
    /\ UNCHANGED registry

\* Only a mac somebody asks about gets an id, and the id is nobody else's.
Register(m, i) ==
    /\ \E t \in Threads : client[t].open /\ client[t].op = "get_id" /\ client[t].mac = m
    /\ registry[m] = 0
    /\ \A n \in Macs : registry[n] # i
    /\ registry' = [registry EXCEPT ![m] = i]
    /\ UNCHANGED client

\* 0 is always a possible answer: it stands for "not now" as well as "none".
AnswerId(t) ==
    /\ client[t].open /\ client[t].op = "get_id"
    /\ \E i \in {0, registry[client[t].mac]} :
          client' = [client EXCEPT ![t] = [@ EXCEPT !.open = FALSE, !.id = i]]
    /\ UNCHANGED registry

AnswerMac(t) ==
    /\ client[t].open /\ client[t].op = "get_mac"
    /\ \E m \in {NoMac} \cup {n \in Macs : registry[n] = client[t].id} :
          client' = [client EXCEPT ![t] = [@ EXCEPT !.open = FALSE, !.mac = m]]
    /\ UNCHANGED registry

\* The callers of one process vanish together.
Abandon(S) ==
    /\ client' = [t \in Threads |-> IF t \in S THEN NoClient ELSE client[t]]
    /\ UNCHANGED registry

RegistryNext ==
    \/ \E t \in Threads :
          \/ \E m \in Macs : AskId(t, m)
          \/ \E i \in Ids : AskMac(t, i)
          \/ AnswerId(t)
          \/ AnswerMac(t)
    \/ \E m \in Macs, i \in Ids : Register(m, i)
    \/ \E S \in SUBSET Threads : Abandon(S)

RegistrySpec == RegistryInit /\ [][RegistryNext]_registryVars
=============================================================================
