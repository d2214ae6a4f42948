------------------------------ MODULE HostKeys ------------------------------
(***************************************************************************)
(* The host keys an assistant asks a person to confirm                     *)
(* (HostKeyConfirmationService, the MCP tools fingerprint_host and         *)
(* add_server, server confirm-host-key, and the connection that is made    *)
(* with the key once it is pinned).  A confirmation is an entry of the     *)
(* cache; a list of ids, another entry, finds the ones that wait.  Every   *)
(* read of the cache and every write of it is a step of its own.           *)
(*                                                                         *)
(* An id is four random bytes: none is drawn twice here.                   *)
(***************************************************************************)
EXTENDS Integers, FiniteSets, TLAPS

CONSTANTS
    Requesters,  \* calls of fingerprint_host
    Deciders,    \* people who confirm or reject
    Adders,      \* calls of add_server
    Ids, Addresses, Keys,
    Lifetime,    \* CONFIRMATION_LIFETIME
    MaxTime,     \* bound: the clock
    MaxChanges   \* bound: times a host presents another key

LifetimeAssumption == Lifetime \in Nat \ {0}

VARIABLES
    now,
    presents,    \* presents[a]: the key the host at a answers with
    entry,       \* entry[i]: what the cache has under ENTRY_PREFIX + i
    index,       \* the entry INDEX
    req, dec, add,
    servers,     \* the servers added: [id, address, key], and how often
    connected,   \* the keys a connection was made with
    asked,       \* history: what was asked under i, and when
    said,        \* history: what people answered, and were told is stored
    changes

vars == <<now, presents, entry, index, req, dec, add, servers, connected, asked, said, changes>>

Absent == [status |-> "none"]
Idle == [at |-> "idle"]

Init ==
    /\ now = 0
    /\ presents \in [Addresses -> Keys]
    /\ entry = [i \in Ids |-> Absent]
    /\ index = [ids |-> {}, until |-> 0]
    /\ req = [r \in Requesters |-> Idle]
    /\ dec = [d \in Deciders |-> Idle]
    /\ add = [a \in Adders |-> Idle]
    /\ servers = [i \in Ids |-> {}] /\ connected = {}
    /\ asked = [i \in Ids |-> Absent]
    /\ said = {}
    /\ changes = 0

\* a cache key is there until it expires
Cached(i) == entry[i] # Absent /\ now < entry[i].until

_held(i) == Cached(i) /\ entry[i].expires > now

_live_ids == {i \in index.ids : now < index.until /\ _held(i)}

\* _store: an entry that is about to expire is kept for a second
_store(c) == [c EXCEPT !.until = IF c.expires > now THEN c.expires ELSE now + 1]

---------------------------------------------------------------------------
(* request: the key, the entry, the list of ids                            *)

Fingerprint(r, a) ==
    /\ req[r] = Idle
    /\ req' = [req EXCEPT ![r] = [at |-> "offered", address |-> a, key |-> presents[a]]]
    /\ UNCHANGED <<now, presents, entry, index, dec, add, servers, connected, asked, said, changes>>

Store(r, i) ==
    LET c == [address |-> req[r].address, key |-> req[r].key, status |-> "pending",
              expires |-> now + Lifetime, until |-> 0]
    IN /\ req[r].at = "offered"
       /\ asked[i] = Absent
       /\ entry' = [entry EXCEPT ![i] = _store(c)]
       /\ asked' = [asked EXCEPT ![i] = [status |-> "asked", address |-> c.address, key |-> c.key, time |-> now]]
       /\ req' = [req EXCEPT ![r] = [at |-> "stored", id |-> i]]
       /\ UNCHANGED <<now, presents, index, dec, add, servers, connected, said, changes>>

ReadIndex(r) ==
    /\ req[r].at = "stored"
    /\ req' = [req EXCEPT ![r] = [at |-> "read", id |-> req[r].id, ids |-> _live_ids]]
    /\ UNCHANGED <<now, presents, entry, index, dec, add, servers, connected, asked, said, changes>>

Indexed(ids, i) == ids \cup {i}

WriteIndex(r) ==
    /\ req[r].at = "read"
    /\ index' = [ids |-> Indexed(req[r].ids, req[r].id), until |-> now + Lifetime]
    /\ req' = [req EXCEPT ![r] = Idle]
    /\ UNCHANGED <<now, presents, entry, dec, add, servers, connected, asked, said, changes>>

---------------------------------------------------------------------------
(* confirm_host_key: what waits is shown, then confirmed or rejected       *)

Show(d, i) ==
    /\ dec[d] = Idle
    /\ _held(i)
    /\ dec' = [dec EXCEPT ![d] = [at |-> "shown", id |-> i, address |-> entry[i].address, key |-> entry[i].key]]
    /\ UNCHANGED <<now, presents, entry, index, req, add, servers, connected, asked, said, changes>>

MayDecide(i) == entry[i].status = "pending"

\* _decide, up to the check: the entry is read again
Decide(d, status) ==
    /\ dec[d].at = "shown"
    /\ dec' = [dec EXCEPT ![d] =
           IF _held(dec[d].id) /\ MayDecide(dec[d].id)
           THEN [at |-> "deciding", shown |-> dec[d], status |-> status, held |-> entry[dec[d].id]]
           ELSE Idle]
    /\ UNCHANGED <<now, presents, entry, index, req, add, servers, connected, asked, said, changes>>

\* _decide: the copy that was read is stored with its new status
StoreDecision(d) ==
    LET c == dec[d] IN
    /\ c.at = "deciding"
    /\ entry' = [entry EXCEPT ![c.shown.id] = _store([c.held EXCEPT !.status = c.status])]
    /\ said' = said \cup {[id |-> c.shown.id, address |-> c.shown.address,
                           key |-> c.shown.key, status |-> c.status]}
    /\ dec' = [dec EXCEPT ![d] = Idle]
    /\ UNCHANGED <<now, presents, index, req, add, servers, connected, asked, changes>>

---------------------------------------------------------------------------
(* add_server: approved, then the server, then settle                      *)

\* plausible bug: the address is not compared
approved_anywhere(i, address) == _held(i) /\ entry[i].status = "confirmed"

approved(i, address) ==
    /\ _held(i)
    /\ entry[i].address = address
    /\ entry[i].status = "confirmed"

Approve(a, i, address) ==
    /\ add[a] = Idle
    /\ approved(i, address)
    /\ add' = [add EXCEPT ![a] = [at |-> "approved", id |-> i, address |-> address, key |-> entry[i].key]]
    /\ UNCHANGED <<now, presents, entry, index, req, dec, servers, connected, asked, said, changes>>

\* ServerService.add: refused (a name that is taken, say), or added
Create(a) ==
    /\ add[a].at = "approved"
    /\ \/ /\ add' = [add EXCEPT ![a] = Idle]
          /\ UNCHANGED servers
       \/ /\ add' = [add EXCEPT ![a].at = "added"]
          /\ servers' = [servers EXCEPT ![add[a].id] =
                 @ \cup {[address |-> add[a].address, key |-> add[a].key, nth |-> Cardinality(@) + 1]}]
    /\ UNCHANGED <<now, presents, entry, index, req, dec, connected, asked, said, changes>>

Settled(i) == [entry EXCEPT ![i] = Absent]

Settle(a) ==
    /\ add[a].at = "added"
    /\ entry' = Settled(add[a].id)
    /\ add' = [add EXCEPT ![a] = Idle]
    /\ UNCHANGED <<now, presents, index, req, dec, servers, connected, asked, said, changes>>

---------------------------------------------------------------------------
(* connect, with the pinned key alone                                      *)

\* _trust_host_keys: the pin is all the client knows, and others are refused
Trusted(address, key) ==
    \E i \in Ids : \E s \in servers[i] : s.address = address /\ s.key = key

Connect(address) ==
    /\ \E i \in Ids : \E s \in servers[i] : s.address = address
    /\ Trusted(address, presents[address])
    /\ connected' = connected \cup {<<address, presents[address]>>}
    /\ UNCHANGED <<now, presents, entry, index, req, dec, add, servers, asked, said, changes>>

---------------------------------------------------------------------------
(* The environment                                                         *)

Present(address, key) ==
    /\ changes < MaxChanges /\ presents[address] # key
    /\ presents' = [presents EXCEPT ![address] = key]
    /\ changes' = changes + 1
    /\ UNCHANGED <<now, entry, index, req, dec, add, servers, connected, asked, said>>

Tick ==
    /\ now < MaxTime
    /\ now' = now + 1
    /\ UNCHANGED <<presents, entry, index, req, dec, add, servers, connected, asked, said, changes>>

Next ==
    \/ \E r \in Requesters :
        \/ \E a \in Addresses : Fingerprint(r, a)
        \/ \E i \in Ids : Store(r, i)
        \/ ReadIndex(r) \/ WriteIndex(r)
    \/ \E d \in Deciders :
        \/ \E i \in Ids : Show(d, i)
        \/ \E status \in {"confirmed", "rejected"} : Decide(d, status)
        \/ StoreDecision(d)
    \/ \E a \in Adders :
        \/ \E i \in Ids, address \in Addresses : Approve(a, i, address)
        \/ Create(a) \/ Settle(a)
    \/ \E address \in Addresses : Connect(address)
    \/ \E address \in Addresses, key \in Keys : Present(address, key)
    \/ Tick

Spec == Init /\ [][Next]_vars

---------------------------------------------------------------------------
(* Properties                                                              *)

\* A server is pinned only to the key a person was shown for that address and
\* confirmed (docs/ai-assistants.md), however requests, decisions and additions
\* overlap and whatever the host presents meanwhile.
PinnedWasConfirmed ==
    \A i \in Ids : \A s \in servers[i] :
        [id |-> i, address |-> s.address, key |-> s.key, status |-> "confirmed"] \in said

\* A connection is made only with a key a person confirmed for that address.
ConnectedWasConfirmed ==
    \A c \in connected : \E p \in said :
        p.status = "confirmed" /\ p.address = c[1] /\ p.key = c[2]

\* A confirmation is good for CONFIRMATION_LIFETIME from the request, also when
\* the decision was stored after it ended.
ApprovedInTime ==
    \A a \in Adders :
     add[a].at = "idle" /\ add'[a].at = "approved"
     => now < asked[add'[a].id].time + Lifetime

\* One person decides: a key that was rejected is never pinned, and a decision
\* is never taken back (test_a_person_confirms_it_once_and_it_leaves_the_list).
DecidedOnce ==
    \A p, q \in said : p.id = q.id => p.status = q.status

\* A confirmed key is pinned once (test_a_confirmed_key_is_pinned_once).
PinnedOnce == \A i \in Ids : Cardinality(servers[i]) <= 1

\* What was asked for and waits for a person is in the list of what waits.
Listed ==
    \A i \in Ids :
        /\ _held(i) /\ entry[i].status = "pending"
        /\ \A r \in Requesters : req[r].at \in {"stored", "read"} => req[r].id # i
        => i \in index.ids /\ now < index.until

---------------------------------------------------------------------------
(* Theorems                                                                *)

Entries == [address : Addresses, key : Keys, status : {"pending", "confirmed", "rejected"},
            expires : Int, until : Int]
Questions == [status : {"asked"}, address : Addresses, key : Keys, time : Int]
Offered == [at : {"offered"}, address : Addresses, key : Keys]
Shown == [at : {"shown"}, id : Ids, address : Addresses, key : Keys]
Deciding == [at : {"deciding"}, shown : Shown, status : {"confirmed", "rejected"}, held : Entries]
Adding == [at : {"approved", "added"}, id : Ids, address : Addresses, key : Keys]

TypeOK ==
    /\ now \in Int /\ Lifetime \in Int
    /\ presents \in [Addresses -> Keys]
    /\ entry \in [Ids -> Entries \cup {Absent}]
    /\ asked \in [Ids -> Questions \cup {Absent}]
    /\ DOMAIN req = Requesters
    /\ \A r \in Requesters : req[r].at = "offered" => req[r] \in Offered
    /\ dec \in [Deciders -> Shown \cup Deciding \cup {Idle}]
    /\ add \in [Adders -> Adding \cup {Idle}]
    /\ DOMAIN servers = Ids

Confirmed(i, x) == [id |-> i, address |-> x.address, key |-> x.key, status |-> "confirmed"] \in said

\* x, an entry or what a person was shown of it, is what was asked for under i
AsAsked(i, x) == asked[i] \in Questions /\ x.address = asked[i].address /\ x.key = asked[i].key

\* what is held, shown or about to be stored is what was asked for, and it only
\* counts as confirmed when a person said so
PinInv ==
    /\ TypeOK
    /\ \A i \in Ids : entry[i] \in Entries =>
           /\ AsAsked(i, entry[i]) /\ entry[i].expires = asked[i].time + Lifetime
           /\ entry[i].status = "confirmed" => Confirmed(i, entry[i])
    /\ \A d \in Deciders : dec[d] \in Shown => AsAsked(dec[d].id, dec[d])
    /\ \A d \in Deciders : dec[d] \in Deciding =>
           /\ AsAsked(dec[d].shown.id, dec[d].shown) /\ AsAsked(dec[d].shown.id, dec[d].held)
           /\ dec[d].held.expires = asked[dec[d].shown.id].time + Lifetime
    /\ \A a \in Adders : add[a] \in Adding => Confirmed(add[a].id, add[a])
    /\ PinnedWasConfirmed /\ ConnectedWasConfirmed

(* An entry that is held is there.                                           *)
LEMMA HeldIsThere ==
    ASSUME TypeOK, NEW i \in Ids, _held(i)
    PROVE  entry[i] \in Entries /\ now < entry[i].expires
BY DEF TypeOK, _held, Cached

(* _store changes nothing but how long the cache keeps an entry.             *)
LEMMA StoreKeeps ==
    ASSUME TypeOK, NEW c \in Entries
    PROVE  /\ _store(c) \in Entries /\ _store(c).address = c.address /\ _store(c).key = c.key
           /\ _store(c).status = c.status /\ _store(c).expires = c.expires
BY DEF _store, TypeOK, Entries

(* What does not touch the cache, the decisions or the additions keeps the   *)
(* invariant: the steps of the list, of the clock and of the hosts.          *)
LEMMA ApartStep ==
    ASSUME PinInv, TypeOK', UNCHANGED <<entry, dec, add, servers, connected, asked, said>>
    PROVE  PinInv'
BY DEF PinInv, AsAsked, Confirmed, PinnedWasConfirmed, ConnectedWasConfirmed

(* An entry is stored for an id that nobody has yet.                         *)
LEMMA StoreStep ==
    ASSUME PinInv, NEW r \in Requesters, NEW i \in Ids, Store(r, i)
    PROVE  PinInv'
<1> DEFINE c == [address |-> req[r].address, key |-> req[r].key, status |-> "pending",
                 expires |-> now + Lifetime, until |-> 0]
           q == [status |-> "asked", address |-> c.address, key |-> c.key, time |-> now]
<1>1. /\ asked[i] = Absent /\ entry' = [entry EXCEPT ![i] = _store(c)]
      /\ asked' = [asked EXCEPT ![i] = q]
      /\ req' = [req EXCEPT ![r] = [at |-> "stored", id |-> i]]
      /\ UNCHANGED <<now, presents, index, dec, add, servers, connected, said, changes>>
  BY DEF Store
<1>2. c \in Entries /\ q \in Questions
  BY DEF PinInv, TypeOK, Store, Offered, Entries, Questions
<1>3. /\ _store(c) \in Entries /\ _store(c).address = q.address /\ _store(c).key = q.key
      /\ _store(c).expires = q.time + Lifetime /\ _store(c).status = "pending"
  BY <1>2, StoreKeeps DEF PinInv
<1> HIDE DEF c, q
<1>4. TypeOK'
  BY <1>1, <1>2, <1>3 DEF PinInv, TypeOK, Offered
<1>5. \A j \in Ids : asked[j] \in Questions => j # i /\ asked'[j] = asked[j]
  BY <1>1 DEF PinInv, TypeOK, Questions, Absent
<1> QED
  BY <1>1, <1>2, <1>3, <1>4, <1>5
  DEF PinInv, TypeOK, AsAsked, Confirmed, PinnedWasConfirmed, ConnectedWasConfirmed, Shown, Deciding

(* A person is shown what is held, and decides about a copy read again.      *)
LEMMA DecideStep ==
    ASSUME PinInv, NEW d \in Deciders,
           \/ \E i \in Ids : Show(d, i)
           \/ \E status \in {"confirmed", "rejected"} : Decide(d, status)
    PROVE  PinInv'
<1> DEFINE same == UNCHANGED <<now, presents, entry, index, req, add, servers, connected, asked, said>>
<1>1. ASSUME NEW x, dec' = [dec EXCEPT ![d] = x], same,
             \/ x = Idle
             \/ x \in Shown /\ AsAsked(x.id, x)
             \/ /\ x \in Deciding /\ AsAsked(x.shown.id, x.shown) /\ AsAsked(x.shown.id, x.held)
                /\ x.held.expires = asked[x.shown.id].time + Lifetime
      PROVE  PinInv'
  <2>1. TypeOK'
    BY <1>1 DEF PinInv, TypeOK
  <2>2. dec'[d] = x /\ \A e \in Deciders \ {d} : dec'[e] = dec[e]
    BY <1>1 DEF PinInv, TypeOK
  <2>3. Idle \notin Shown /\ Idle \notin Deciding /\ \A y \in Shown : y \notin Deciding
    BY DEF Idle, Shown, Deciding
  <2> QED
    BY <1>1, <2>1, <2>2, <2>3
    DEF PinInv, TypeOK, AsAsked, Confirmed, PinnedWasConfirmed, ConnectedWasConfirmed
<1>2. ASSUME NEW i \in Ids, Show(d, i) PROVE PinInv'
  <2> DEFINE x == [at |-> "shown", id |-> i, address |-> entry[i].address, key |-> entry[i].key]
  <2>1. entry[i] \in Entries
    BY <1>2, HeldIsThere DEF Show, PinInv
  <2>2. x \in Shown /\ AsAsked(x.id, x)
    BY <2>1 DEF PinInv, AsAsked, Shown, Entries
  <2>3. dec' = [dec EXCEPT ![d] = x] /\ same
    BY <1>2 DEF Show
  <2> QED
    BY <1>1, <2>2, <2>3
<1>3. ASSUME NEW status \in {"confirmed", "rejected"}, Decide(d, status) PROVE PinInv'
  <2>1. dec[d] \in Shown /\ dec[d].id \in Ids
    BY <1>3 DEF Decide, PinInv, TypeOK, Shown, Deciding, Idle
  <2> DEFINE i == dec[d].id
             x == [at |-> "deciding", shown |-> dec[d], status |-> status, held |-> entry[i]]
  <2>2. \/ dec' = [dec EXCEPT ![d] = Idle]
        \/ _held(i) /\ dec' = [dec EXCEPT ![d] = x]
    BY <1>3, Zenon DEF Decide
  <2>3. same
    BY <1>3 DEF Decide
  <2>4. CASE dec' = [dec EXCEPT ![d] = Idle]
    BY <1>1, <2>3, <2>4
  <2>5. CASE _held(i) /\ dec' = [dec EXCEPT ![d] = x]
    <3>1. entry[i] \in Entries
      BY <2>1, <2>5, HeldIsThere DEF PinInv
    <3>2. /\ x \in Deciding /\ AsAsked(x.shown.id, x.shown) /\ AsAsked(x.shown.id, x.held)
          /\ x.held.expires = asked[x.shown.id].time + Lifetime
      BY <2>1, <3>1 DEF PinInv, Deciding
    <3> QED
      BY <1>1, <2>3, <2>5, <3>2
  <2> QED
    BY <2>2, <2>4, <2>5
<1> QED
  BY <1>2, <1>3

(* The copy with its new status: it is confirmed only as it was shown.       *)
LEMMA StoreDecisionStep ==
    ASSUME PinInv, NEW d \in Deciders, StoreDecision(d)
    PROVE  PinInv'
<1> DEFINE c == dec[d]
           i == c.shown.id
           e == _store([c.held EXCEPT !.status = c.status])
           p == [id |-> i, address |-> c.shown.address, key |-> c.shown.key, status |-> c.status]
<1>1. c \in Deciding /\ i \in Ids
  BY DEF StoreDecision, PinInv, TypeOK, Shown, Deciding, Idle
<1>2. /\ entry' = [entry EXCEPT ![i] = e] /\ said' = said \cup {p}
      /\ dec' = [dec EXCEPT ![d] = Idle]
      /\ UNCHANGED <<now, presents, index, req, add, servers, connected, asked, changes>>
  BY DEF StoreDecision
<1>3. c.shown \in Shown /\ c.held \in Entries /\ c.status \in {"confirmed", "rejected"}
  BY <1>1 DEF Deciding
<1>4. /\ AsAsked(i, c.shown) /\ AsAsked(i, c.held)
      /\ c.held.expires = asked[i].time + Lifetime
  BY <1>1 DEF PinInv
<1>5. /\ e \in Entries /\ e.address = c.held.address /\ e.key = c.held.key
      /\ e.status = c.status /\ e.expires = c.held.expires
  <2>1. [c.held EXCEPT !.status = c.status] \in Entries
    BY <1>3 DEF Entries
  <2>2. /\ [c.held EXCEPT !.status = c.status].address = c.held.address
        /\ [c.held EXCEPT !.status = c.status].key = c.held.key
        /\ [c.held EXCEPT !.status = c.status].status = c.status
        /\ [c.held EXCEPT !.status = c.status].expires = c.held.expires
    BY <1>3 DEF Entries
  <2> QED
    BY <2>1, <2>2, StoreKeeps DEF PinInv
<1>6. e.status = "confirmed" => p = [id |-> i, address |-> e.address, key |-> e.key,
                                     status |-> "confirmed"]
  BY <1>4, <1>5 DEF AsAsked
<1>7. AsAsked(i, e)
  BY <1>4, <1>5 DEF AsAsked
<1> HIDE DEF c, e, p, i
<1>8. TypeOK'
  BY <1>1, <1>2, <1>5 DEF PinInv, TypeOK
<1>9. entry'[i] = e /\ \A j \in Ids \ {i} : entry'[j] = entry[j]
  BY <1>1, <1>2 DEF PinInv, TypeOK
<1>10. \A j \in Deciders \ {d} : dec'[j] = dec[j]
  BY <1>2 DEF PinInv, TypeOK
<1>11. dec'[d] = Idle /\ Idle \notin Shown /\ Idle \notin Deciding
  BY <1>2 DEF PinInv, TypeOK, Idle, Shown, Deciding
<1>12. ASSUME NEW j \in Ids, entry'[j] \in Entries
       PROVE  /\ AsAsked(j, entry[j])' /\ entry'[j].expires = asked'[j].time + Lifetime
              /\ entry'[j].status = "confirmed" => Confirmed(j, entry[j])'
  <2>1. CASE j = i
    BY <1>2, <1>4, <1>5, <1>6, <1>7, <1>9, <2>1 DEF AsAsked, Confirmed
  <2>2. CASE j # i
    BY <1>2, <1>9, <1>12, <2>2 DEF PinInv, AsAsked, Confirmed
  <2> QED
    BY <2>1, <2>2
<1> QED
  BY <1>2, <1>8, <1>10, <1>11, <1>12
  DEF PinInv, AsAsked, Confirmed, PinnedWasConfirmed, ConnectedWasConfirmed

(* A server is added with what was confirmed, and settles what it used.      *)
LEMMA AddStep ==
    ASSUME PinInv, NEW a \in Adders,
           \/ \E i \in Ids, address \in Addresses : Approve(a, i, address)
           \/ Create(a) \/ Settle(a)
    PROVE  PinInv'
<1>1. ASSUME NEW i \in Ids, NEW address \in Addresses, Approve(a, i, address) PROVE PinInv'
  <2> DEFINE x == [at |-> "approved", id |-> i, address |-> address, key |-> entry[i].key]
  <2>1. /\ entry[i] \in Entries /\ entry[i].address = address /\ entry[i].status = "confirmed"
    BY <1>1, HeldIsThere DEF Approve, approved, PinInv
  <2>2. x \in Adding /\ Confirmed(x.id, x)
    BY <2>1 DEF PinInv, Adding, Entries, Confirmed
  <2>3. /\ add' = [add EXCEPT ![a] = x]
        /\ UNCHANGED <<now, presents, entry, index, req, dec, servers, connected, asked, said>>
    BY <1>1 DEF Approve
  <2> HIDE DEF x
  <2> QED
    BY <2>2, <2>3
    DEF PinInv, TypeOK, AsAsked, Confirmed, PinnedWasConfirmed, ConnectedWasConfirmed
<1>2. ASSUME Create(a) PROVE PinInv'
  <2>1. add[a] \in Adding /\ add[a].id \in Ids /\ Confirmed(add[a].id, add[a])
    BY <1>2 DEF Create, PinInv, TypeOK, Adding, Idle
  <2>2. UNCHANGED <<now, presents, entry, index, req, dec, connected, asked, said>>
    BY <1>2 DEF Create
  <2>3. CASE add' = [add EXCEPT ![a] = Idle] /\ servers' = servers
    <3>1. Idle \notin Adding
      BY DEF Idle, Adding
    <3> QED
      BY <2>2, <2>3, <3>1
      DEF PinInv, TypeOK, AsAsked, Confirmed, PinnedWasConfirmed, ConnectedWasConfirmed
  <2> DEFINE y == [add[a] EXCEPT !.at = "added"]
             i == add[a].id
             t == [address |-> add[a].address, key |-> add[a].key,
                   nth |-> Cardinality(servers[i]) + 1]
  <2>4. CASE add' = [add EXCEPT ![a] = y] /\ servers' = [servers EXCEPT ![i] = @ \cup {t}]
    <3>1. y \in Adding /\ y.id = i /\ Confirmed(i, y)
      BY <2>1 DEF Adding, Confirmed
    <3>2. Confirmed(i, t)
      BY <2>1 DEF Confirmed
    <3> HIDE DEF y, t
    <3>3. TypeOK'
      BY <2>2, <2>4, <3>1 DEF PinInv, TypeOK
    <3>4. PinnedWasConfirmed'
      BY <2>1, <2>2, <2>4, <3>2 DEF PinInv, TypeOK, Confirmed, PinnedWasConfirmed
    <3>5. \A b \in Adders : add'[b] \in Adding => Confirmed(add[b].id, add[b])'
      BY <2>2, <2>4, <3>1 DEF PinInv, TypeOK, Confirmed
    <3> QED
      BY <2>2, <3>3, <3>4, <3>5 DEF PinInv, AsAsked, Confirmed, ConnectedWasConfirmed
  <2> QED
    BY <1>2, <2>3, <2>4 DEF Create
<1>3. ASSUME Settle(a) PROVE PinInv'
  <2>1. add[a] \in Adding /\ add[a].id \in Ids
    BY <1>3 DEF Settle, PinInv, TypeOK, Adding, Idle
  <2>2. /\ entry' = [entry EXCEPT ![add[a].id] = Absent] /\ add' = [add EXCEPT ![a] = Idle]
        /\ UNCHANGED <<now, presents, index, req, dec, servers, connected, asked, said>>
    BY <1>3 DEF Settle, Settled
  <2>3. Absent \notin Entries /\ Idle \notin Adding
    BY DEF Absent, Idle, Entries, Adding
  <2> QED
    BY <2>1, <2>2, <2>3
    DEF PinInv, TypeOK, AsAsked, Confirmed, PinnedWasConfirmed, ConnectedWasConfirmed
<1> QED
  BY <1>1, <1>2, <1>3

(* A connection is made with a key that is pinned.                           *)
LEMMA ConnectStep ==
    ASSUME PinInv, NEW address \in Addresses, Connect(address)
    PROVE  PinInv'
<1>1. /\ Trusted(address, presents[address])
      /\ connected' = connected \cup {<<address, presents[address]>>}
      /\ UNCHANGED <<now, presents, entry, index, req, dec, add, servers, asked, said>>
  BY DEF Connect
<1>2. PICK i \in Ids : \E s \in servers[i] : s.address = address /\ s.key = presents[address]
  BY <1>1 DEF Trusted
<1>3. \E p \in said : p.status = "confirmed" /\ p.address = address /\ p.key = presents[address]
  BY <1>2 DEF PinInv, PinnedWasConfirmed
<1>4. ConnectedWasConfirmed'
  BY <1>1, <1>3 DEF PinInv, ConnectedWasConfirmed
<1> QED
  BY <1>1, <1>4 DEF PinInv, TypeOK, AsAsked, Confirmed, PinnedWasConfirmed

LEMMA PinStep ==
    ASSUME PinInv, [Next]_vars
    PROVE  PinInv'
<1>1. ASSUME NEW r \in Requesters, NEW a \in Addresses, Fingerprint(r, a) PROVE PinInv'
  <2>1. UNCHANGED <<now, presents, entry, dec, add, servers, connected, asked, said>>
    BY <1>1 DEF Fingerprint
  <2>2. TypeOK'
    BY <1>1, <2>1 DEF PinInv, TypeOK, Fingerprint, Offered
  <2> QED
    BY <2>1, <2>2, ApartStep
<1>2. ASSUME NEW r \in Requesters, ReadIndex(r) \/ WriteIndex(r) PROVE PinInv'
  <2>1. UNCHANGED <<now, presents, entry, dec, add, servers, connected, asked, said>>
    BY <1>2 DEF ReadIndex, WriteIndex
  <2>2. PICK x : req' = [req EXCEPT ![r] = x] /\ x.at # "offered"
    BY <1>2 DEF ReadIndex, WriteIndex, Idle
  <2>3. TypeOK'
    BY <2>1, <2>2 DEF PinInv, TypeOK
  <2> QED
    BY <2>1, <2>3, ApartStep
<1>3. ASSUME NEW address \in Addresses, NEW key \in Keys, Present(address, key) PROVE PinInv'
  <2>1. UNCHANGED <<now, req, entry, dec, add, servers, connected, asked, said>>
    BY <1>3 DEF Present
  <2>2. TypeOK'
    BY <1>3, <2>1 DEF PinInv, TypeOK, Present
  <2> QED
    BY <2>1, <2>2, ApartStep
<1>4. CASE Tick
  <2>1. UNCHANGED <<presents, req, entry, dec, add, servers, connected, asked, said>>
    BY <1>4 DEF Tick
  <2>2. TypeOK'
    BY <1>4, <2>1 DEF PinInv, TypeOK, Tick
  <2> QED
    BY <2>1, <2>2, ApartStep
<1>5. CASE UNCHANGED vars
  BY <1>5, ApartStep DEF vars, PinInv, TypeOK
<1>6. ASSUME NEW r \in Requesters, NEW i \in Ids, Store(r, i) PROVE PinInv'
  BY <1>6, StoreStep
<1>7. ASSUME NEW d \in Deciders, \/ \E i \in Ids : Show(d, i)
                                \/ \E status \in {"confirmed", "rejected"} : Decide(d, status)
      PROVE  PinInv'
  BY <1>7, DecideStep
<1>8. ASSUME NEW d \in Deciders, StoreDecision(d) PROVE PinInv'
  BY <1>8, StoreDecisionStep
<1>9. ASSUME NEW a \in Adders, \/ \E i \in Ids, address \in Addresses : Approve(a, i, address)
                              \/ Create(a) \/ Settle(a)
      PROVE  PinInv'
  BY <1>9, AddStep
<1>10. ASSUME NEW address \in Addresses, Connect(address) PROVE PinInv'
  BY <1>10, ConnectStep
<1> QED
  BY <1>1, <1>2, <1>3, <1>4, <1>5, <1>6, <1>7, <1>8, <1>9, <1>10 DEF Next

LEMMA PinInvariant == ASSUME LifetimeAssumption PROVE Spec => []PinInv
<1>1. Init => PinInv
  <2>1. /\ Absent \notin Entries /\ Idle \notin Shown /\ Idle \notin Deciding /\ Idle \notin Adding
        /\ Idle.at # "offered"
    BY DEF Absent, Idle, Entries, Shown, Deciding, Adding
  <2> QED
    BY <2>1, LifetimeAssumption
    DEF LifetimeAssumption, Init, PinInv, TypeOK, PinnedWasConfirmed, ConnectedWasConfirmed
<1> QED
  BY <1>1, PinStep, PTL DEF Spec

(* However many calls, people and additions overlap, whatever expires and    *)
(* whatever the hosts present meanwhile, a server is pinned only to a key a  *)
(* person was shown for its address and confirmed.                           *)
THEOREM PinnedWasConfirmedAlways ==
    ASSUME LifetimeAssumption PROVE Spec => []PinnedWasConfirmed
<1>1. PinInv => PinnedWasConfirmed
  BY DEF PinInv
<1> QED
  BY <1>1, PinInvariant, PTL

(* And the manager connects with no other key.                               *)
THEOREM ConnectedWasConfirmedAlways ==
    ASSUME LifetimeAssumption PROVE Spec => []ConnectedWasConfirmed
<1>1. PinInv => ConnectedWasConfirmed
  BY DEF PinInv
<1> QED
  BY <1>1, PinInvariant, PTL

(* A confirmation that was stored late still ends with the request's time:   *)
(* an addition that begins is within CONFIRMATION_LIFETIME of the request.   *)
THEOREM ApprovedInTimeAlways ==
    ASSUME LifetimeAssumption PROVE Spec => [][ApprovedInTime]_vars
<1>1. ASSUME PinInv, Next, NEW a \in Adders, add[a].at = "idle", add'[a].at = "approved"
      PROVE  now < asked[add'[a].id].time + Lifetime
  <2>1. PICK i \in Ids, address \in Addresses : Approve(a, i, address)
    <3>1. add' # add
      BY <1>1
    <3>2. PICK b \in Adders : \/ \E i \in Ids, address \in Addresses : Approve(b, i, address)
                             \/ Create(b) \/ Settle(b)
      BY <1>1, <3>1
      DEF Next, Fingerprint, Store, ReadIndex, WriteIndex, Show, Decide, StoreDecision, Connect,
          Present, Tick
    <3>3. b = a
      BY <1>1, <3>2 DEF Approve, Create, Settle, PinInv, TypeOK
    <3>4. ~ Create(a) /\ ~ Settle(a)
      BY <1>1 DEF Create, Settle
    <3> QED
      BY <3>2, <3>3, <3>4
  <2>2. entry[i] \in Entries /\ now < entry[i].expires
    BY <1>1, <2>1, HeldIsThere DEF Approve, approved, PinInv
  <2>3. add'[a].id = i
    BY <1>1, <2>1 DEF Approve, PinInv, TypeOK
  <2> QED
    BY <1>1, <2>2, <2>3 DEF PinInv
<1>2. PinInv /\ [Next]_vars => [ApprovedInTime]_vars
  BY <1>1 DEF ApprovedInTime
<1> QED
  BY <1>2, PinInvariant, PTL DEF Spec
=============================================================================
