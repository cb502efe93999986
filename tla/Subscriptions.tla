---------------------------- MODULE Subscriptions ----------------------------
(***************************************************************************)
(* Notifications: the rows the command line interface keeps in the table   *)
(* subscriptions, the list of them that accounts.js caches and renews once *)
(* an hour, the router that takes every block that is extracted past the   *)
(* list, and the clients of the unix socket, who register under a profile. *)
(*                                                                         *)
(* Once the list is there a block is routed without a turn of the event    *)
(* loop: it is one step.  The first block asks the database for it.        *)
(* MaxChanges, MaxFailures and MaxAsks are bounds.                         *)
(***************************************************************************)
EXTENDS Topics

CONSTANTS
  Profiles, Clients,
  References,    \* what is subscribed to (as the operator spells it)
  Traces,        \* the traces of blocks
  Settings,      \* of SUB_SUSPEND_ALL, SUB_USE_UNIX_SOCKET, SUB_USE_REDIS, SUB_TYPE_ACCOUNT
  MaxChanges, MaxFailures, MaxAsks

Methods == {"unix_socket", "redis_mem"}

\* A row of the table subscriptions.
Row == [id : 1..MaxChanges, profile : Profiles, reference : References, method : Methods,
        enabled : BOOLEAN]

ASSUME SubscriptionsAssumption ==
  /\ {MaxChanges, MaxFailures, MaxAsks} \subseteq Nat
  /\ Settings \subseteq [suspend : {"true", "false", "unset"}, unix : BOOLEAN,
                         redis : BOOLEAN, account : BOOLEAN]
  /\ \A t \in Traces : IsTrace(t)
  /\ \A s \in SUBSET Row : s # None
  /\ "redis" \notin Clients

VARIABLES
  env,
  profiles, rows, changes,       \* the tables, and how often they changed
  acctSubs,                      \* the list, None when undefined
  timers, refreshing, failures,  \* timers that are set, their queries, failed queries
  polling, todo,                 \* the router waits for the list; what it has to route
  trace, missed, sent,           \* the last block, whether a query failed it, and its messages
  conn, asked,                   \* clients: new, open, gone; their setListener messages
  lookups, listeners             \* of profiles (queries), and [client, profile]

database == <<profiles, rows, changes>>
list     == <<acctSubs, timers, refreshing, failures>>
block    == <<polling, todo, trace, missed, sent>>
socket   == <<conn, asked, lookups, listeners>>
vars     == <<env, database, list, block, socket>>

Init ==
  /\ env \in Settings
  /\ profiles = {} /\ rows = {} /\ changes = 0
  /\ acctSubs = None /\ timers = 0 /\ refreshing = 0 /\ failures = 0
  /\ polling = FALSE /\ todo = <<>> /\ trace = <<>> /\ missed = FALSE /\ sent = {}
  /\ conn = [c \in Clients |-> "new"] /\ asked = [c \in Clients |-> 0]
  /\ lookups = {} /\ listeners = <<>>

-----------------------------------------------------------------------------
(* The menu of cli/subscriptions.js.  A definition whose comment begins with *)
(* "Faulty" belongs to no behaviour: it is the one below it with a plausible *)
(* bug, which a property must notice.                                        *)

CreateProfile(p) ==
  /\ p \notin profiles /\ profiles' = profiles \cup {p}
  /\ UNCHANGED <<env, rows, changes, list, block, socket>>

Change(r) == /\ changes < MaxChanges /\ changes' = changes + 1 /\ rows' = r
             /\ UNCHANGED <<env, profiles, list, block, socket>>

\* Nothing keeps a subscription from being there twice.
Add(p, ref, method) ==
  /\ p \in profiles
  /\ Change(rows \cup {[id |-> changes + 1, profile |-> p, reference |-> ref,
                        method |-> method, enabled |-> TRUE]})

Drop(p, ref, method) ==
  LET dropped == {r \in rows : r.profile = p /\ r.reference = ref /\ r.method = method}
  IN dropped # {} /\ Change(rows \ dropped)

SetEnabled(r, b) ==
  r.enabled # b /\ Change((rows \ {r}) \cup {[r EXCEPT !.enabled = b]})

\* Faulty: those that are disabled as well.
GetAllRows == rows

\* getAllEnabled('accounts')
GetAllEnabled == {r \in rows : r.enabled}

-----------------------------------------------------------------------------
(* Delivery *)

Times(s, e) == Cardinality({i \in DOMAIN s : s[i] = e})

UnixServer  == env.suspend = "false" /\ env.unix
RedisServer == env.suspend = "false" /\ env.redis

\* Faulty: every listener is sent every message.
ToSocketsAll(r, tx) ==
  {[to |-> l.client, profile |-> r.profile, id |-> r.id, hash |-> tx.hash,
    topic |-> r.reference, copies |-> Times(tx.topics, r.reference)] :
     l \in {k \in ToSet(listeners) : UnixServer /\ conn[k.client] = "open"}}

\* outgoing:socket: to every listener of the profile, as often as it is in the list,
\* if its connection is still there.
ToSockets(r, tx) ==
  {[to |-> l.client, profile |-> r.profile, id |-> r.id, hash |-> tx.hash,
    topic |-> r.reference, copies |-> Times(tx.topics, r.reference) * Times(listeners, l)] :
     l \in {k \in ToSet(listeners) :
              UnixServer /\ k.profile = r.profile /\ conn[k.client] = "open"}}

\* outgoing:redis: handed to redis.publish, which swallows its error, for anyone.
ToRedis(r, tx) ==
  {[to |-> "redis", profile |-> r.profile, id |-> r.id, hash |-> tx.hash,
    topic |-> r.reference, copies |-> Times(tx.topics, r.reference)]}

\* process, of one transaction.
Messages(tx, subs) ==
  UNION {IF r.method = "unix_socket" THEN ToSockets(r, tx)
         ELSE IF RedisServer THEN ToRedis(r, tx) ELSE {} :
           r \in {s \in subs : s.reference \in ToSet(tx.topics)}}

MessagesOf(txs, subs) == UNION {Messages(txs[i], subs) : i \in DOMAIN txs}

\* accounts.js looks for subscriptions topic by topic: not for a transaction without any.
Busy(txs) == Select(txs, LAMBDA tx : tx.topics # <<>>)

\* data of router.js.  SUB_SUSPEND_ALL lets it run when it is not set, though no server
\* has been started then.
Routed(t) ==
  IF env.suspend # "true" /\ (env.unix \/ env.redis) /\ env.account
    THEN Busy(ExtractTopics(t)) ELSE <<>>

\* processBlock: the block is traced and routed; without a list, it is asked for first.
ProcessBlock(t) ==
  /\ ~polling /\ trace' = t /\ missed' = FALSE
  /\ LET txs == Routed(t)
     IN IF txs # <<>> /\ acctSubs = None
          THEN polling' = TRUE /\ todo' = txs /\ sent' = {}
          ELSE sent' = MessagesOf(txs, acctSubs) /\ UNCHANGED <<polling, todo>>
  /\ UNCHANGED <<env, database, list, socket>>

\* Faulty: a transaction is put off until there is a list.
AnswerAgain ==
  /\ polling
  /\ \/ /\ acctSubs' = GetAllEnabled /\ timers' = timers + 1
        /\ sent' = sent \cup MessagesOf(todo, GetAllEnabled)
        /\ polling' = FALSE /\ todo' = <<>>
     \/ /\ todo' = Append(Tail(todo), Head(todo))
        /\ UNCHANGED <<acctSubs, timers, sent, polling>>
  /\ UNCHANGED <<env, database, refreshing, failures, missed, trace, socket>>

\* The answer to the router.  After a query that failed the transaction is given up,
\* and the next one asks again; either way a timer is set.
Answer ==
  /\ polling /\ timers' = timers + 1
  /\ \/ /\ acctSubs' = GetAllEnabled
        /\ sent' = sent \cup MessagesOf(todo, GetAllEnabled)
        /\ polling' = FALSE /\ todo' = <<>>
        /\ UNCHANGED <<failures, missed>>
     \/ /\ failures < MaxFailures /\ failures' = failures + 1
        /\ acctSubs' = None /\ missed' = TRUE
        /\ todo' = Tail(todo) /\ polling' = (Len(todo) > 1)
        /\ UNCHANGED sent
  /\ UNCHANGED <<env, database, refreshing, trace, socket>>

\* Faulty: setInterval, which is set again as well.
TimeoutRepeated ==
  /\ timers > 0 /\ refreshing' = refreshing + 1
  /\ UNCHANGED <<env, database, acctSubs, timers, failures, block, socket>>

\* The hour is over.
Timeout ==
  /\ timers > 0 /\ timers' = timers - 1 /\ refreshing' = refreshing + 1
  /\ UNCHANGED <<env, database, acctSubs, failures, block, socket>>

\* Faulty: the timer is not set again.
RefreshOnce ==
  /\ refreshing > 0 /\ refreshing' = refreshing - 1
  /\ acctSubs' = GetAllEnabled
  /\ UNCHANGED <<env, database, timers, failures, block, socket>>

Refresh ==
  /\ refreshing > 0 /\ refreshing' = refreshing - 1 /\ timers' = timers + 1
  /\ \/ acctSubs' = GetAllEnabled /\ UNCHANGED failures
     \/ /\ failures < MaxFailures /\ failures' = failures + 1
        /\ acctSubs' = None
  /\ UNCHANGED <<env, database, block, socket>>

-----------------------------------------------------------------------------
(* The unix socket *)

Connect(c) ==
  /\ UnixServer /\ conn[c] = "new" /\ conn' = [conn EXCEPT ![c] = "open"]
  /\ UNCHANGED <<env, database, list, block, asked, lookups, listeners>>

\* Connections are forgotten, listeners are not.
Disconnect(c) ==
  /\ conn[c] = "open" /\ conn' = [conn EXCEPT ![c] = "gone"]
  /\ UNCHANGED <<env, database, list, block, asked, lookups, listeners>>

\* A setListener message, whose profile is looked up.
Ask(c, p) ==
  /\ conn[c] = "open" /\ asked[c] < MaxAsks
  /\ asked' = [asked EXCEPT ![c] = @ + 1]
  /\ lookups' = lookups \cup {[client |-> c, profile |-> p, nr |-> asked[c]]}
  /\ UNCHANGED <<env, database, list, block, conn, listeners>>

\* The client may be gone by now.  Without a profile, or when the query fails, nothing is
\* registered: the error is addressed to message.client, who is nobody.
SetListener(l) ==
  /\ l \in lookups /\ lookups' = lookups \ {l}
  /\ \/ l.profile \in profiles
        /\ listeners' = Append(listeners, [client |-> l.client, profile |-> l.profile])
     \/ UNCHANGED listeners
  /\ UNCHANGED <<env, database, list, block, conn, asked>>

\* The list, the timers, the connections and the block are those of a process.
Restart ==
  /\ acctSubs' = None /\ timers' = 0 /\ refreshing' = 0
  /\ polling' = FALSE /\ todo' = <<>> /\ trace' = <<>> /\ missed' = FALSE /\ sent' = {}
  /\ conn' = [c \in Clients |-> IF conn[c] = "open" THEN "gone" ELSE conn[c]]
  /\ lookups' = {} /\ listeners' = <<>>
  /\ UNCHANGED <<env, database, failures, asked>>

-----------------------------------------------------------------------------
Menu == \/ \E p \in Profiles : CreateProfile(p)
        \/ \E p \in Profiles, ref \in References, m \in Methods : Add(p, ref, m) \/ Drop(p, ref, m)
        \/ \E r \in rows, b \in BOOLEAN : SetEnabled(r, b)

Next == \/ Menu
        \/ \E t \in Traces : ProcessBlock(t)
        \/ Answer \/ Timeout \/ Refresh
        \/ \E c \in Clients : \/ Connect(c) \/ Disconnect(c)
                              \/ \E p \in Profiles : Ask(c, p)
        \/ \E l \in lookups : SetListener(l)
        \/ Restart

Spec == Init /\ [][Next]_vars

\* The database answers in the end, and the timers fire.
FairSpec == Spec /\ WF_vars(Answer) /\ WF_vars(Timeout) /\ WF_vars(Refresh)

-----------------------------------------------------------------------------
(* Properties *)

TypeOK ==
  /\ env \in Settings
  /\ profiles \subseteq Profiles /\ changes \in 0..MaxChanges
  /\ rows \subseteq Row /\ \A r \in rows : r.id <= changes /\ r.profile \in profiles
  /\ acctSubs # None => \A r \in acctSubs : r.id \in 1..changes /\ r.enabled
  /\ timers \in Nat /\ refreshing \in Nat /\ failures \in 0..MaxFailures
  /\ polling = (todo # <<>>) /\ missed \in BOOLEAN
  /\ \A m \in sent : m.copies \in Nat \ {0}
  /\ conn \in [Clients -> {"new", "open", "gone"}] /\ asked \in [Clients -> 0..MaxAsks]

\* "Any transaction where account is in the transactions topics": when a block has been
\* routed and no query failed, each account the block touches that is on the list has been
\* announced for each transaction, to everybody who listens or to redis (handed to its
\* publish).
Announced ==
  /\ acctSubs # None /\ ~missed /\ ~polling /\ env.suspend = "false" /\ env.account =>
       \A r \in acctSubs, h \in {trace[i].hash : i \in DOMAIN trace} :
         r.reference \in Touched(trace, h) =>
           \A c \in Clients \cup {"redis"} :
             (IF r.method = "redis_mem" THEN c = "redis" /\ env.redis
              ELSE c # "redis" /\ env.unix /\ conn[c] = "open"
                   /\ [client |-> c, profile |-> r.profile] \in ToSet(listeners)) =>
               \E m \in sent : m.to = c /\ m.id = r.id /\ m.hash = h

\* A step that leaves the tables, the socket and the timers' queries alone is one that routes.
Complete == [][UNCHANGED <<database, socket, refreshing>> => Announced']_vars

\* "Only notifications related to currently connected listeners": a message is about an
\* account its transaction touches, and goes to a client that registered under the profile
\* the subscription belongs to.
Sound ==
  \A m \in sent :
    /\ m.topic \in Touched(trace, m.hash)
    /\ m.to \in Clients => [client |-> m.to, profile |-> m.profile] \in ToSet(listeners)

\* A transaction is announced once per subscription to a client that registered once; the
\* copies are never more than its setListener messages, nor more than one on redis.
Once == \A m \in sent : m.copies <= (IF m.to = "redis" THEN 1 ELSE asked[m.to])

\* One timer renews the list.  Each query that fails may add one more for good: the next
\* transaction asks again, and both set a timer.  (One block is routed at a time here; two
\* cycles that overlap could both ask for the first list.)
Timers == timers + refreshing <= 1 + failures

\* A list that is out of date is renewed, or lost and asked for anew.
Refreshed ==
  acctSubs \notin {None, GetAllEnabled} ~> acctSubs \in {None, GetAllEnabled}

\* Notification never holds up the indexing for good: routing ends whether the query for
\* the list succeeds or fails, as long as the database answers at all (accounts.js:10).
RoutingEnds == polling ~> ~polling
=============================================================================
