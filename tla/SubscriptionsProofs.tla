------------------------- MODULE SubscriptionsProofs -------------------------
(***************************************************************************)
(* Theorems about the notifications and the cache of subscriptions, for    *)
(* any tables, clients, blocks and failing queries.  The inductive         *)
(* invariant says what is still to be routed, and what each message owes   *)
(* to its block, its listener and the requests of its client.              *)
(***************************************************************************)
EXTENDS Subscriptions, TopicsProofs

-----------------------------------------------------------------------------
(* What is routed *)

LEMMA BusyFold ==
  ASSUME NEW T, NEW txs \in Seq(T)
  PROVE  \E f : /\ f[0] = <<>> /\ Busy(txs) = f[Len(txs)]
                /\ \A k \in 1..Len(txs) : f[k] =
                     IF txs[k].topics # <<>> THEN Append(f[k - 1], txs[k]) ELSE f[k - 1]
<1> DEFINE step(acc, e) == IF e.topics # <<>> THEN Append(acc, e) ELSE acc
           Q(it) == it = [z \in SUBSET DOMAIN txs |->
                           IF z = {} THEN <<>>
                           ELSE step(it[z \ {Max(z)}], txs[Max(z)])]
           A     == Seq(T)
           iter  == CHOOSE it : Q(it)
           f     == [k \in 0..Len(txs) |-> iter[1..k]]
<1>1. Busy(txs) = iter[DOMAIN txs]
  BY DEF Busy, Select, FoldLeft, MapThenFoldSet
<1>2. DOMAIN txs = 1..Len(txs) /\ Len(txs) \in Nat
  OBVIOUS
<1>3. \E it : Q(it)
  <2> DEFINE g == [p \in A \X (1..Len(txs)) |-> step(p[1], txs[p[2]])]
  <2>1. g \in [A \X (1..Len(txs)) -> A] /\ <<>> \in A
    OBVIOUS
  <2>2. PICK it : Iterates(it, A, <<>>, Len(txs), g)
    <3> HIDE DEF g, A
    <3> QED
      BY <1>2, <2>1, FoldExists
  <2>3. ASSUME NEW z \in SUBSET (1..Len(txs)), z # {}
        PROVE  g[<<it[z \ {Max(z)}], Max(z)>>] = step(it[z \ {Max(z)}], txs[Max(z)])
    <3>1. z \in SUBSET Nat /\ \A y \in z : y <= Len(txs)
      BY <1>2
    <3>2. Max(z) \in 1..Len(txs)
      BY <1>2, <2>3, <3>1, MaxOf
    <3>3. it[z \ {Max(z)}] \in A
      BY <2>2 DEF Iterates
    <3> HIDE DEF A
    <3> QED
      BY <3>2, <3>3
  <2> HIDE DEF g, A
  <2>4. Q(it)
    BY <1>2, <2>2, <2>3 DEF Iterates
  <2> QED
    BY <2>4
<1>4. Q(iter)
  BY <1>3
<1> HIDE DEF iter
<1>5. f[0] = <<>>
  BY <1>2, <1>4
<1>6. ASSUME NEW k \in 1..Len(txs) PROVE f[k] = step(f[k - 1], txs[k])
  <2>1. 1..k \in SUBSET DOMAIN txs
    BY <1>2
  <2>2. 1..k # {} /\ Max(1..k) = k /\ (1..k) \ {Max(1..k)} = 1 .. k - 1
    BY UpTo
  <2>3. iter[1..k] = step(iter[1 .. k - 1], txs[k])
    BY <1>4, <2>1, <2>2
  <2> QED
    BY <1>2, <2>3
<1>7. Busy(txs) = f[Len(txs)]
  BY <1>1, <1>2
<1> HIDE DEF f
<1> QED
  BY <1>5, <1>6, <1>7

LEMMA OwnSet ==
  ASSUME NEW T, NEW s \in Seq(T)
  PROVE  s \in Seq(ToSet(s)) /\ ToSet(s) \subseteq T /\ (s = <<>> <=> ToSet(s) = {})
<1>1. s \in [1..Len(s) -> ToSet(s)] /\ Len(s) \in Nat
  BY DEF ToSet
<1> DEFINE n == Len(s)
           R == ToSet(s)
<1>2. R \subseteq T /\ (s = <<>> <=> R = {})
  <2>1. R \subseteq T
    BY DEF ToSet
  <2>2. s = <<>> => R = {}
    BY DEF ToSet
  <2>3. ASSUME s # <<>> PROVE s[1] \in R
    <3>1. 1 \in DOMAIN s
      BY <2>3
    <3> QED
      BY <3>1 DEF ToSet
  <2> QED
    BY <2>1, <2>2, <2>3
<1> HIDE DEF n, R
<1>3. s \in [1..n -> R] /\ n \in Nat
  BY <1>1 DEF n, R
<1>4. s \in Seq(R)
  BY <1>3
<1> QED
  BY <1>2, <1>4 DEF R

LEMMA BusyOf ==
  ASSUME NEW T, NEW txs \in Seq(T)
  PROVE  Busy(txs) \in Seq(T) /\ ToSet(Busy(txs)) = {tx \in ToSet(txs) : tx.topics # <<>>}
<1>1. PICK f : /\ f[0] = <<>> /\ Busy(txs) = f[Len(txs)]
               /\ \A k \in 1..Len(txs) :
                    f[k] = IF txs[k].topics # <<>> THEN Append(f[k - 1], txs[k]) ELSE f[k - 1]
  BY BusyFold
<1> DEFINE those(k) == {tx \in {txs[i] : i \in 1..k} : tx.topics # <<>>}
           Upto(k) == f[k] \in Seq(T) /\ ToSet(f[k]) = those(k)
           S == {k \in Nat : k <= Len(txs) => Upto(k)}
<1>2. Upto(0)
  BY <1>1 DEF ToSet
<1>3. ASSUME NEW k \in Nat, k + 1 <= Len(txs), Upto(k) PROVE Upto(k + 1)
  <2>1. k + 1 \in 1..Len(txs) /\ (k + 1) - 1 = k /\ txs[k + 1] \in T
    BY <1>3
  <2>2. f[k + 1] = IF txs[k + 1].topics # <<>> THEN Append(f[k], txs[k + 1]) ELSE f[k]
    BY <1>1, <2>1
  <2>3. those(k + 1) = those(k) \cup IF txs[k + 1].topics # <<>> THEN {txs[k + 1]} ELSE {}
    OBVIOUS
  <2> DEFINE tx == txs[k + 1]
             q  == f[k]
  <2> HIDE DEF those, tx, q
  <2>4. /\ Append(q, tx) \in Seq(T) /\ ToSet(Append(q, tx)) = ToSet(q) \cup {tx}
    BY <1>3, <2>1, AppendSet DEF tx, q
  <2> QED
    BY <1>3, <2>2, <2>3, <2>4 DEF tx, q
<1> HIDE DEF Upto
<1>4. 0 \in S /\ \A k \in S : k + 1 \in S
  BY <1>2, <1>3
<1>5. Len(txs) \in S
  <2> HIDE DEF S
  <2>1. Len(txs) \in Nat /\ S \in SUBSET Nat
    BY DEF S
  <2> QED
    BY <1>4, <2>1, NatSet
<1>6. Upto(Len(txs))
  BY <1>5
<1>7. ToSet(txs) = {txs[i] : i \in 1..Len(txs)}
  BY DEF ToSet
<1> QED
  BY <1>1, <1>6, <1>7 DEF Upto

\* A transaction as a reader of the trace would give it.
Right(tx, t) ==
  tx.topics \in Seq(Accounts) /\ IsInjective(tx.topics) /\ ToSet(tx.topics) = Touched(t, tx.hash)

IsTxs(txs, t) == txs \in Seq(ToSet(txs)) /\ \A tx \in ToSet(txs) : Right(tx, t)

LEMMA NoTxs == \A t : IsTxs(<<>>, t)
BY DEF IsTxs, ToSet

LEMMA RoutedOf ==
  ASSUME NEW t \in Traces
  PROVE  /\ IsTxs(Routed(t), t)
         /\ env.suspend # "true" /\ (env.unix \/ env.redis) /\ env.account =>
              \A h : Touched(t, h) # {} => \E tx \in ToSet(Routed(t)) : tx.hash = h
<1> DEFINE txs == ExtractTopics(t)
<1>1. IsTrace(t)
  BY SubscriptionsAssumption
<1>2. /\ txs \in Seq([hash : {t[i].hash : i \in DOMAIN t}, topics : Seq(Accounts)])
      /\ {txs[i].hash : i \in DOMAIN txs} = {t[i].hash : i \in {j \in DOMAIN t : Counts(t[j])}}
      /\ \A i \in DOMAIN txs : Right(txs[i], t)
  <2>1. Exact(txs, t)
    BY <1>1, ExtractionIsExact
  <2> HIDE DEF txs
  <2> QED
    BY <2>1 DEF Right, Exact
<1> DEFINE R == [hash : {t[i].hash : i \in DOMAIN t}, topics : Seq(Accounts)]
<1> HIDE DEF txs, R
<1>3. txs \in Seq(R)
  BY <1>2 DEF R
<1>4. \A tx \in ToSet(txs) : Right(tx, t)
  BY <1>2 DEF ToSet
<1>5. Busy(txs) \in Seq(R) /\ ToSet(Busy(txs)) = {tx \in ToSet(txs) : tx.topics # <<>>}
  BY <1>3, BusyOf
<1>6. Routed(t) = IF env.suspend # "true" /\ (env.unix \/ env.redis) /\ env.account
                    THEN Busy(txs) ELSE <<>>
  BY DEF Routed, txs
<1>7. IsTxs(Busy(txs), t)
  <2>1. Busy(txs) \in Seq(ToSet(Busy(txs)))
    BY <1>5, OwnSet
  <2> QED
    BY <1>4, <1>5, <2>1 DEF IsTxs
<1>8. IsTxs(<<>>, t)
  BY NoTxs
<1>9. ASSUME NEW h, Touched(t, h) # {} PROVE \E tx \in ToSet(Busy(txs)) : tx.hash = h
  <2>1. PICK j \in DOMAIN t : InGroup(t[j], h)
    BY <1>9 DEF Touched
  <2>2. h \in {txs[i].hash : i \in DOMAIN txs}
    BY <1>2, <2>1 DEF InGroup
  <2>3. PICK i \in DOMAIN txs : txs[i].hash = h
    BY <2>2
  <2>4. Right(txs[i], t) /\ txs[i] \in ToSet(txs)
    BY <1>2 DEF ToSet
  <2>5. txs[i].topics # <<>>
    <3>1. ToSet(<<>>) = {}
      BY DEF ToSet
    <3> QED
      BY <1>9, <2>3, <2>4, <3>1 DEF Right
  <2> QED
    BY <1>5, <2>3, <2>4, <2>5
<1> QED
  BY <1>6, <1>7, <1>8, <1>9

-----------------------------------------------------------------------------
(* The inductive invariant *)

Listener == [client : Clients, profile : Profiles]
Lookup   == [client : Clients, profile : Profiles, nr : Nat]

RowsInv ==
  /\ profiles \subseteq Profiles /\ changes \in 0..MaxChanges
  /\ rows \subseteq Row /\ \A r \in rows : r.id <= changes /\ r.profile \in profiles

\* What is listed has been in the table.
ListInv ==
  /\ acctSubs # None => \A r \in acctSubs : r \in Row /\ r.id <= changes /\ r.enabled
  /\ timers \in Nat /\ refreshing \in Nat /\ failures \in 0..MaxFailures

\* While there is no list, or the router waits for one, every timer and every query is
\* owed to a failure: the answer that is to come may set one more.
TimerInv ==
  /\ timers + refreshing <= 1 + failures
  /\ polling \/ acctSubs = None => timers + refreshing <= failures

\* Each request is still being looked up or has made one listener, or none.
Heard(c) == Cardinality({i \in DOMAIN listeners : listeners[i].client = c})
Owed(c)  == Cardinality({l \in lookups : l.client = c})

SocketInv ==
  /\ conn \in [Clients -> {"new", "open", "gone"}] /\ asked \in [Clients -> 0..MaxAsks]
  /\ listeners \in Seq(Listener) /\ lookups \subseteq Lookup /\ IsFiniteSet(lookups)
  /\ \A c \in Clients : Heard(c) + Owed(c) <= asked[c]

\* What waits is what the trace says, and all of it until a query fails.
BlockInv ==
  /\ missed \in BOOLEAN /\ trace \in Traces \cup {<<>>}
  /\ polling = (todo # <<>>) /\ IsTxs(todo, trace)
  /\ polling /\ ~missed => trace \in Traces /\ todo = Routed(trace)

\* What a message about the trace t owes to it and to its receiver.
Due(m, t) ==
  /\ m.topic \in Touched(t, m.hash)
  /\ \/ m.to = "redis" /\ m.copies = 1
     \/ /\ m.to \in Clients /\ [client |-> m.to, profile |-> m.profile] \in ToSet(listeners)
        /\ m.copies \in 1..asked[m.to]

SentInv == \A m \in sent : Due(m, trace)

IInv == env \in Settings /\ RowsInv /\ ListInv /\ TimerInv /\ SocketInv /\ BlockInv /\ SentInv

-----------------------------------------------------------------------------
(* Counting *)

LEMMA TimesOf ==
  ASSUME NEW T, NEW s \in Seq(T), NEW e \in ToSet(s)
  PROVE  Times(s, e) \in Nat \ {0} /\ (IsInjective(s) => Times(s, e) = 1)
<1> DEFINE I == {i \in DOMAIN s : s[i] = e}
<1>1. IsFiniteSet(1..Len(s))
  BY FS_Interval
<1>2. I \in SUBSET (1..Len(s))
  OBVIOUS
<1>3. IsFiniteSet(I)
  BY <1>1, <1>2, FS_Subset
<1>4. PICK i \in I : TRUE
  BY DEF ToSet
<1>5. Cardinality(I) \in Nat \ {0}
  BY <1>3, <1>4, FS_CardinalityType, FS_EmptySet
<1>6. ASSUME IsInjective(s) PROVE Cardinality(I) = 1
  <2>1. I = {i}
    BY <1>4, <1>6 DEF IsInjective
  <2> QED
    BY <2>1, FS_Singleton
<1> QED
  BY <1>5, <1>6 DEF Times

\* A listener is in the list at most as often as its client has asked.
LEMMA HeardOf ==
  ASSUME SocketInv, NEW l \in ToSet(listeners)
  PROVE  l \in Listener /\ Times(listeners, l) \in 1..asked[l.client]
<1> DEFINE I == {i \in DOMAIN listeners : listeners[i] = l}
           J == {i \in DOMAIN listeners : listeners[i].client = l.client}
           K == {k \in lookups : k.client = l.client}
<1>1. l \in Listener /\ l.client \in Clients
  <2>1. l \in Listener
    BY OwnSet DEF SocketInv
  <2> QED
    BY <2>1 DEF Listener
<1>2. IsFiniteSet(1..Len(listeners)) /\ DOMAIN listeners = 1..Len(listeners)
  BY FS_Interval DEF SocketInv
<1>3. J \in SUBSET (1..Len(listeners)) /\ I \in SUBSET J /\ K \in SUBSET lookups
  BY <1>2
<1>4. IsFiniteSet(J) /\ IsFiniteSet(K)
  BY <1>2, <1>3, FS_Subset DEF SocketInv
<1>5. Cardinality(I) <= Cardinality(J) /\ Cardinality(J) \in Nat /\ Cardinality(K) \in Nat
  BY <1>3, <1>4, FS_Subset, FS_CardinalityType
<1>6. Cardinality(J) + Cardinality(K) <= asked[l.client] /\ asked[l.client] \in Nat
  BY <1>1, SubscriptionsAssumption DEF SocketInv, Heard, Owed
<1>7. Cardinality(I) \in Nat \ {0}
  BY TimesOf DEF SocketInv, Times
<1> HIDE DEF I, J, K
<1>8. Cardinality(I) \in 1..asked[l.client]
  BY <1>5, <1>6, <1>7
<1> QED
  BY <1>1, <1>8 DEF Times, I

LEMMA DueOf ==
  ASSUME SocketInv, NEW txs, NEW t, IsTxs(txs, t), NEW subs, NEW m \in MessagesOf(txs, subs)
  PROVE  Due(m, t)
<1>1. PICK tx \in ToSet(txs) : m \in Messages(tx, subs)
  BY DEF MessagesOf, ToSet
<1>2. PICK r \in subs : /\ r.reference \in ToSet(tx.topics)
                        /\ m \in ToSockets(r, tx) \/ m \in ToRedis(r, tx)
  BY <1>1 DEF Messages
<1>3. /\ tx.topics \in Seq(Accounts) /\ IsInjective(tx.topics)
      /\ ToSet(tx.topics) = Touched(t, tx.hash)
  BY DEF IsTxs, Right
<1>4. Times(tx.topics, r.reference) = 1
  BY <1>2, <1>3, TimesOf
<1>5. CASE m \in ToRedis(r, tx)
  BY <1>2, <1>3, <1>4, <1>5 DEF ToRedis, Due
<1>6. CASE m \in ToSockets(r, tx)
  <2>1. PICK l \in ToSet(listeners) :
          /\ l.profile = r.profile
          /\ m = [to |-> l.client, profile |-> r.profile, id |-> r.id, hash |-> tx.hash,
                  topic |-> r.reference, copies |-> 1 * Times(listeners, l)]
    BY <1>4, <1>6 DEF ToSockets
  <2>2. l \in Listener /\ Times(listeners, l) \in 1..asked[l.client]
    BY HeardOf
  <2>3. asked[l.client] \in Nat /\ l = [client |-> l.client, profile |-> l.profile] /\ l.client \in Clients
    BY <2>2, SubscriptionsAssumption DEF Listener, SocketInv
  <2>4. m.copies = Times(listeners, l)
    BY <2>1, <2>2, <2>3
  <2> QED
    BY <1>2, <1>3, <2>1, <2>2, <2>3, <2>4 DEF Due
<1> QED
  BY <1>2, <1>5, <1>6

-----------------------------------------------------------------------------
(* It holds at the start, and every step keeps each of its parts. *)

LEMMA InvInit == Init => IInv
<1> SUFFICES ASSUME Init PROVE IInv
  OBVIOUS
<1> USE SubscriptionsAssumption DEF Init
<1>1. RowsInv /\ ListInv /\ TimerInv
  BY DEF RowsInv, ListInv, TimerInv
<1>2. SocketInv
  <2>1. \A c \in Clients : Heard(c) = 0 /\ Owed(c) = 0
    <3>1. \A c : {i \in DOMAIN <<>> : <<>>[i].client = c} = {} /\ {l \in {} : l.client = c} = {}
      OBVIOUS
    <3> QED
      BY <3>1, FS_EmptySet DEF Heard, Owed
  <2> QED
    BY <2>1, FS_EmptySet DEF SocketInv
<1>3. BlockInv
  <2>1. polling = (todo # <<>>)
    BY Zenon
  <2> QED
    BY <2>1, NoTxs DEF BlockInv
<1> QED
  BY <1>1, <1>2, <1>3 DEF IInv, SentInv

\* The steps of the menu, of the socket and of the block leave the rest alone.
LEMMA MenuStep ==
  ASSUME Menu
  PROVE  UNCHANGED <<env, list, block, socket>>
BY DEF Menu, CreateProfile, Add, Drop, SetEnabled, Change, list, block, socket

SocketStep ==
  \/ \E c \in Clients : Connect(c) \/ Disconnect(c) \/ \E p \in Profiles : Ask(c, p)
  \/ \E l \in lookups : SetListener(l)

LEMMA SocketFrame ==
  ASSUME SocketStep
  PROVE  UNCHANGED <<env, database, list, block>>
BY DEF SocketStep, Connect, Disconnect, Ask, SetListener, database, list, block

LEMMA EnvStep == [Next]_vars => env' = env
BY MenuStep, SocketFrame DEF Next, SocketStep, ProcessBlock, Answer, Timeout, Refresh, Restart, vars

LEMMA RowsStep == RowsInv /\ [Next]_vars => RowsInv' /\ changes <= changes'
<1> SUFFICES ASSUME RowsInv, [Next]_vars PROVE RowsInv' /\ changes <= changes'
  OBVIOUS
<1>a. MaxChanges \in Nat /\ changes \in Nat
  BY SubscriptionsAssumption DEF RowsInv
<1>1. ASSUME UNCHANGED database PROVE RowsInv' /\ changes <= changes'
  BY <1>1, <1>a DEF RowsInv, database
<1>2. ASSUME NEW p \in Profiles, CreateProfile(p) PROVE RowsInv' /\ changes <= changes'
  BY <1>2, <1>a DEF CreateProfile, RowsInv
<1>3. ASSUME NEW p \in Profiles, NEW ref \in References, NEW m \in Methods, Add(p, ref, m)
      PROVE  RowsInv' /\ changes <= changes'
  <2> DEFINE row == [id |-> changes + 1, profile |-> p, reference |-> ref, method |-> m,
                     enabled |-> TRUE]
  <2>1. /\ p \in profiles /\ changes < MaxChanges /\ changes' = changes + 1
        /\ rows' = rows \cup {row} /\ profiles' = profiles
    BY <1>3 DEF Add, Change
  <2>2. row \in Row /\ row.id = changes + 1 /\ row.profile = p
    BY <1>a, <2>1 DEF Row
  <2> HIDE DEF row
  <2>3. \A r \in rows : r.id \in Nat
    BY <1>a DEF RowsInv, Row
  <2> QED
    BY <1>a, <2>1, <2>2, <2>3 DEF RowsInv
<1>4. ASSUME NEW p \in Profiles, NEW ref \in References, NEW m \in Methods, Drop(p, ref, m)
      PROVE  RowsInv' /\ changes <= changes'
  <2>1. /\ changes < MaxChanges /\ changes' = changes + 1
        /\ rows' \subseteq rows /\ profiles' = profiles
    BY <1>4 DEF Drop, Change
  <2>2. \A r \in rows : r.id \in Nat
    BY <1>a DEF RowsInv, Row
  <2> QED
    BY <1>a, <2>1, <2>2 DEF RowsInv
<1>5. ASSUME NEW r \in rows, NEW b \in BOOLEAN, SetEnabled(r, b)
      PROVE  RowsInv' /\ changes <= changes'
  <2> DEFINE row == [r EXCEPT !.enabled = b]
  <2>1. /\ changes < MaxChanges /\ changes' = changes + 1
        /\ rows' = (rows \ {r}) \cup {row} /\ profiles' = profiles
    BY <1>5 DEF SetEnabled, Change
  <2>2. row \in Row /\ row.id = r.id /\ row.profile = r.profile
    BY DEF RowsInv, Row
  <2> HIDE DEF row
  <2>3. \A q \in rows : q.id \in Nat
    BY <1>a DEF RowsInv, Row
  <2> QED
    BY <1>a, <2>1, <2>2, <2>3 DEF RowsInv
<1>6. CASE SocketStep
  BY <1>1, <1>6, SocketFrame
<1>7. CASE (\E t \in Traces : ProcessBlock(t)) \/ Answer \/ Timeout \/ Refresh \/ Restart \/ UNCHANGED vars
  BY <1>1, <1>7 DEF ProcessBlock, Answer, Timeout, Refresh, Restart, vars
<1> QED
  BY <1>2, <1>3, <1>4, <1>5, <1>6, <1>7 DEF Next, Menu, SocketStep

\* What a query gives for the list.
LEMMA ListType ==
  ASSUME RowsInv
  PROVE  GetAllEnabled # None /\ \A r \in GetAllEnabled : r \in Row /\ r.id <= changes /\ r.enabled
<1>1. GetAllEnabled \in SUBSET Row
  BY DEF GetAllEnabled, RowsInv
<1> QED
  BY <1>1, SubscriptionsAssumption DEF GetAllEnabled, RowsInv

LEMMA ListStep == RowsInv /\ ListInv /\ [Next]_vars => ListInv'
<1> SUFFICES ASSUME RowsInv, ListInv, [Next]_vars PROVE ListInv'
  OBVIOUS
<1>a. /\ changes \in Nat /\ changes' \in Nat /\ changes <= changes' /\ MaxFailures \in Nat
      /\ \A r \in Row : r.id \in Nat
  BY RowsStep, SubscriptionsAssumption DEF RowsInv, Row
<1>1. ASSUME UNCHANGED list PROVE ListInv'
  BY <1>1, <1>a DEF ListInv, list
<1>2. ASSUME acctSubs' \in {acctSubs, GetAllEnabled, None},
             timers' \in Nat, refreshing' \in Nat, failures' \in 0..MaxFailures
      PROVE  ListInv'
  BY <1>2, <1>a, ListType DEF ListInv
<1>3. CASE Answer \/ Timeout \/ Refresh \/ Restart
  <2>1. acctSubs' \in {acctSubs, GetAllEnabled, None}
    BY <1>3 DEF Answer, Timeout, Refresh, Restart
  <2>2. timers' \in Nat /\ refreshing' \in Nat /\ failures' \in 0..MaxFailures
    BY <1>3, <1>a DEF ListInv, Answer, Timeout, Refresh, Restart
  <2> QED
    BY <1>2, <2>1, <2>2
<1>4. CASE Menu \/ SocketStep \/ (\E t \in Traces : ProcessBlock(t)) \/ UNCHANGED vars
  BY <1>1, <1>4, MenuStep, SocketFrame DEF ProcessBlock, vars
<1> QED
  BY <1>3, <1>4 DEF Next, SocketStep

LEMMA TimerStep == RowsInv /\ ListInv /\ TimerInv /\ [Next]_vars => TimerInv'
<1> SUFFICES ASSUME RowsInv, ListInv, TimerInv, [Next]_vars PROVE TimerInv'
  OBVIOUS
<1> USE DEF TimerInv
<1>e. GetAllEnabled # None
  BY ListType
<1>n. timers \in Nat /\ refreshing \in Nat /\ failures \in Nat
  BY SubscriptionsAssumption DEF ListInv
<1>1. CASE UNCHANGED <<list, polling>>
  BY <1>1 DEF list
<1>2. ASSUME NEW t \in Traces, ProcessBlock(t) PROVE TimerInv'
  BY <1>2, <1>e, <1>n DEF ProcessBlock, list
<1>3. CASE Answer
  BY <1>3, <1>e, <1>n DEF Answer
<1>4. CASE Timeout
  BY <1>4, <1>e, <1>n DEF Timeout, block
<1>5. CASE Refresh
  BY <1>5, <1>e, <1>n DEF Refresh, block
<1>6. CASE Restart
  BY <1>6, <1>e, <1>n DEF Restart
<1>7. CASE UNCHANGED vars \/ Menu \/ SocketStep
  BY <1>7, <1>1, MenuStep, SocketFrame DEF vars, list, block
<1> QED
  BY <1>2, <1>3, <1>4, <1>5, <1>6, <1>7 DEF Next, SocketStep

\* Requests and listeners only grow while the process lives.
SocketGrows ==
  /\ \A c \in Clients : asked[c] <= asked'[c]
  /\ ToSet(listeners) \subseteq ToSet(listeners')

LEMMA SocketInvStep == SocketInv /\ [Next]_vars => SocketInv' /\ (SocketGrows \/ Restart)
<1> SUFFICES ASSUME SocketInv, [Next]_vars PROVE SocketInv' /\ (SocketGrows \/ Restart)
  OBVIOUS
<1>a. /\ MaxAsks \in Nat /\ \A c \in Clients : asked[c] \in Nat /\ asked[c] <= MaxAsks
      /\ asked \in [Clients -> 0..MaxAsks] /\ conn \in [Clients -> {"new", "open", "gone"}]
  BY SubscriptionsAssumption DEF SocketInv
<1>b. /\ listeners \in Seq(Listener) /\ lookups \subseteq Lookup /\ IsFiniteSet(lookups)
      /\ \A c \in Clients : Heard(c) + Owed(c) <= asked[c]
  BY DEF SocketInv
<1>c. \A c \in Clients : IsFiniteSet({l \in lookups : l.client = c}) /\ Owed(c) \in Nat
  <2>1. \A c : {l \in lookups : l.client = c} \in SUBSET lookups
    OBVIOUS
  <2> QED
    BY <1>b, <2>1, FS_Subset, FS_CardinalityType DEF Owed
<1>d. \A c \in Clients : IsFiniteSet({i \in DOMAIN listeners : listeners[i].client = c}) /\ Heard(c) \in Nat
  <2>1. IsFiniteSet(1..Len(listeners)) /\ DOMAIN listeners = 1..Len(listeners)
    BY <1>b, FS_Interval
  <2>2. \A c : {i \in DOMAIN listeners : listeners[i].client = c} \in SUBSET (1..Len(listeners))
    BY <2>1
  <2> QED
    BY <2>1, <2>2, FS_Subset, FS_CardinalityType DEF Heard
<1>1. CASE UNCHANGED socket
  <2>1. \A c : Heard(c)' = Heard(c) /\ Owed(c)' = Owed(c)
    BY <1>1 DEF Heard, Owed, socket
  <2> QED
    BY <1>1, <1>a, <1>b, <2>1 DEF SocketInv, SocketGrows, socket
<1>2. ASSUME NEW c \in Clients, Connect(c) \/ Disconnect(c)
      PROVE  SocketInv' /\ SocketGrows
  <2>1. /\ UNCHANGED <<asked, lookups, listeners>>
        /\ conn' \in [Clients -> {"new", "open", "gone"}]
    BY <1>2, <1>a DEF Connect, Disconnect
  <2>2. \A k : Heard(k)' = Heard(k) /\ Owed(k)' = Owed(k)
    BY <2>1 DEF Heard, Owed
  <2> QED
    BY <1>a, <1>b, <2>1, <2>2 DEF SocketInv, SocketGrows
<1>3. ASSUME NEW c \in Clients, NEW p \in Profiles, Ask(c, p)
      PROVE  SocketInv' /\ SocketGrows
  <2> DEFINE l == [client |-> c, profile |-> p, nr |-> asked[c]]
  <2>1. /\ asked[c] < MaxAsks /\ asked' = [asked EXCEPT ![c] = asked[c] + 1]
        /\ lookups' = lookups \cup {l} /\ UNCHANGED <<conn, listeners>>
    BY <1>3 DEF Ask
  <2>2. l \in Lookup /\ l.client = c
    BY <1>a DEF Lookup
  <2> HIDE DEF l
  <2>3. asked' \in [Clients -> 0..MaxAsks] /\ \A k \in Clients : asked'[k] = IF k = c THEN asked[c] + 1 ELSE asked[k]
    BY <1>a, <2>1
  <2>4. lookups' \subseteq Lookup /\ IsFiniteSet(lookups')
    BY <1>b, <2>1, <2>2, FS_AddElement
  <2>5. ASSUME NEW k \in Clients PROVE Heard(k)' + Owed(k)' <= asked'[k]
    <3>1. Heard(k)' = Heard(k)
      BY <2>1 DEF Heard
    <3>2. Owed(k)' <= Owed(k) + (IF k = c THEN 1 ELSE 0) /\ Owed(k)' \in Nat
      <4> DEFINE K == {m \in lookups : m.client = k}
      <4>1. {m \in lookups' : m.client = k} = K \cup IF k = c THEN {l} ELSE {}
        BY <2>1, <2>2
      <4>2. IsFiniteSet(K) /\ Owed(k) = Cardinality(K) /\ Owed(k) \in Nat
        BY <1>c DEF Owed
      <4>3. Owed(k)' = Cardinality(K \cup IF k = c THEN {l} ELSE {})
        BY <4>1 DEF Owed
      <4> HIDE DEF K
      <4>4. CASE k = c
        <5>1. Owed(k)' = Cardinality(K \cup {l})
          BY <4>3, <4>4
        <5>2. /\ IsFiniteSet(K \cup {l})
              /\ Cardinality(K \cup {l}) \in {Cardinality(K), Cardinality(K) + 1}
          BY <4>2, FS_AddElement
        <5> QED
          BY <4>2, <4>4, <5>1, <5>2
      <4>5. CASE k # c
        <5>1. Owed(k)' = Cardinality(K)
          BY <4>3, <4>5
        <5> QED
          BY <4>2, <4>5, <5>1
      <4> QED
        BY <4>4, <4>5
    <3>3. Heard(k) + Owed(k) <= asked[k] /\ asked[k] \in Nat /\ Heard(k) \in Nat /\ Owed(k) \in Nat
      BY <1>a, <1>b, <1>c, <1>d
    <3> QED
      BY <2>3, <3>1, <3>2, <3>3
  <2>6. SocketInv'
    BY <1>a, <1>b, <2>1, <2>3, <2>4, <2>5 DEF SocketInv
  <2>7. SocketGrows
    BY <1>a, <2>1, <2>3 DEF SocketGrows
  <2> QED
    BY <2>6, <2>7
<1>4. ASSUME NEW l \in lookups, SetListener(l)
      PROVE  SocketInv' /\ SocketGrows
  <2> DEFINE e == [client |-> l.client, profile |-> l.profile]
             c == l.client
  <2>1. /\ lookups' = lookups \ {l} /\ UNCHANGED <<conn, asked>>
        /\ listeners' = Append(listeners, e) \/ listeners' = listeners
    BY <1>4 DEF SetListener
  <2>2. e \in Listener /\ e.client = c /\ c \in Clients
    BY <1>b DEF Listener, Lookup
  <2> HIDE DEF e
  <2>3. lookups' \subseteq Lookup /\ IsFiniteSet(lookups')
    BY <1>b, <2>1, FS_RemoveElement
  <2>4. listeners' \in Seq(Listener) /\ ToSet(listeners) \subseteq ToSet(listeners')
    <3>1. Append(listeners, e) \in Seq(Listener) /\ ToSet(listeners) \subseteq ToSet(Append(listeners, e))
      BY <1>b, <2>2, AppendSet
    <3> QED
      BY <1>b, <2>1, <3>1
  <2>5. ASSUME NEW k \in Clients PROVE Heard(k)' + Owed(k)' <= asked'[k]
    <3>1. Heard(k)' <= Heard(k) + (IF k = c THEN 1 ELSE 0) /\ Heard(k)' \in Nat
      <4> DEFINE I == {i \in DOMAIN listeners : listeners[i].client = k}
                 n == Len(listeners) + 1
      <4>1. CASE listeners' = listeners
        <5>1. Heard(k)' = Heard(k)
          BY <4>1 DEF Heard
        <5> QED
          <6>1. Heard(k) \in Nat
            BY <1>d
          <6> HIDE DEF c
          <6> QED
            BY <5>1, <6>1
      <4>2. CASE listeners' = Append(listeners, e)
        <5>1. /\ DOMAIN listeners = 1..Len(listeners) /\ DOMAIN listeners' = 1..n /\ Len(listeners) \in Nat
              /\ \A i \in 1..Len(listeners) : listeners'[i] = listeners[i]
              /\ listeners'[n] = e
          BY <1>b, <2>2, <4>2
        <5>2. {i \in DOMAIN listeners' : listeners'[i].client = k} = I \cup IF k = c THEN {n} ELSE {}
          BY <2>2, <5>1
        <5>3. IsFiniteSet(I) /\ Cardinality(I) \in Nat /\ Heard(k) = Cardinality(I)
          BY <1>d DEF Heard
        <5>4. Heard(k)' = Cardinality(I \cup IF k = c THEN {n} ELSE {})
          BY <5>2 DEF Heard
        <5> HIDE DEF I, n
        <5>5. CASE k = c
          <6>1. Heard(k)' = Cardinality(I \cup {n})
            BY <5>4, <5>5
          <6> QED
            <7>1. Cardinality(I \cup {n}) \in {Cardinality(I), Cardinality(I) + 1}
              BY <5>3, FS_AddElement
            <7> QED
              BY <5>3, <5>5, <6>1, <7>1
        <5>6. CASE k # c
          <6>1. Heard(k)' = Cardinality(I)
            BY <5>4, <5>6
          <6> QED
            BY <5>3, <5>6, <6>1
        <5> QED
          BY <5>5, <5>6
      <4> QED
        BY <2>1, <4>1, <4>2
    <3>2. Owed(k)' = Owed(k) - (IF k = c THEN 1 ELSE 0) /\ Owed(k)' \in Nat
      <4> DEFINE K == {m \in lookups : m.client = k}
      <4>1. {m \in lookups' : m.client = k} = IF k = c THEN K \ {l} ELSE K
        BY <2>1
      <4>2. IsFiniteSet(K) /\ Owed(k) = Cardinality(K) /\ Owed(k) \in Nat
        BY <1>c DEF Owed
      <4>3. Owed(k)' = Cardinality(IF k = c THEN K \ {l} ELSE K)
        BY <4>1 DEF Owed
      <4>4. k = c => l \in K
        OBVIOUS
      <4> HIDE DEF K
      <4>5. CASE k = c
        <5>1. Owed(k)' = Cardinality(K \ {l})
          BY <4>3, <4>5
        <5>2. IsFiniteSet(K \ {l}) /\ Cardinality(K \ {l}) = Cardinality(K) - 1
          BY <4>2, <4>4, <4>5, FS_RemoveElement
        <5> QED
          BY <4>2, <4>5, <5>1, <5>2, FS_CardinalityType
      <4>6. CASE k # c
        <5>1. Owed(k)' = Cardinality(K)
          BY <4>3, <4>6
        <5> QED
          BY <4>2, <4>6, <5>1
      <4> QED
        BY <4>5, <4>6
    <3>3. /\ Heard(k) + Owed(k) <= asked[k] /\ asked'[k] = asked[k]
          /\ asked[k] \in Nat /\ Heard(k) \in Nat /\ Owed(k) \in Nat
      BY <1>a, <1>b, <1>c, <1>d, <2>1
    <3> HIDE DEF c
    <3> QED
      BY <3>1, <3>2, <3>3
  <2>6. SocketInv'
    BY <1>a, <1>b, <2>1, <2>3, <2>4, <2>5 DEF SocketInv
  <2>7. SocketGrows
    BY <1>a, <2>1, <2>4 DEF SocketGrows
  <2> QED
    BY <2>6, <2>7
<1>5. CASE Restart
  <2>1. /\ lookups' = {} /\ listeners' = <<>> /\ asked' = asked
        /\ conn' = [c \in Clients |-> IF conn[c] = "open" THEN "gone" ELSE conn[c]]
    BY <1>5 DEF Restart
  <2>2. \A c : {i \in DOMAIN <<>> : <<>>[i].client = c} = {} /\ {l \in {} : l.client = c} = {}
    OBVIOUS
  <2>3. \A c : Heard(c)' = 0 /\ Owed(c)' = 0
    BY <2>1, <2>2, FS_EmptySet DEF Heard, Owed
  <2>4. conn' \in [Clients -> {"new", "open", "gone"}]
    BY <1>a, <2>1
  <2> QED
    BY <1>a, <1>5, <2>1, <2>3, <2>4, FS_EmptySet DEF SocketInv
<1>6. CASE Menu \/ (\E t \in Traces : ProcessBlock(t)) \/ Answer \/ Timeout \/ Refresh \/ UNCHANGED vars
  BY <1>1, <1>6, MenuStep DEF ProcessBlock, Answer, Timeout, Refresh, vars
<1> QED
  BY <1>2, <1>3, <1>4, <1>5, <1>6 DEF Next


LEMMA BlockStep == env \in Settings /\ BlockInv /\ [Next]_vars => BlockInv'
<1> SUFFICES ASSUME env \in Settings, BlockInv, [Next]_vars PROVE BlockInv'
  OBVIOUS
<1>e. env' = env
  BY EnvStep
<1>r. \A t : Routed(t)' = Routed(t)
  BY <1>e DEF Routed
<1>b. /\ missed \in BOOLEAN /\ trace \in Traces \cup {<<>>}
      /\ polling = (todo # <<>>) /\ IsTxs(todo, trace)
      /\ polling /\ ~missed => trace \in Traces /\ todo = Routed(trace)
  BY DEF BlockInv
<1>1. ASSUME UNCHANGED block PROVE BlockInv'
  <2>1. missed' = missed /\ trace' = trace /\ todo' = todo /\ polling' = polling
    BY <1>1 DEF block
  <2>2. Routed(trace)' = Routed(trace)
    BY <1>e, <2>1 DEF Routed
  <2>3. IsTxs(todo, trace)' = IsTxs(todo, trace)
    BY <2>1 DEF IsTxs, Right
  <2>4. polling' = (todo' # <<>>)
    BY <1>b, <2>1, Zenon
  <2> QED
    BY <1>b, <2>1, <2>2, <2>3, <2>4 DEF BlockInv
<1>2. ASSUME missed' \in BOOLEAN, trace' \in Traces \cup {<<>>}, ~polling', todo' = <<>>,
             polling' \in BOOLEAN
      PROVE  BlockInv'
  <2>1. polling' = (todo' # <<>>)
    BY <1>2, Zenon
  <2>2. IsTxs(todo, trace)'
    BY <1>2, NoTxs DEF IsTxs, Right
  <2> QED
    BY <1>2, <2>1, <2>2 DEF BlockInv
<1>3. ASSUME NEW t \in Traces, ProcessBlock(t) PROVE BlockInv'
  <2>1. trace' = t /\ missed' = FALSE /\ ~polling
    BY <1>3 DEF ProcessBlock
  <2>2. CASE Routed(t) # <<>> /\ acctSubs = None
    <3>1. polling' = TRUE /\ todo' = Routed(t)
      BY <1>3, <2>2 DEF ProcessBlock
    <3>2. polling' = (todo' # <<>>)
      BY <2>2, <3>1, Zenon
    <3>3. IsTxs(Routed(t), t)
      BY RoutedOf
    <3>4. IsTxs(todo, trace)'
      BY <2>1, <3>1, <3>3 DEF IsTxs, Right
    <3>5. Routed(trace)' = Routed(t)
      BY <1>e, <2>1 DEF Routed
    <3> QED
      BY <2>1, <3>1, <3>2, <3>4, <3>5 DEF BlockInv
  <2>3. CASE ~(Routed(t) # <<>> /\ acctSubs = None)
    <3>1. polling' = polling /\ todo' = todo
      BY <1>3, <2>3 DEF ProcessBlock
    <3>2. todo = <<>> /\ polling \in BOOLEAN
      BY <1>b, <2>1, Zenon
    <3> QED
      BY <1>2, <2>1, <3>1, <3>2
  <2> QED
    BY <2>2, <2>3
<1>4. CASE Answer
  <2>1. polling /\ trace' = trace
    BY <1>4 DEF Answer
  <2>2. CASE polling' = FALSE /\ todo' = <<>> /\ missed' = missed
    BY <1>2, <1>b, <2>1, <2>2
  <2>3. CASE missed' = TRUE /\ todo' = Tail(todo) /\ polling' = (Len(todo) > 1)
    <3>1. todo # <<>>
      BY <1>b, <2>1, Zenon
    <3>2. todo \in Seq(ToSet(todo))
      BY <1>b DEF IsTxs
    <3>3. Tail(todo) \in Seq(ToSet(todo))
      BY <3>1, <3>2
    <3>4. IsTxs(Tail(todo), trace)
      <4> DEFINE R == ToSet(todo)
      <4> HIDE DEF R
      <4>1. Tail(todo) \in Seq(R)
        BY <3>3 DEF R
      <4>2. Tail(todo) \in Seq(ToSet(Tail(todo))) /\ ToSet(Tail(todo)) \subseteq R
        BY <4>1, OwnSet
      <4> QED
        BY <1>b, <4>2 DEF IsTxs, R
    <3>5. Tail(todo) # <<>> <=> Len(todo) > 1
      BY <3>1, <3>2
    <3>6. polling' = (todo' # <<>>)
      BY <2>3, <3>5
    <3>7. IsTxs(todo, trace)'
      BY <2>1, <2>3, <3>4 DEF IsTxs, Right
    <3> QED
      BY <1>b, <2>1, <2>3, <3>6, <3>7 DEF BlockInv
  <2> QED
    BY <1>4, <2>2, <2>3 DEF Answer
<1>5. CASE Restart
  BY <1>2, <1>5 DEF Restart
<1>6. CASE Menu \/ SocketStep \/ Timeout \/ Refresh \/ UNCHANGED vars
  BY <1>1, <1>6, MenuStep, SocketFrame DEF Timeout, Refresh, vars
<1> QED
  BY <1>3, <1>4, <1>5, <1>6 DEF Next, SocketStep

LEMMA SentStep ==
  ASSUME SocketInv, BlockInv, SentInv, [Next]_vars
  PROVE  SentInv'
<1>a. \A c \in Clients : asked[c] \in Nat
  BY SubscriptionsAssumption DEF SocketInv
<1>b. SocketInv' /\ (SocketGrows \/ Restart)
  BY SocketInvStep
<1>c. \A c \in Clients : asked'[c] \in Nat
  BY <1>b, SubscriptionsAssumption DEF SocketInv
\* What was due stays so, in a process that lives.
<1>1. ASSUME SocketGrows, NEW m, Due(m, trace), trace' = trace PROVE Due(m, trace)'
  <2>1. m.topic \in Touched(trace', m.hash)
    BY <1>1 DEF Due
  <2>2. CASE m.to = "redis" /\ m.copies = 1
    BY <2>1, <2>2 DEF Due
  <2>3. CASE /\ m.to \in Clients /\ [client |-> m.to, profile |-> m.profile] \in ToSet(listeners)
             /\ m.copies \in 1..asked[m.to]
    <3>1. [client |-> m.to, profile |-> m.profile] \in ToSet(listeners')
      BY <1>1, <2>3 DEF SocketGrows
    <3>2. m.copies \in 1..asked'[m.to]
      BY <1>1, <1>a, <1>c, <2>3 DEF SocketGrows
    <3> QED
      BY <2>1, <2>3, <3>1, <3>2 DEF Due
  <2> QED
    BY <1>1, <2>2, <2>3 DEF Due
<1>2. ASSUME UNCHANGED <<trace, sent>>, SocketGrows PROVE SentInv'
  <2> SUFFICES ASSUME NEW m \in sent PROVE Due(m, trace)'
    BY <1>2 DEF SentInv
  <2> QED
    BY <1>1, <1>2 DEF SentInv
\* A message is due when it is sent.
<1>3. ASSUME UNCHANGED socket, NEW txs, IsTxs(txs, trace'), NEW subs,
             sent' \subseteq {m \in sent : trace' = trace} \cup MessagesOf(txs, subs)
      PROVE  SentInv'
  <2>0. asked' = asked /\ listeners' = listeners
    BY <1>3 DEF socket
  <2> SUFFICES ASSUME NEW m \in sent' PROVE Due(m, trace)'
    BY DEF SentInv
  <2>1. Due(m, trace')
    <3>1. CASE m \in MessagesOf(txs, subs)
      BY <1>3, <3>1, DueOf
    <3>2. CASE m \in sent /\ trace' = trace
      BY <3>2 DEF SentInv
    <3> QED
      BY <1>3, <3>1, <3>2
  <2> QED
    BY <2>0, <2>1 DEF Due
<1>4. ASSUME sent' = {} PROVE SentInv'
  BY <1>4 DEF SentInv
<1>5. ASSUME NEW t \in Traces, ProcessBlock(t) PROVE SentInv'
  <2>1. UNCHANGED socket /\ trace' = t /\ sent' \in {{}, MessagesOf(Routed(t), acctSubs)}
    BY <1>5 DEF ProcessBlock
  <2>2. IsTxs(Routed(t), t)
    BY RoutedOf
  <2> QED
    BY <1>3, <1>4, <2>1, <2>2
<1>6. CASE Answer
  <2>1. /\ UNCHANGED socket /\ trace' = trace
        /\ sent' \in {sent, sent \cup MessagesOf(todo, GetAllEnabled)}
    BY <1>6 DEF Answer
  <2>2. IsTxs(todo, trace)
    BY DEF BlockInv
  <2> QED
    BY <1>3, <2>1, <2>2
<1>7. CASE Restart
  BY <1>4, <1>7 DEF Restart
<1>8. CASE Menu \/ SocketStep \/ Timeout \/ Refresh \/ UNCHANGED vars
  <2>1. UNCHANGED <<trace, sent>>
    BY <1>8, MenuStep, SocketFrame DEF Timeout, Refresh, vars, block
  <2> QED
    BY <1>2, <1>7, <1>b, <2>1
<1> QED
  BY <1>5, <1>6, <1>7, <1>8 DEF Next, SocketStep

LEMMA Inductive == Spec => []IInv
<1>1. IInv /\ [Next]_vars => IInv'
  <2> SUFFICES ASSUME IInv, [Next]_vars PROVE IInv'
    OBVIOUS
  <2>1. /\ env \in Settings /\ RowsInv /\ ListInv /\ TimerInv /\ SocketInv /\ BlockInv /\ SentInv
    BY DEF IInv
  <2>2. env' \in Settings /\ RowsInv' /\ ListInv' /\ TimerInv'
    BY <2>1, EnvStep, RowsStep, ListStep, TimerStep
  <2>3. SocketInv' /\ BlockInv' /\ SentInv'
    BY <2>1, SocketInvStep, BlockStep, SentStep
  <2> QED
    BY <2>2, <2>3 DEF IInv
<1> QED
  BY InvInit, <1>1, PTL DEF Spec

-----------------------------------------------------------------------------
(* Theorems *)

\* The tables, the list, the timers and the connections are what the code makes of them,
\* and no message is sent zero times.
THEOREM SubscriptionsTypeCorrect == Spec => []TypeOK
<1>1. IInv => TypeOK
  <2> SUFFICES ASSUME IInv PROVE TypeOK
    OBVIOUS
  <2>1. /\ env \in Settings /\ RowsInv /\ ListInv /\ SocketInv /\ BlockInv /\ SentInv
    BY DEF IInv
  <2>2. acctSubs # None => \A r \in acctSubs : r.id \in 1..changes /\ r.enabled
    <3>1. changes \in Nat /\ \A r \in Row : r.id \in 1..MaxChanges
      BY <2>1, SubscriptionsAssumption DEF RowsInv, Row
    <3> QED
      BY <2>1, <3>1, SubscriptionsAssumption DEF ListInv
  <2>3. \A m \in sent : m.copies \in Nat \ {0}
    <3>1. \A c \in Clients : asked[c] \in Nat
      BY <2>1, SubscriptionsAssumption DEF SocketInv
    <3>2. ASSUME NEW m \in sent, m.to \in Clients, m.copies \in 1..asked[m.to]
          PROVE  m.copies \in Nat \ {0}
      BY <3>1, <3>2
    <3>3. \A m \in sent : m.copies = 1 \/ (m.to \in Clients /\ m.copies \in 1..asked[m.to])
      <4> SUFFICES ASSUME NEW m \in sent
                   PROVE  m.copies = 1 \/ (m.to \in Clients /\ m.copies \in 1..asked[m.to])
        OBVIOUS
      <4>1. Due(m, trace)
        BY <2>1 DEF SentInv
      <4> QED
        BY <4>1 DEF Due
    <3> QED
      BY <3>2, <3>3
  <2>4. polling = (todo # <<>>)
    BY <2>1 DEF BlockInv
  <2> QED
    BY <2>1, <2>2, <2>3, <2>4 DEF TypeOK, RowsInv, ListInv, SocketInv, BlockInv
<1> QED
  BY Inductive, <1>1, PTL

\* router.js sends a message about an account the transaction touches, and to nobody who
\* has not registered under the profile of its subscription.
THEOREM NoticesAreSound == Spec => []Sound
<1>1. IInv => Sound
  <2> SUFFICES ASSUME IInv, NEW m \in sent
               PROVE  /\ m.topic \in Touched(trace, m.hash)
                      /\ m.to \in Clients =>
                           [client |-> m.to, profile |-> m.profile] \in ToSet(listeners)
    BY DEF Sound
  <2>1. Due(m, trace)
    BY DEF IInv, SentInv
  <2> QED
    BY <2>1, SubscriptionsAssumption DEF Due
<1> QED
  BY Inductive, <1>1, PTL

\* A transaction is announced to a client no more often than the client has registered,
\* and once on redis, however often its trace names the account.
THEOREM NoticesAreOnce == Spec => []Once
<1>1. IInv => Once
  <2> SUFFICES ASSUME IInv, NEW m \in sent
               PROVE  m.copies <= (IF m.to = "redis" THEN 1 ELSE asked[m.to])
    BY DEF Once
  <2>1. Due(m, trace) /\ \A c \in Clients : asked[c] \in Nat
    BY SubscriptionsAssumption DEF IInv, SentInv, SocketInv
  <2> QED
    BY <2>1, SubscriptionsAssumption DEF Due
<1> QED
  BY Inductive, <1>1, PTL

\* accounts.js never has more timers than the one that renews the list and one for each
\* query that failed.
THEOREM TimersAreBounded == Spec => []Timers
BY Inductive, PTL DEF IInv, TimerInv, Timers

\* What process sends for a block, given a list.
LEMMA MessagesComplete ==
  ASSUME NEW t \in Traces, NEW subs \in SUBSET Row,
         env.suspend = "false", env.account,
         NEW r \in subs, NEW h, r.reference \in Touched(t, h),
         NEW c \in Clients \cup {"redis"},
         IF r.method = "redis_mem" THEN c = "redis" /\ env.redis
         ELSE c # "redis" /\ env.unix /\ conn[c] = "open"
              /\ [client |-> c, profile |-> r.profile] \in ToSet(listeners)
  PROVE  \E m \in MessagesOf(Routed(t), subs) : m.to = c /\ m.id = r.id /\ m.hash = h
<1>1. PICK tx \in ToSet(Routed(t)) : tx.hash = h
  <2>1. env.suspend # "true" /\ (env.unix \/ env.redis) /\ env.account
    OBVIOUS
  <2> QED
    BY <2>1, RoutedOf
<1>2. r.reference \in ToSet(tx.topics)
  <2>1. Right(tx, t)
    BY RoutedOf DEF IsTxs
  <2> QED
    BY <1>1, <2>1 DEF Right
<1>3. \E m \in Messages(tx, subs) : m.to = c /\ m.id = r.id /\ m.hash = h
  <2>1. CASE r.method = "redis_mem"
    <3>1. r.method # "unix_socket" /\ RedisServer
      BY <2>1 DEF RedisServer
    <3>2. PICK m \in ToRedis(r, tx) : m.to = "redis" /\ m.id = r.id /\ m.hash = tx.hash
      BY DEF ToRedis
    <3>3. m \in Messages(tx, subs)
      BY <1>2, <3>1, <3>2 DEF Messages
    <3> QED
      BY <1>1, <2>1, <3>2, <3>3
  <2>2. CASE r.method # "redis_mem"
    <3>1. r.method = "unix_socket" /\ UnixServer
      BY <2>2 DEF UnixServer, Row, Methods
    <3> DEFINE l == [client |-> c, profile |-> r.profile]
    <3>2. l \in ToSet(listeners) /\ l.profile = r.profile /\ l.client = c /\ conn[c] = "open"
      BY <2>2
    <3> HIDE DEF l
    <3>3. PICK m \in ToSockets(r, tx) : m.to = l.client /\ m.id = r.id /\ m.hash = tx.hash
      <4> DEFINE e == [to |-> l.client, profile |-> r.profile, id |-> r.id, hash |-> tx.hash,
                       topic |-> r.reference,
                       copies |-> Times(tx.topics, r.reference) * Times(listeners, l)]
      <4>1. l \in {k \in ToSet(listeners) :
                    UnixServer /\ k.profile = r.profile /\ conn[k.client] = "open"}
        BY <3>1, <3>2
      <4>2. e \in ToSockets(r, tx)
        BY <4>1 DEF ToSockets
      <4>3. e.to = l.client /\ e.id = r.id /\ e.hash = tx.hash
        OBVIOUS
      <4> QED
        BY <4>2, <4>3
    <3>4. m \in Messages(tx, subs)
      BY <1>2, <3>1, <3>3 DEF Messages
    <3> QED
      BY <1>1, <3>2, <3>3, <3>4
  <2> QED
    BY <2>1, <2>2
<1> QED
  BY <1>1, <1>3 DEF MessagesOf, ToSet

\* Announced, once the messages of a block for a list are sent.
LEMMA SentForAll ==
  ASSUME NEW t \in Traces, NEW subs \in SUBSET Row,
         UNCHANGED <<env, socket>>, trace' = t, acctSubs' = subs,
         MessagesOf(Routed(t), subs) \subseteq sent'
  PROVE  Announced'
<1>1. env' = env /\ conn' = conn /\ listeners' = listeners
  BY DEF socket
<1> SUFFICES
      ASSUME env.suspend = "false", env.account,
             NEW r \in subs, NEW h \in {t[i].hash : i \in DOMAIN t},
             r.reference \in Touched(t, h), NEW c \in Clients \cup {"redis"},
             IF r.method = "redis_mem" THEN c = "redis" /\ env.redis
             ELSE c # "redis" /\ env.unix /\ conn[c] = "open"
                  /\ [client |-> c, profile |-> r.profile] \in ToSet(listeners)
      PROVE  \E m \in sent' : m.to = c /\ m.id = r.id /\ m.hash = h
  BY <1>1 DEF Announced
<1> QED
  BY MessagesComplete

\* router.js leaves nobody out: unless a query fails, the step that ends the routing of a
\* block has announced every account on the list for every transaction that touches it.
THEOREM AllAnnounced == Spec => Complete
<1>1. ASSUME IInv, Next, UNCHANGED <<database, socket, refreshing>> PROVE Announced'
  <2>0. /\ RowsInv /\ ListInv /\ SocketInv /\ BlockInv /\ env' = env
        /\ changes \in Nat /\ refreshing \in Nat
    BY <1>1, EnvStep DEF IInv, RowsInv, ListInv
  <2>1. ASSUME NEW t \in Traces, ProcessBlock(t) PROVE Announced'
    <3>1. trace' = t /\ acctSubs' = acctSubs
      BY <2>1 DEF ProcessBlock, list
    <3>2. CASE Routed(t) # <<>> /\ acctSubs = None
      BY <2>1, <3>2 DEF ProcessBlock, Announced
    <3>3. CASE acctSubs # None
      <4>1. acctSubs \in SUBSET Row
        BY <2>0, <3>3 DEF ListInv
      <4>2. sent' = MessagesOf(Routed(t), acctSubs)
        BY <2>1, <3>3 DEF ProcessBlock
      <4> QED
        BY <1>1, <2>0, <3>1, <4>1, <4>2, SentForAll
    <3>4. CASE acctSubs = None
      BY <3>1, <3>4 DEF Announced
    <3> QED
      BY <3>3, <3>4
  <2>2. CASE Answer
    <3>1. trace' = trace /\ polling
      BY <2>2 DEF Answer
    <3>2. CASE acctSubs' = None
      BY <3>2 DEF Announced
    <3>3. CASE /\ acctSubs' = GetAllEnabled /\ missed' = missed
               /\ sent' = sent \cup MessagesOf(todo, GetAllEnabled)
      <4>1. CASE missed
        BY <3>3, <4>1 DEF Announced
      <4>2. CASE ~missed
        <5>1. trace \in Traces /\ todo = Routed(trace)
          BY <2>0, <3>1, <4>2 DEF BlockInv
        <5>2. GetAllEnabled \in SUBSET Row
          BY <2>0, ListType
        <5> QED
          BY <1>1, <2>0, <3>1, <3>3, <5>1, <5>2, SentForAll
      <4> QED
        BY <4>1, <4>2
    <3> QED
      BY <2>2, <3>2, <3>3 DEF Answer
  <2>3. CASE Restart
    BY <2>3 DEF Restart, Announced
  \* The other steps change what is to stay as it is.
  <2>4. ~Menu
    <3>1. changes' = changes /\ profiles' = profiles
      BY <1>1 DEF database
    <3> QED
      BY <2>0, <3>1 DEF Menu, CreateProfile, Add, Drop, SetEnabled, Change
  <2>5. ~Timeout /\ ~Refresh
    BY <1>1, <2>0 DEF Timeout, Refresh
  <2>6. ~SocketStep
    <3>1. conn' = conn /\ asked' = asked /\ lookups' = lookups
      BY <1>1 DEF socket
    <3>2. \A c \in Clients : asked[c] \in Nat /\ conn[c] \in {"new", "open", "gone"}
      BY <2>0, SubscriptionsAssumption DEF SocketInv
    <3>3. ASSUME NEW c \in Clients PROVE ~Connect(c) /\ ~Disconnect(c) /\ \A p \in Profiles : ~Ask(c, p)
      BY <2>0, <3>1, <3>2 DEF Connect, Disconnect, Ask, SocketInv
    <3>4. ASSUME NEW l \in lookups PROVE ~SetListener(l)
      BY <3>1 DEF SetListener
    <3> QED
      BY <3>3, <3>4 DEF SocketStep
  <2> QED
    BY <1>1, <2>1, <2>2, <2>3, <2>4, <2>5, <2>6 DEF Next, SocketStep
<1>2. IInv /\ [Next]_vars => [UNCHANGED <<database, socket, refreshing>> => Announced']_vars
  BY <1>1
<1> QED
  BY Inductive, <1>2, PTL DEF Spec, Complete
=============================================================================
