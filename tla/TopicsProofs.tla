---------------------------- MODULE TopicsProofs ----------------------------
(***************************************************************************)
(* The extraction of topics is exact, for traces of any length.  A fold is *)
(* a function that CHOOSE picks by its recursive equation: that there is   *)
(* one, and what it gives for each prefix of a sequence, is shown by the   *)
(* set of the numbers up to which it holds, which is all of Nat (NatSet).  *)
(***************************************************************************)
EXTENDS Topics, FiniteSetTheorems, WellFoundedInduction, TLAPS

\* Induction, by a set: no number is the least one that is not in S.
LEMMA NatSet ==
  ASSUME NEW S \in SUBSET Nat, 0 \in S, \A n \in S : n + 1 \in S
  PROVE  \A n \in Nat : n \in S
<1> SUFFICES ASSUME Nat \ S # {} PROVE FALSE
  OBVIOUS
<1>1. PICK m \in Nat \ S : \A k \in Nat \ S : ~(<<k, m>> \in OpToRel(<, Nat))
  BY NatLessThanWellFounded, WFMin
<1>2. m # 0 /\ m - 1 \in Nat /\ m - 1 < m
  OBVIOUS
<1>3. m - 1 \in S
  BY <1>1, <1>2 DEF OpToRel
<1>4. (m - 1) + 1 = m
  OBVIOUS
<1> QED
  BY <1>1, <1>3, <1>4

\* A bounded set of numbers has the maximum that a fold begins with.
LEMMA MaxOf ==
  ASSUME NEW z \in SUBSET Nat, z # {}, NEW n \in Nat, \A y \in z : y <= n
  PROVE  Max(z) \in z /\ \A y \in z : y <= Max(z)
<1> DEFINE U == {u \in Nat : \A y \in z : y <= u}
<1>1. PICK m \in U : \A k \in U : ~(<<k, m>> \in OpToRel(<, Nat))
  <2>1. U \subseteq Nat /\ U # {}
    OBVIOUS
  <2> QED
    BY <2>1, NatLessThanWellFounded, WFMin
<1>2. m \in z
  <2> SUFFICES ASSUME m \notin z PROVE FALSE
    OBVIOUS
  <2>0. m \in Nat /\ \A y \in z : y \in Nat /\ y <= m
    OBVIOUS
  <2>1. \A y \in z : y \in Nat /\ y < m
    BY <2>0
  <2>2. m > 0
    <3>1. PICK y \in z : TRUE
      OBVIOUS
    <3> QED
      BY <2>0, <2>1, <3>1
  <2>3. m - 1 < m /\ m - 1 \in Nat /\ \A y \in z : y <= m - 1
    BY <2>0, <2>1, <2>2
  <2>4. m - 1 \in U
    BY <2>3
  <2> QED
    BY <1>1, <2>0, <2>3, <2>4 DEF OpToRel
<1> QED
  BY <1>2 DEF Max

LEMMA UpTo ==
  ASSUME NEW k \in Nat \ {0}
  PROVE  1..k # {} /\ Max(1..k) = k /\ (1..k) \ {Max(1..k)} = 1 .. k - 1
<1>0. 1..k \in SUBSET Nat /\ 1..k # {} /\ \A y \in 1..k : y <= k
  OBVIOUS
<1>1. Max(1..k) \in 1..k /\ \A y \in 1..k : y <= Max(1..k)
  BY <1>0, MaxOf
<1>2. Max(1..k) = k
  BY <1>1
<1> QED
  BY <1>2

\* it is what the fold of g over 1..n computes for each subset.
Iterates(it, A, b, n, g) ==
  /\ it \in [SUBSET (1..n) -> A]
  /\ \A z \in SUBSET (1..n) :
       it[z] = IF z = {} THEN b ELSE g[<<it[z \ {Max(z)}], Max(z)>>]

\* Every fold of a function is one: the recursive equation has a solution.
LEMMA FoldExists ==
  ASSUME NEW A, NEW b \in A, NEW n \in Nat, NEW g \in [A \X (1..n) -> A]
  PROVE  \E it : Iterates(it, A, b, n, g)
<1> DEFINE Has(k) == \E it : Iterates(it, A, b, k, g)
           S == {k \in Nat : k <= n => Has(k)}
<1>1. 0 \in S
  <2>1. [z \in SUBSET (1..0) |-> b] \in [SUBSET (1..0) -> A]
    OBVIOUS
  <2>2. \A z \in SUBSET (1..0) : z = {}
    OBVIOUS
  <2>3. Iterates([z \in SUBSET (1..0) |-> b], A, b, 0, g)
    BY <2>1, <2>2 DEF Iterates
  <2>4. Has(0)
    BY <2>3
  <2> HIDE DEF Has
  <2> QED
    BY <2>4
<1>2. ASSUME NEW k \in S PROVE k + 1 \in S
  <2>1. SUFFICES ASSUME k + 1 <= n PROVE Has(k + 1)
    <3> HIDE DEF Has
    <3> QED
      OBVIOUS
  <2>0. k \in Nat /\ k <= n /\ Has(k)
    <3> HIDE DEF Has
    <3> QED
      BY <2>1
  <2>2. PICK old : Iterates(old, A, b, k, g)
    BY <2>0
  <2> DEFINE it == [z \in SUBSET (1 .. k + 1) |->
                     IF k + 1 \in z THEN g[<<old[z \ {k + 1}], k + 1>>] ELSE old[z]]
  <2>3. \A z \in SUBSET (1 .. k + 1) : /\ z \ {k + 1} \in SUBSET (1..k)
                                       /\ k + 1 \notin z => z \in SUBSET (1..k)
    BY <2>0
  <2>4. it \in [SUBSET (1 .. k + 1) -> A]
    <3> SUFFICES ASSUME NEW z \in SUBSET (1 .. k + 1) PROVE it[z] \in A
      OBVIOUS
    <3>1. k + 1 \in 1..n
      BY <2>0, <2>1
    <3> QED
      BY <2>2, <2>3, <3>1 DEF Iterates
  <2>5. ASSUME NEW z \in SUBSET (1 .. k + 1)
        PROVE  it[z] = IF z = {} THEN b ELSE g[<<it[z \ {Max(z)}], Max(z)>>]
    <3>1. CASE k + 1 \in z
      <4>1. Max(z) = k + 1
        <5>1. z \in SUBSET Nat /\ \A y \in z : y <= k + 1
          BY <2>0
        <5>2. Max(z) \in z /\ \A y \in z : y <= Max(z)
          BY <2>0, <3>1, <5>1, MaxOf
        <5>3. Max(z) \in Nat /\ Max(z) <= k + 1 /\ k + 1 <= Max(z)
          BY <3>1, <5>1, <5>2
        <5> QED
          BY <2>0, <5>3
      <4>2. it[z \ {k + 1}] = old[z \ {k + 1}]
        <5>1. z \ {k + 1} \in SUBSET (1 .. k + 1)
          OBVIOUS
        <5> QED
          BY <5>1
      <4> QED
        BY <3>1, <4>1, <4>2
    <3>2. CASE k + 1 \notin z
      <4>1. z \in SUBSET (1..k) /\ it[z] = old[z]
        BY <2>3, <3>2
      <4>2. old[z] = IF z = {} THEN b ELSE g[<<old[z \ {Max(z)}], Max(z)>>]
        BY <2>2, <4>1 DEF Iterates
      <4>3. it[z \ {Max(z)}] = old[z \ {Max(z)}]
        <5>1. z \ {Max(z)} \in SUBSET (1 .. k + 1)
          OBVIOUS
        <5> QED
          BY <3>2, <5>1
      <4> QED
        BY <4>1, <4>2, <4>3
    <3> QED
      BY <3>1, <3>2
  <2> HIDE DEF it
  <2>6. Iterates(it, A, b, k + 1, g)
    BY <2>4, <2>5 DEF Iterates
  <2> QED
    BY <2>6
<1> HIDE DEF Has
<1>3. S \in SUBSET Nat
  OBVIOUS
<1>4. n \in S
  <2> HIDE DEF S
  <2> QED
    BY <1>1, <1>2, <1>3, NatSet
<1>5. Has(n)
  BY <1>4
<1> QED
  BY <1>5 DEF Has

-----------------------------------------------------------------------------
(* The folds of this module, as sequences of what they have after k elements. *)

LEMMA ElementsFold ==
  ASSUME NEW T, NEW s \in Seq(T)
  PROVE  \E f : /\ f[0] = <<>> /\ Elements(s) = f[Len(s)]
                /\ \A k \in 1..Len(s) : f[k] = Insert(f[k - 1], s[k])
<1> DEFINE step(acc, e) == Insert(acc, e)
           Q(it) == it = [z \in SUBSET DOMAIN s |->
                           IF z = {} THEN <<>>
                           ELSE step(it[z \ {Max(z)}], s[Max(z)])]
           A     == Seq(T)
           iter  == CHOOSE it : Q(it)
           f     == [k \in 0..Len(s) |-> iter[1..k]]
<1>1. Elements(s) = iter[DOMAIN s]
  BY DEF Elements, FoldLeft, MapThenFoldSet
<1>2. DOMAIN s = 1..Len(s) /\ Len(s) \in Nat
  OBVIOUS
<1>3. \E it : Q(it)
  <2> DEFINE g == [p \in A \X (1..Len(s)) |-> step(p[1], s[p[2]])]
  <2>1. g \in [A \X (1..Len(s)) -> A] /\ <<>> \in A
    BY DEF Insert
  <2>2. PICK it : Iterates(it, A, <<>>, Len(s), g)
    <3> HIDE DEF g, A
    <3> QED
      BY <1>2, <2>1, FoldExists
  <2>3. ASSUME NEW z \in SUBSET (1..Len(s)), z # {}
        PROVE  g[<<it[z \ {Max(z)}], Max(z)>>] = step(it[z \ {Max(z)}], s[Max(z)])
    <3>1. z \in SUBSET Nat /\ \A y \in z : y <= Len(s)
      BY <1>2
    <3>2. Max(z) \in 1..Len(s)
      BY <1>2, <2>3, <3>1, MaxOf
    <3>3. it[z \ {Max(z)}] \in A
      BY <2>2 DEF Iterates
    <3> HIDE DEF A
    <3> QED
      BY <3>2, <3>3
  <2> HIDE DEF g, A
  <2>4. Q(it)
    BY <1>2, <2>2, <2>3 DEF Iterates
  <2> QED
    BY <2>4
<1>4. Q(iter)
  BY <1>3
<1> HIDE DEF iter
<1>5. f[0] = <<>>
  BY <1>2, <1>4
<1>6. ASSUME NEW k \in 1..Len(s) PROVE f[k] = step(f[k - 1], s[k])
  <2>1. 1..k \in SUBSET DOMAIN s
    BY <1>2
  <2>2. 1..k # {} /\ Max(1..k) = k /\ (1..k) \ {Max(1..k)} = 1 .. k - 1
    BY UpTo
  <2>3. iter[1..k] = step(iter[1 .. k - 1], s[k])
    BY <1>4, <2>1, <2>2
  <2> QED
    BY <1>2, <2>3
<1>7. Elements(s) = f[Len(s)]
  BY <1>1, <1>2
<1> HIDE DEF f
<1> QED
  BY <1>5, <1>6, <1>7

LEMMA HashesFold ==
  ASSUME NEW T, NEW trace \in Seq(T)
  PROVE  \E f : /\ f[0] = <<>> /\ Hashes(trace) = f[Len(trace)]
                /\ \A k \in 1..Len(trace) : f[k] =
                     IF Counts(trace[k]) THEN Insert(f[k - 1], trace[k].hash) ELSE f[k - 1]
<1> DEFINE step(acc, e) == IF Counts(e) THEN Insert(acc, e.hash) ELSE acc
           Q(it) == it = [z \in SUBSET DOMAIN trace |->
                           IF z = {} THEN <<>>
                           ELSE step(it[z \ {Max(z)}], trace[Max(z)])]
           A     == Seq({trace[i].hash : i \in DOMAIN trace})
           iter  == CHOOSE it : Q(it)
           f     == [k \in 0..Len(trace) |-> iter[1..k]]
<1>1. Hashes(trace) = iter[DOMAIN trace]
  BY DEF Hashes, FoldLeft, MapThenFoldSet
<1>2. DOMAIN trace = 1..Len(trace) /\ Len(trace) \in Nat
  OBVIOUS
<1>3. \E it : Q(it)
  <2> DEFINE g == [p \in A \X (1..Len(trace)) |-> step(p[1], trace[p[2]])]
  <2>1. g \in [A \X (1..Len(trace)) -> A] /\ <<>> \in A
    BY DEF Insert
  <2>2. PICK it : Iterates(it, A, <<>>, Len(trace), g)
    <3> HIDE DEF g, A
    <3> QED
      BY <1>2, <2>1, FoldExists
  <2>3. ASSUME NEW z \in SUBSET (1..Len(trace)), z # {}
        PROVE  g[<<it[z \ {Max(z)}], Max(z)>>] = step(it[z \ {Max(z)}], trace[Max(z)])
    <3>1. z \in SUBSET Nat /\ \A y \in z : y <= Len(trace)
      BY <1>2
    <3>2. Max(z) \in 1..Len(trace)
      BY <1>2, <2>3, <3>1, MaxOf
    <3>3. it[z \ {Max(z)}] \in A
      BY <2>2 DEF Iterates
    <3> HIDE DEF A
    <3> QED
      BY <3>2, <3>3
  <2> HIDE DEF g, A
  <2>4. Q(it)
    BY <1>2, <2>2, <2>3 DEF Iterates
  <2> QED
    BY <2>4
<1>4. Q(iter)
  BY <1>3
<1> HIDE DEF iter
<1>5. f[0] = <<>>
  BY <1>2, <1>4
<1>6. ASSUME NEW k \in 1..Len(trace) PROVE f[k] = step(f[k - 1], trace[k])
  <2>1. 1..k \in SUBSET DOMAIN trace
    BY <1>2
  <2>2. 1..k # {} /\ Max(1..k) = k /\ (1..k) \ {Max(1..k)} = 1 .. k - 1
    BY UpTo
  <2>3. iter[1..k] = step(iter[1 .. k - 1], trace[k])
    BY <1>4, <2>1, <2>2
  <2> QED
    BY <1>2, <2>3
<1>7. Hashes(trace) = f[Len(trace)]
  BY <1>1, <1>2
<1> HIDE DEF f
<1> QED
  BY <1>5, <1>6, <1>7

LEMMA DecodeFold ==
  ASSUME NEW T, NEW s \in Seq(T)
  PROVE  \E f : /\ f[0] = <<>> /\ DecodeInputData(s) = f[Len(s)]
                /\ \A k \in 1..Len(s) : f[k] =
                     IF s[k] \in Accounts THEN Append(f[k - 1], s[k]) ELSE f[k - 1]
<1> DEFINE step(acc, e) == IF e \in Accounts THEN Append(acc, e) ELSE acc
           Q(it) == it = [z \in SUBSET DOMAIN s |->
                           IF z = {} THEN <<>>
                           ELSE step(it[z \ {Max(z)}], s[Max(z)])]
           A     == Seq(T)
           iter  == CHOOSE it : Q(it)
           f     == [k \in 0..Len(s) |-> iter[1..k]]
<1>1. DecodeInputData(s) = iter[DOMAIN s]
  BY DEF DecodeInputData, Select, FoldLeft, MapThenFoldSet
<1>2. DOMAIN s = 1..Len(s) /\ Len(s) \in Nat
  OBVIOUS
<1>3. \E it : Q(it)
  <2> DEFINE g == [p \in A \X (1..Len(s)) |-> step(p[1], s[p[2]])]
  <2>1. g \in [A \X (1..Len(s)) -> A] /\ <<>> \in A
    OBVIOUS
  <2>2. PICK it : Iterates(it, A, <<>>, Len(s), g)
    <3> HIDE DEF g, A
    <3> QED
      BY <1>2, <2>1, FoldExists
  <2>3. ASSUME NEW z \in SUBSET (1..Len(s)), z # {}
        PROVE  g[<<it[z \ {Max(z)}], Max(z)>>] = step(it[z \ {Max(z)}], s[Max(z)])
    <3>1. z \in SUBSET Nat /\ \A y \in z : y <= Len(s)
      BY <1>2
    <3>2. Max(z) \in 1..Len(s)
      BY <1>2, <2>3, <3>1, MaxOf
    <3>3. it[z \ {Max(z)}] \in A
      BY <2>2 DEF Iterates
    <3> HIDE DEF A
    <3> QED
      BY <3>2, <3>3
  <2> HIDE DEF g, A
  <2>4. Q(it)
    BY <1>2, <2>2, <2>3 DEF Iterates
  <2> QED
    BY <2>4
<1>4. Q(iter)
  BY <1>3
<1> HIDE DEF iter
<1>5. f[0] = <<>>
  BY <1>2, <1>4
<1>6. ASSUME NEW k \in 1..Len(s) PROVE f[k] = step(f[k - 1], s[k])
  <2>1. 1..k \in SUBSET DOMAIN s
    BY <1>2
  <2>2. 1..k # {} /\ Max(1..k) = k /\ (1..k) \ {Max(1..k)} = 1 .. k - 1
    BY UpTo
  <2>3. iter[1..k] = step(iter[1 .. k - 1], s[k])
    BY <1>4, <2>1, <2>2
  <2> QED
    BY <1>2, <2>3
<1>7. DecodeInputData(s) = f[Len(s)]
  BY <1>1, <1>2
<1> HIDE DEF f
<1> QED
  BY <1>5, <1>6, <1>7

-----------------------------------------------------------------------------
(* What they compute *)

LEMMA AppendSet ==
  ASSUME NEW T, NEW q \in Seq(T), NEW e \in T
  PROVE  Append(q, e) \in Seq(T) /\ ToSet(Append(q, e)) = ToSet(q) \cup {e}
<1>1. /\ DOMAIN q = 1..Len(q) /\ DOMAIN Append(q, e) = 1 .. Len(q) + 1 /\ Len(q) \in Nat
      /\ \A i \in 1..Len(q) : Append(q, e)[i] = q[i]
      /\ Append(q, e)[Len(q) + 1] = e
  OBVIOUS
<1> QED
  BY <1>1 DEF ToSet

\* A Set has each of its elements once.
LEMMA InsertSet ==
  ASSUME NEW T, NEW q \in Seq(T), NEW e \in T, IsInjective(q)
  PROVE  Insert(q, e) \in Seq(T) /\ ToSet(Insert(q, e)) = ToSet(q) \cup {e} /\ IsInjective(Insert(q, e))
<1>1. CASE e \in ToSet(q)
  BY <1>1 DEF Insert
<1>2. CASE e \notin ToSet(q)
  <2>1. /\ DOMAIN q = 1..Len(q) /\ DOMAIN Append(q, e) = 1 .. Len(q) + 1 /\ Len(q) \in Nat
        /\ \A i \in 1..Len(q) : Append(q, e)[i] = q[i]
        /\ Append(q, e)[Len(q) + 1] = e
    OBVIOUS
  <2>2. \A i \in 1..Len(q) : q[i] # e
    BY <1>2, <2>1 DEF ToSet
  <2>3. IsInjective(Append(q, e))
    BY <2>1, <2>2 DEF IsInjective
  <2> QED
    BY <1>2, <2>3, AppendSet DEF Insert
<1> QED
  BY <1>1, <1>2

\* new Set(s): every element, once.
LEMMA ElementsOf ==
  ASSUME NEW T, NEW s \in Seq(T)
  PROVE  Elements(s) \in Seq(T) /\ ToSet(Elements(s)) = ToSet(s) /\ IsInjective(Elements(s))
<1>1. PICK f : /\ f[0] = <<>> /\ Elements(s) = f[Len(s)]
               /\ \A k \in 1..Len(s) : f[k] = Insert(f[k - 1], s[k])
  BY ElementsFold
<1> DEFINE Upto(k) == f[k] \in Seq(T) /\ ToSet(f[k]) = {s[i] : i \in 1..k} /\ IsInjective(f[k])
           S == {k \in Nat : k <= Len(s) => Upto(k)}
<1>2. Upto(0)
  BY <1>1 DEF ToSet, IsInjective
<1>3. ASSUME NEW k \in Nat, k + 1 <= Len(s), Upto(k) PROVE Upto(k + 1)
  <2>1. k + 1 \in 1..Len(s) /\ (k + 1) - 1 = k /\ s[k + 1] \in T
    BY <1>3
  <2>2. f[k + 1] = Insert(f[k], s[k + 1])
    BY <1>1, <2>1
  <2>3. {s[i] : i \in 1 .. k + 1} = {s[i] : i \in 1..k} \cup {s[k + 1]}
    OBVIOUS
  <2>4. /\ f[k + 1] \in Seq(T) /\ IsInjective(f[k + 1])
        /\ ToSet(f[k + 1]) = ToSet(f[k]) \cup {s[k + 1]}
    <3> DEFINE q == f[k]
               e == s[k + 1]
    <3>1. q \in Seq(T) /\ IsInjective(q) /\ e \in T
      BY <1>3, <2>1
    <3> HIDE DEF q, e
    <3>2. /\ Insert(q, e) \in Seq(T) /\ IsInjective(Insert(q, e))
          /\ ToSet(Insert(q, e)) = ToSet(q) \cup {e}
      BY <3>1, InsertSet
    <3> QED
      BY <2>2, <3>2 DEF q, e
  <2> QED
    BY <1>3, <2>3, <2>4
<1> HIDE DEF Upto
<1>4. 0 \in S /\ \A k \in S : k + 1 \in S
  BY <1>2, <1>3
<1>5. Len(s) \in S
  <2> HIDE DEF S
  <2>1. Len(s) \in Nat /\ S \in SUBSET Nat
    BY DEF S
  <2> QED
    BY <1>4, <2>1, NatSet
<1>6. Upto(Len(s))
  BY <1>5
<1>7. ToSet(s) = {s[i] : i \in 1..Len(s)}
  BY DEF ToSet
<1> QED
  BY <1>1, <1>6, <1>7 DEF Upto

\* The keys of txnsPre: the hash of every item that counts, once.
LEMMA HashesOf ==
  ASSUME NEW T, NEW trace \in Seq(T)
  PROVE  /\ ToSet(Hashes(trace)) = {trace[i].hash : i \in {j \in DOMAIN trace : Counts(trace[j])}}
         /\ Hashes(trace) \in Seq({trace[i].hash : i \in DOMAIN trace}) /\ IsInjective(Hashes(trace))
<1> DEFINE H == {trace[i].hash : i \in DOMAIN trace}
           Those(k) == {trace[i].hash : i \in {j \in 1..k : Counts(trace[j])}}
<1>1. PICK f : /\ f[0] = <<>> /\ Hashes(trace) = f[Len(trace)]
               /\ \A k \in 1..Len(trace) :
                    f[k] = IF Counts(trace[k]) THEN Insert(f[k - 1], trace[k].hash) ELSE f[k - 1]
  BY HashesFold
<1> DEFINE Upto(k) == f[k] \in Seq(H) /\ ToSet(f[k]) = Those(k) /\ IsInjective(f[k])
           S == {k \in Nat : k <= Len(trace) => Upto(k)}
<1>2. Upto(0)
  BY <1>1 DEF ToSet, IsInjective
<1>3. ASSUME NEW k \in Nat, k + 1 <= Len(trace), Upto(k) PROVE Upto(k + 1)
  <2>1. k + 1 \in 1..Len(trace) /\ (k + 1) - 1 = k /\ trace[k + 1].hash \in H
    BY <1>3
  <2>2. f[k + 1] = IF Counts(trace[k + 1]) THEN Insert(f[k], trace[k + 1].hash) ELSE f[k]
    BY <1>1, <2>1
  <2>3. Those(k + 1) = Those(k) \cup IF Counts(trace[k + 1]) THEN {trace[k + 1].hash} ELSE {}
    OBVIOUS
  <2> HIDE DEF H, Those
  <2>4. CASE Counts(trace[k + 1])
    <3>1. /\ f[k + 1] \in Seq(H) /\ IsInjective(f[k + 1])
          /\ ToSet(f[k + 1]) = ToSet(f[k]) \cup {trace[k + 1].hash}
      BY <1>3, <2>1, <2>2, <2>4, InsertSet
    <3> QED
      BY <1>3, <2>3, <2>4, <3>1
  <2>5. CASE ~Counts(trace[k + 1])
    BY <1>3, <2>2, <2>3, <2>5
  <2> QED
    BY <2>4, <2>5
<1> HIDE DEF Upto
<1>4. 0 \in S /\ \A k \in S : k + 1 \in S
  BY <1>2, <1>3
<1>5. Len(trace) \in S
  <2> HIDE DEF S
  <2>1. Len(trace) \in Nat /\ S \in SUBSET Nat
    BY DEF S
  <2> QED
    BY <1>4, <2>1, NatSet
<1>6. Upto(Len(trace))
  BY <1>5
<1> QED
  BY <1>1, <1>6 DEF Upto

\* decodeInputData: the words of the input that are accounts.
LEMMA DecodedOf ==
  ASSUME NEW T, NEW s \in Seq(T)
  PROVE  DecodeInputData(s) \in Seq(Accounts) /\ ToSet(DecodeInputData(s)) = ToSet(s) \cap Accounts
<1>1. PICK f : /\ f[0] = <<>> /\ DecodeInputData(s) = f[Len(s)]
               /\ \A k \in 1..Len(s) :
                    f[k] = IF s[k] \in Accounts THEN Append(f[k - 1], s[k]) ELSE f[k - 1]
  BY DecodeFold
<1> DEFINE Upto(k) == f[k] \in Seq(Accounts) /\ ToSet(f[k]) = {s[i] : i \in 1..k} \cap Accounts
           S == {k \in Nat : k <= Len(s) => Upto(k)}
<1>2. Upto(0)
  BY <1>1 DEF ToSet
<1>3. ASSUME NEW k \in Nat, k + 1 <= Len(s), Upto(k) PROVE Upto(k + 1)
  <2>1. k + 1 \in 1..Len(s) /\ (k + 1) - 1 = k
    BY <1>3
  <2>2. f[k + 1] = IF s[k + 1] \in Accounts THEN Append(f[k], s[k + 1]) ELSE f[k]
    BY <1>1, <2>1
  <2>3. {s[i] : i \in 1 .. k + 1} = {s[i] : i \in 1..k} \cup {s[k + 1]}
    OBVIOUS
  <2>4. CASE s[k + 1] \in Accounts
    BY <1>3, <2>2, <2>3, <2>4, AppendSet
  <2>5. CASE s[k + 1] \notin Accounts
    BY <1>3, <2>2, <2>3, <2>5
  <2> QED
    BY <2>4, <2>5
<1> HIDE DEF Upto
<1>4. 0 \in S /\ \A k \in S : k + 1 \in S
  BY <1>2, <1>3
<1>5. Len(s) \in S
  <2> HIDE DEF S
  <2>1. Len(s) \in Nat /\ S \in SUBSET Nat
    BY DEF S
  <2> QED
    BY <1>4, <2>1, NatSet
<1>6. Upto(Len(s))
  BY <1>5
<1> QED
  BY <1>1, <1>6 DEF Upto, ToSet

LEMMA ConcatSet ==
  ASSUME NEW T, NEW p \in Seq(T), NEW q \in Seq(T)
  PROVE  p \o q \in Seq(T) /\ ToSet(p \o q) = ToSet(p) \cup ToSet(q)
<1>1. /\ DOMAIN p = 1..Len(p) /\ DOMAIN q = 1..Len(q) /\ Len(p) \in Nat /\ Len(q) \in Nat
      /\ DOMAIN (p \o q) = 1 .. Len(p) + Len(q)
      /\ \A i \in 1..Len(p) : (p \o q)[i] = p[i]
      /\ \A i \in 1..Len(q) : (p \o q)[Len(p) + i] = q[i]
  OBVIOUS
<1>2. ASSUME NEW i \in 1 .. Len(p) + Len(q), i \notin 1..Len(p)
      PROVE  i - Len(p) \in 1..Len(q) /\ Len(p) + (i - Len(p)) = i
  BY <1>1, <1>2
<1>3. \A i \in 1..Len(q) : Len(p) + i \in 1 .. Len(p) + Len(q)
  BY <1>1
<1>4. ToSet(p \o q) \subseteq ToSet(p) \cup ToSet(q)
  BY <1>1, <1>2 DEF ToSet
<1>5. ToSet(p) \cup ToSet(q) \subseteq ToSet(p \o q)
  BY <1>1, <1>3 DEF ToSet
<1> QED
  BY <1>4, <1>5

LEMMA ConcatSets ==
  ASSUME NEW T, NEW p \in Seq(T), NEW q \in Seq(T), NEW r \in Seq(T)
  PROVE  p \o q \o r \in Seq(T) /\ ToSet(p \o q \o r) = ToSet(p) \cup ToSet(q) \cup ToSet(r)
<1> DEFINE pq == p \o q
<1>1. pq \in Seq(T) /\ ToSet(pq) = ToSet(p) \cup ToSet(q)
  BY ConcatSet
<1> HIDE DEF pq
<1>2. pq \o r \in Seq(T) /\ ToSet(pq \o r) = ToSet(pq) \cup ToSet(r)
  BY <1>1, ConcatSet
<1> QED
  BY <1>1, <1>2 DEF pq

LEMMA GivenSet ==
  ASSUME NEW a \in Accounts \cup {None}
  PROVE  Given(a) \in Seq(Accounts) /\ ToSet(Given(a)) = {a} \cap Accounts
BY NoneIsNoAccount DEF Given, ToSet

\* What is gathered of a group.
Gathered == [topics : Seq(Accounts), inputFound : BOOLEAN]

Names(item) == item.input # None /\ ToSet(item.input) \cap Accounts # {}

IsItem(item) ==
  /\ {item.from, item.to, item.created} \subseteq Accounts \cup {None}
  /\ item.input # None => item.input \in Seq(ToSet(item.input))

LEMMA AddTopicsOf ==
  ASSUME NEW acc \in Gathered, NEW item, IsItem(item)
  PROVE  /\ AddTopics(acc, item) \in Gathered
         /\ AddTopics(acc, item).inputFound <=> acc.inputFound \/ Names(item)
         /\ ToSet(AddTopics(acc, item).topics) =
              ToSet(acc.topics) \cup ({item.from, item.to, item.created} \cap Accounts)
                \cup IF ~acc.inputFound /\ Names(item) THEN ToSet(item.input) \cap Accounts ELSE {}
<1> DEFINE decoded == IF acc.inputFound \/ item.input = None
                        THEN <<>> ELSE DecodeInputData(item.input)
           parties == Given(item.from) \o Given(item.to) \o Given(item.created)
<1>1. /\ decoded \in Seq(Accounts)
      /\ ToSet(decoded) = IF ~acc.inputFound /\ Names(item) THEN ToSet(item.input) \cap Accounts ELSE {}
  <2>1. CASE acc.inputFound \/ item.input = None
    <3>1. ToSet(<<>>) = {}
      BY DEF ToSet
    <3> QED
      BY <2>1, <3>1 DEF Names
  <2>2. CASE ~acc.inputFound /\ item.input # None
    <3>1. /\ DecodeInputData(item.input) \in Seq(Accounts)
          /\ ToSet(DecodeInputData(item.input)) = ToSet(item.input) \cap Accounts
      BY <2>2, DecodedOf DEF IsItem
    <3> QED
      BY <2>2, <3>1 DEF Names
  <2> QED
    BY <2>1, <2>2
<1>2. parties \in Seq(Accounts) /\ ToSet(parties) = {item.from, item.to, item.created} \cap Accounts
  <2>1. \A a \in {item.from, item.to, item.created} :
          Given(a) \in Seq(Accounts) /\ ToSet(Given(a)) = {a} \cap Accounts
    BY GivenSet DEF IsItem
  <2>2. /\ parties \in Seq(Accounts)
        /\ ToSet(parties) = ToSet(Given(item.from)) \cup ToSet(Given(item.to))
                               \cup ToSet(Given(item.created))
    BY <2>1, ConcatSets
  <2> QED
    BY <2>1, <2>2
<1>3. decoded # <<>> <=> ToSet(decoded) # {}
  BY <1>1 DEF ToSet
<1>4. AddTopics(acc, item) = [topics |-> acc.topics \o decoded \o parties,
                              inputFound |-> acc.inputFound \/ decoded # <<>>]
  BY DEF AddTopics
<1> HIDE DEF decoded, parties
<1>5. acc.topics \in Seq(Accounts) /\ acc.inputFound \in BOOLEAN
  BY DEF Gathered
<1>7. /\ acc.topics \o decoded \o parties \in Seq(Accounts)
      /\ ToSet(acc.topics \o decoded \o parties) =
           ToSet(acc.topics) \cup ToSet(decoded) \cup ToSet(parties)
  BY <1>1, <1>2, <1>5, ConcatSets
<1>8. AddTopics(acc, item) \in Gathered
  BY <1>4, <1>7 DEF Gathered
<1>9. AddTopics(acc, item).inputFound <=> acc.inputFound \/ Names(item)
  <2>1. decoded # <<>> <=> ~acc.inputFound /\ Names(item)
    BY <1>1, <1>3 DEF Names
  <2>2. AddTopics(acc, item).inputFound = (acc.inputFound \/ decoded # <<>>)
    BY <1>4
  <2> QED
    BY <2>1, <2>2, Zenon
<1>10. ToSet(AddTopics(acc, item).topics) =
         ToSet(acc.topics) \cup ({item.from, item.to, item.created} \cap Accounts)
           \cup IF ~acc.inputFound /\ Names(item) THEN ToSet(item.input) \cap Accounts ELSE {}
  <2>1. AddTopics(acc, item).topics = acc.topics \o decoded \o parties
    BY <1>4
  <2> QED
    BY <1>1, <1>2, <1>7, <2>1
<1> QED
  BY <1>8, <1>9, <1>10

LEMMA TraceItems ==
  ASSUME NEW trace, IsTrace(trace)
  PROVE  \A i \in DOMAIN trace : IsItem(trace[i])
BY DEF IsTrace, IsItem, ToSet

LEMMA GroupFold ==
  ASSUME NEW trace, IsTrace(trace), NEW h
  PROVE  \E f : /\ f[0] = [topics |-> <<>>, inputFound |-> FALSE] /\ GroupTopics(trace, h) = f[Len(trace)]
                /\ \A k \in 1..Len(trace) : f[k] =
                     IF InGroup(trace[k], h) THEN AddTopics(f[k - 1], trace[k]) ELSE f[k - 1]
<1> DEFINE step(acc, e) == IF InGroup(e, h) THEN AddTopics(acc, e) ELSE acc
           Q(it) == it = [z \in SUBSET DOMAIN trace |->
                           IF z = {} THEN [topics |-> <<>>, inputFound |-> FALSE]
                           ELSE step(it[z \ {Max(z)}], trace[Max(z)])]
           A     == Gathered
           iter  == CHOOSE it : Q(it)
           f     == [k \in 0..Len(trace) |-> iter[1..k]]
<1>1. GroupTopics(trace, h) = iter[DOMAIN trace]
  BY DEF GroupTopics, FoldLeft, MapThenFoldSet
<1>2. DOMAIN trace = 1..Len(trace) /\ Len(trace) \in Nat
  BY DEF IsTrace
<1>3. \E it : Q(it)
  <2> DEFINE g == [p \in A \X (1..Len(trace)) |-> step(p[1], trace[p[2]])]
  <2>1. g \in [A \X (1..Len(trace)) -> A] /\ [topics |-> <<>>, inputFound |-> FALSE] \in A
    BY <1>2, TraceItems, AddTopicsOf DEF Gathered
  <2>2. PICK it : Iterates(it, A, [topics |-> <<>>, inputFound |-> FALSE], Len(trace), g)
    <3> HIDE DEF g, A
    <3> QED
      BY <1>2, <2>1, FoldExists
  <2>3. ASSUME NEW z \in SUBSET (1..Len(trace)), z # {}
        PROVE  g[<<it[z \ {Max(z)}], Max(z)>>] = step(it[z \ {Max(z)}], trace[Max(z)])
    <3>1. z \in SUBSET Nat /\ \A y \in z : y <= Len(trace)
      BY <1>2
    <3>2. Max(z) \in 1..Len(trace)
      BY <1>2, <2>3, <3>1, MaxOf
    <3>3. it[z \ {Max(z)}] \in A
      BY <2>2 DEF Iterates
    <3> HIDE DEF A
    <3> QED
      BY <3>2, <3>3
  <2> HIDE DEF g, A
  <2>4. Q(it)
    BY <1>2, <2>2, <2>3 DEF Iterates
  <2> QED
    BY <2>4
<1>4. Q(iter)
  BY <1>3
<1> HIDE DEF iter
<1>5. f[0] = [topics |-> <<>>, inputFound |-> FALSE]
  BY <1>2, <1>4
<1>6. ASSUME NEW k \in 1..Len(trace) PROVE f[k] = step(f[k - 1], trace[k])
  <2>1. 1..k \in SUBSET DOMAIN trace
    BY <1>2
  <2>2. 1..k # {} /\ Max(1..k) = k /\ (1..k) \ {Max(1..k)} = 1 .. k - 1
    BY UpTo
  <2>3. iter[1..k] = step(iter[1 .. k - 1], trace[k])
    BY <1>4, <2>1, <2>2
  <2> QED
    BY <1>2, <2>3
<1>7. GroupTopics(trace, h) = f[Len(trace)]
  BY <1>1, <1>2
<1> HIDE DEF f
<1> QED
  BY <1>5, <1>6, <1>7

\* A group gathers the parties of its items, and the first input that names accounts.
LEMMA GroupOf ==
  ASSUME NEW trace, IsTrace(trace), NEW h
  PROVE  /\ GroupTopics(trace, h).topics \in Seq(Accounts)
         /\ ToSet(GroupTopics(trace, h).topics) = Touched(trace, h)
<1> DEFINE items(k)  == {i \in 1..k : InGroup(trace[i], h)}
           naming(k) == {i \in items(k) : Names(trace[i])}
           first(k)  == {i \in naming(k) : \A j \in naming(k) : i <= j}
           parties(k) == UNION {{trace[i].from, trace[i].to, trace[i].created} : i \in items(k)}
           said(k)    == (parties(k) \cup UNION {ToSet(trace[i].input) : i \in first(k)}) \cap Accounts
<1>l. Len(trace) \in Nat /\ DOMAIN trace = 1..Len(trace)
  BY DEF IsTrace
<1>1. PICK f : /\ f[0] = [topics |-> <<>>, inputFound |-> FALSE]
               /\ GroupTopics(trace, h) = f[Len(trace)]
               /\ \A k \in 1..Len(trace) :
                    f[k] = IF InGroup(trace[k], h) THEN AddTopics(f[k - 1], trace[k]) ELSE f[k - 1]
  BY GroupFold
<1> DEFINE Upto(k) == /\ f[k] \in Gathered
                      /\ f[k].inputFound <=> naming(k) # {}
                      /\ ToSet(f[k].topics) = said(k)
           S == {k \in Nat : k <= Len(trace) => Upto(k)}
<1>2. Upto(0)
  <2>1. f[0] \in Gathered /\ ~f[0].inputFound /\ ToSet(f[0].topics) = {}
    BY <1>1 DEF Gathered, ToSet
  <2>2. items(0) = {}
    OBVIOUS
  <2> HIDE DEF items
  <2>3. naming(0) = {} /\ parties(0) = {}
    BY <2>2
  <2> HIDE DEF naming, parties
  <2>4. first(0) = {}
    BY <2>3
  <2> HIDE DEF first
  <2>5. said(0) = {}
    BY <2>3, <2>4
  <2> QED
    BY <2>1, <2>3, <2>5
<1>3. ASSUME NEW k \in Nat, k + 1 <= Len(trace), Upto(k) PROVE Upto(k + 1)
  <2> DEFINE item == trace[k + 1]
  <2>1. k + 1 \in 1..Len(trace) /\ (k + 1) - 1 = k /\ IsItem(item)
    BY <1>3, <1>l, TraceItems
  <2>2. f[k + 1] = IF InGroup(item, h) THEN AddTopics(f[k], item) ELSE f[k]
    BY <1>1, <2>1
  <2>3. 1 .. k + 1 = (1..k) \cup {k + 1} /\ k + 1 \notin 1..k /\ \A i \in 1..k : i < k + 1
    OBVIOUS
  <2>4. CASE ~InGroup(item, h)
    <3>1. items(k + 1) = items(k)
      BY <2>3, <2>4
    <3> HIDE DEF items
    <3>2. naming(k + 1) = naming(k) /\ parties(k + 1) = parties(k)
      BY <3>1
    <3> HIDE DEF naming, parties
    <3>3. first(k + 1) = first(k)
      BY <3>2
    <3> HIDE DEF first
    <3> QED
      BY <1>3, <2>2, <2>4, <3>2, <3>3
  <2>5. CASE InGroup(item, h)
    <3>1. items(k + 1) = items(k) \cup {k + 1} /\ items(k) \subseteq 1..k
      BY <2>3, <2>5
    <3> HIDE DEF items
    <3>2. parties(k + 1) = parties(k) \cup {item.from, item.to, item.created}
      BY <3>1
    <3>3. /\ naming(k + 1) = naming(k) \cup IF Names(item) THEN {k + 1} ELSE {}
          /\ naming(k) \subseteq 1..k
      BY <3>1
    <3> HIDE DEF naming, parties
    <3>4. first(k + 1) = IF Names(item) /\ naming(k) = {} THEN {k + 1} ELSE first(k)
      <4>1. \A i, j \in naming(k + 1) : i \in Nat /\ j \in Nat
        BY <3>3
      <4>2. CASE naming(k) = {}
        BY <3>3, <4>1, <4>2
      <4>3. CASE naming(k) # {} /\ ~Names(item)
        BY <3>3, <4>3
      <4>4. CASE naming(k) # {} /\ Names(item)
        <5>1. naming(k + 1) = naming(k) \cup {k + 1}
          BY <3>3, <4>4
        <5>2. \A i \in naming(k) : i <= k + 1 /\ ~(k + 1 <= i)
          BY <3>3
        <5> QED
          BY <4>4, <5>1, <5>2
      <4> QED
        BY <4>2, <4>3, <4>4
    <3>5. (UNION {ToSet(trace[i].input) : i \in first(k + 1)}) =
            (UNION {ToSet(trace[i].input) : i \in first(k)})
              \cup IF naming(k) = {} /\ Names(item) THEN ToSet(item.input) ELSE {}
      <4>1. naming(k) = {} => first(k) = {}
        OBVIOUS
      <4> HIDE DEF first
      <4> QED
        BY <3>4, <4>1
    <3> HIDE DEF first
    <3>6. said(k + 1) = said(k) \cup ({item.from, item.to, item.created} \cap Accounts)
                          \cup IF naming(k) = {} /\ Names(item) THEN ToSet(item.input) \cap Accounts ELSE {}
      BY <3>2, <3>5
    <3> HIDE DEF said, item
    <3>7. f[k] \in Gathered /\ (f[k].inputFound <=> naming(k) # {}) /\ ToSet(f[k].topics) = said(k)
      BY <1>3
    <3>8. /\ f[k + 1] \in Gathered
          /\ f[k + 1].inputFound <=> f[k].inputFound \/ Names(item)
          /\ ToSet(f[k + 1].topics) =
               ToSet(f[k].topics) \cup ({item.from, item.to, item.created} \cap Accounts)
                 \cup IF ~f[k].inputFound /\ Names(item) THEN ToSet(item.input) \cap Accounts ELSE {}
      BY <2>1, <2>2, <2>5, <3>7, AddTopicsOf
    <3>9. ToSet(f[k + 1].topics) = said(k + 1)
      BY <3>6, <3>7, <3>8
    <3>10. f[k + 1].inputFound <=> naming(k + 1) # {}
      BY <3>3, <3>7, <3>8
    <3> QED
      BY <3>8, <3>9, <3>10
  <2> QED
    BY <2>4, <2>5
<1>4. 0 \in S /\ \A k \in S : k + 1 \in S
  <2> HIDE DEF Upto
  <2> QED
    BY <1>2, <1>3
<1>5. Len(trace) \in S
  <2> HIDE DEF S
  <2>1. S \in SUBSET Nat
    BY DEF S
  <2> QED
    BY <1>4, <1>l, <2>1, NatSet
<1>6. Upto(Len(trace))
  <2> HIDE DEF Upto
  <2> QED
    BY <1>5
<1>7. Touched(trace, h) = said(Len(trace))
  BY <1>l DEF Touched, Names
<1> HIDE DEF said
<1> QED
  BY <1>1, <1>6, <1>7 DEF Gathered

\* The transactions of a trace: one for every hash of an item that counts, and each account
\* that its items touch once among its topics.
Exact(txs, trace) ==
  /\ txs \in Seq([hash : {trace[i].hash : i \in DOMAIN trace}, topics : Seq(Accounts)])
  /\ {txs[i].hash : i \in DOMAIN txs} = {trace[i].hash : i \in {j \in DOMAIN trace : Counts(trace[j])}}
  /\ \A i, j \in DOMAIN txs : txs[i].hash = txs[j].hash => i = j
  /\ \A i \in DOMAIN txs : /\ txs[i].topics \in Seq(Accounts)
                           /\ IsInjective(txs[i].topics)
                           /\ ToSet(txs[i].topics) = Touched(trace, txs[i].hash)

\* extractTopicsFromInputData (txUtils.js:24) says of a block what a reader of its trace
\* would: the topics of a transaction are the accounts that take part in its items and
\* those in the first of its inputs that names any, for traces, groups and inputs of any
\* length.
THEOREM ExtractionIsExact ==
  ASSUME NEW trace, IsTrace(trace)
  PROVE  Exact(ExtractTopics(trace), trace)
<1> DEFINE hashes == Hashes(trace)
           txs    == ExtractTopics(trace)
           H      == {trace[i].hash : i \in DOMAIN trace}
<1>1. /\ ToSet(hashes) = {trace[i].hash : i \in {j \in DOMAIN trace : Counts(trace[j])}}
      /\ hashes \in Seq(H) /\ IsInjective(hashes)
  BY HashesOf DEF IsTrace
<1>2. txs = [i \in DOMAIN hashes |->
              [hash |-> hashes[i], topics |-> Elements(GroupTopics(trace, hashes[i]).topics)]]
  BY DEF ExtractTopics
<1>3. \A h : /\ Elements(GroupTopics(trace, h).topics) \in Seq(Accounts)
             /\ IsInjective(Elements(GroupTopics(trace, h).topics))
             /\ ToSet(Elements(GroupTopics(trace, h).topics)) = Touched(trace, h)
  BY GroupOf, ElementsOf
<1> HIDE DEF hashes, txs, H
<1>4. /\ DOMAIN txs = DOMAIN hashes
      /\ \A i \in DOMAIN txs : /\ txs[i].hash = hashes[i]
                               /\ txs[i].topics = Elements(GroupTopics(trace, hashes[i]).topics)
  BY <1>2
<1>5. txs \in Seq([hash : H, topics : Seq(Accounts)])
  <2>1. DOMAIN hashes = 1..Len(hashes) /\ Len(hashes) \in Nat /\ \A i \in DOMAIN hashes : hashes[i] \in H
    BY <1>1
  <2>2. txs \in [1..Len(hashes) -> [hash : H, topics : Seq(Accounts)]]
    BY <1>2, <1>3, <2>1
  <2> DEFINE n == Len(hashes)
             R == [hash : H, topics : Seq(Accounts)]
  <2> HIDE DEF n, R
  <2>3. n \in Nat /\ txs \in [1..n -> R]
    BY <2>1, <2>2 DEF n, R
  <2>4. txs \in Seq(R)
    BY <2>3
  <2> QED
    BY <2>4 DEF R
<1>6. {txs[i].hash : i \in DOMAIN txs} = ToSet(hashes)
  BY <1>4 DEF ToSet
<1>7. \A i, j \in DOMAIN txs : txs[i].hash = txs[j].hash => i = j
  BY <1>1, <1>4 DEF IsInjective
<1>8. \A i \in DOMAIN txs : /\ txs[i].topics \in Seq(Accounts) /\ IsInjective(txs[i].topics)
                            /\ ToSet(txs[i].topics) = Touched(trace, txs[i].hash)
  BY <1>3, <1>4
<1> QED
  BY <1>1, <1>5, <1>6, <1>7, <1>8 DEF txs, H, Exact
====
