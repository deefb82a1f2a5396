-------------------------- MODULE IdAllocatorProofs --------------------------
(***************************************************************************)
(* Proofs about IdAllocator for any set of calls, any floors and any       *)
(* number of crashes.  Each operation on a document (reclaimExpired,       *)
(* applyFloor, reserve, consumed, pooled) keeps it consistent; a memory    *)
(* that only moves on through them, and writes that settle in order, then  *)
(* keep what callers were told in the file, on its way there and in        *)
(* memory, which is what the promise UniqueIds rests on.                   *)
(***************************************************************************)
EXTENDS IdAllocator, SequenceTheorems, TLAPS

\* The parts of a document, as the operations below change them.
Parts(e, hw, fr, re, us, ba) ==
    /\ e.highWater = hw /\ e.free = fr /\ e.reserved = re /\ e.used = us /\ e.base = ba

LEMMA DocParts ==
    ASSUME NEW d \in Docs
    PROVE  /\ d.highWater \in Nat /\ d.free \in SUBSET Nat
           /\ d.reserved \in [Calls -> Nat]
           /\ d.used \in SUBSET Nat /\ d.base \in Nat
BY DEF Docs

\* reclaimExpired() moves the abandoned reservations to the pool.
LEMMA ReclaimParts ==
    ASSUME NEW d \in Docs
    PROVE  /\ reclaimExpired(d) \in Docs
           /\ Parts(reclaimExpired(d), d.highWater,
                    d.free \cup {d.reserved[a] : a \in Abandoned(d)},
                    [a \in Calls |-> IF a \in Abandoned(d) THEN 0 ELSE d.reserved[a]],
                    d.used, d.base)
<1> DEFINE fr == d.free \cup {d.reserved[a] : a \in Abandoned(d)}
           re == [a \in Calls |-> IF a \in Abandoned(d) THEN 0 ELSE d.reserved[a]]
<1>1. fr \in SUBSET Nat
  BY DocParts DEF Abandoned
<1>2. re \in [Calls -> Nat]
  BY DocParts DEF Abandoned
<1>3. reclaimExpired(d) = [d EXCEPT !.reserved = re, !.free = fr]
  BY DEF reclaimExpired
<1> HIDE DEF fr, re
<1>4. reclaimExpired(d) \in Docs
  BY <1>1, <1>2, <1>3 DEF Docs
<1>5. Parts(reclaimExpired(d), d.highWater, fr, re, d.used, d.base)
  BY <1>3 DEF Docs, Parts
<1> QED BY <1>4, <1>5 DEF fr, re

\* The floor lifts highWater and base, and trims the pool.
LEMMA FloorParts ==
    ASSUME NEW d \in Docs, NEW floor \in Nat
    PROVE  /\ applyFloor(d, floor) \in Docs
           /\ Parts(applyFloor(d, floor), IF floor > d.highWater THEN floor ELSE d.highWater,
                    {n \in d.free : n > floor}, d.reserved, d.used,
                    IF floor > d.base THEN floor ELSE d.base)
<1> DEFINE hw == IF floor > d.highWater THEN floor ELSE d.highWater
           ba == IF floor > d.base THEN floor ELSE d.base
           fr == {n \in d.free : n > floor}
<1>1. hw \in Nat /\ ba \in Nat /\ fr \in SUBSET Nat
  BY DocParts
<1>2. applyFloor(d, floor) = [d EXCEPT !.highWater = hw, !.base = ba, !.free = fr]
  BY DEF applyFloor
<1> HIDE DEF hw, ba, fr
<1>3. applyFloor(d, floor) \in Docs /\ Parts(applyFloor(d, floor), hw, fr, d.reserved, d.used, ba)
  BY <1>1, <1>2 DEF Docs, Parts
<1> QED BY <1>3 DEF hw, ba, fr

LEMMA ReserveParts ==
    ASSUME NEW d \in Docs, NEW a \in Calls, NEW n \in Nat
    PROVE  /\ reserve(d, a, n) \in Docs
           /\ Parts(reserve(d, a, n), IF n > d.highWater THEN n ELSE d.highWater,
                    d.free \ {n}, [d.reserved EXCEPT ![a] = n], d.used, d.base)
<1> DEFINE hw == IF n > d.highWater THEN n ELSE d.highWater
           fr == d.free \ {n}
           re == [d.reserved EXCEPT ![a] = n]
<1>1. hw \in Nat /\ fr \in SUBSET Nat /\ re \in [Calls -> Nat]
  BY DocParts
<1>2. reserve(d, a, n) = [d EXCEPT !.highWater = hw, !.free = fr, !.reserved = re]
  BY DEF reserve
<1> HIDE DEF hw, fr, re
<1>3. reserve(d, a, n) \in Docs /\ Parts(reserve(d, a, n), hw, fr, re, d.used, d.base)
  BY <1>1, <1>2 DEF Docs, Parts
<1> QED BY <1>3 DEF hw, fr, re

LEMMA ConsumedParts ==
    ASSUME NEW d \in Docs, NEW a \in Calls
    PROVE  /\ consumed(d, a) \in Docs
           /\ Parts(consumed(d, a), d.highWater, d.free, [d.reserved EXCEPT ![a] = 0],
                    d.used \cup {d.reserved[a]}, d.base)
<1> DEFINE us == d.used \cup {d.reserved[a]}
           re == [d.reserved EXCEPT ![a] = 0]
<1>1. us \in SUBSET Nat /\ re \in [Calls -> Nat]
  BY DocParts
<1>2. consumed(d, a) = [d EXCEPT !.reserved = re, !.used = us]
  BY DEF consumed
<1> HIDE DEF us, re
<1>3. consumed(d, a) \in Docs /\ Parts(consumed(d, a), d.highWater, d.free, re, us, d.base)
  BY <1>1, <1>2 DEF Docs, Parts
<1> QED BY <1>3 DEF us, re

LEMMA PooledParts ==
    ASSUME NEW d \in Docs, NEW a \in Calls
    PROVE  /\ pooled(d, a) \in Docs
           /\ Parts(pooled(d, a), d.highWater, d.free \cup {d.reserved[a]},
                    [d.reserved EXCEPT ![a] = 0], d.used, d.base)
<1> DEFINE fr == d.free \cup {d.reserved[a]}
           re == [d.reserved EXCEPT ![a] = 0]
<1>1. fr \in SUBSET Nat /\ re \in [Calls -> Nat]
  BY DocParts
<1>2. pooled(d, a) = [d EXCEPT !.reserved = re, !.free = fr]
  BY DEF pooled
<1> HIDE DEF fr, re
<1>3. pooled(d, a) \in Docs /\ Parts(pooled(d, a), d.highWater, fr, re, d.used, d.base)
  BY <1>1, <1>2 DEF Docs, Parts
<1> QED BY <1>3 DEF fr, re

------------------------------------------------------------------------------
(***************************************************************************)
(* Consistent, over the parts of a document.                               *)
(***************************************************************************)

\* Consistent, one number at a time.
Sound(hw, fr, re, us, ba) ==
    /\ \A a, b \in Calls : re[a] = re[b] => a = b \/ re[a] = 0
    /\ \A a \in Calls : re[a] > 0 => re[a] \notin fr /\ re[a] \notin us /\ re[a] <= hw
    /\ \A n \in fr : n \notin us /\ 1 <= n /\ n <= hw
    /\ \A n \in us : 1 <= n /\ n <= hw
    /\ \A n \in 1..hw :
          n <= ba \/ n \in fr \/ n \in us \/ \E a \in Calls : re[a] = n

LEMMA ConsistentIsSound ==
    ASSUME NEW d \in Docs
    PROVE  Consistent(d) <=> Sound(d.highWater, d.free, d.reserved, d.used, d.base)
<1>a. /\ d.highWater \in Nat /\ d.free \in SUBSET Nat
      /\ d.reserved \in [Calls -> Nat]
      /\ d.used \in SUBSET Nat /\ d.base \in Nat
  BY DocParts
<1>1. \A n \in Nat : n \in Reserved(d) <=> n > 0 /\ \E a \in Calls : d.reserved[a] = n
  BY <1>a DEF Reserved
<1>2. Reserved(d) \subseteq Nat
  BY <1>a DEF Reserved
<1>3. ASSUME Consistent(d) PROVE Sound(d.highWater, d.free, d.reserved, d.used, d.base)
  <2>1. \A a \in Calls : d.reserved[a] > 0 => d.reserved[a] \in Reserved(d)
    BY <1>a, <1>1
  <2>2. \A n \in d.free \cup Reserved(d) \cup d.used : 1 <= n /\ n <= d.highWater
    BY <1>3, <1>a DEF Consistent
  <2>3. \A n \in 1..d.highWater :
           n <= d.base \/ n \in d.free \/ n \in d.used \/ \E a \in Calls : d.reserved[a] = n
    BY <1>3, <1>a, <1>1 DEF Consistent
  <2> QED BY <1>3, <1>a, <2>1, <2>2, <2>3 DEF Consistent, Sound
<1>4. ASSUME Sound(d.highWater, d.free, d.reserved, d.used, d.base) PROVE Consistent(d)
  <2>1. \A n \in Reserved(d) : n \notin d.free /\ n \notin d.used /\ 1 <= n /\ n <= d.highWater
    BY <1>4, <1>a, <1>1, <1>2 DEF Sound
  <2>2. d.free \cup Reserved(d) \cup d.used \subseteq 1..d.highWater
    BY <1>4, <1>a, <1>2, <2>1 DEF Sound
  <2>3. \A n \in 1..d.highWater :
           n <= d.base \/ n \in d.free \cup Reserved(d) \cup d.used
    BY <1>4, <1>a, <1>1 DEF Sound
  <2>4. d.free \cap Reserved(d) = {} /\ d.used \cap (d.free \cup Reserved(d)) = {}
    BY <1>4, <2>1 DEF Sound
  <2> QED BY <1>4, <2>2, <2>3, <2>4 DEF Consistent, Sound
<1> QED BY <1>3, <1>4

\* An abandoned reservation goes back to the pool without a gap.
LEMMA ReclaimSound ==
    ASSUME NEW d \in Docs, Consistent(d)
    PROVE  /\ Consistent(reclaimExpired(d))
           /\ reclaimExpired(d).used = d.used
           /\ \A b \in Calls : reclaimExpired(d).reserved[b] \in {0, d.reserved[b]}
           /\ \A b \in Calls : b \notin lapsed /\ Alive(b) =>
                                 reclaimExpired(d).reserved[b] = d.reserved[b]
<1> DEFINE A == Abandoned(d)
           fr == d.free \cup {d.reserved[a] : a \in A}
           re == [a \in Calls |-> IF a \in A THEN 0 ELSE d.reserved[a]]
           e == reclaimExpired(d)
<1>a. /\ d.highWater \in Nat /\ d.free \in SUBSET Nat
      /\ d.reserved \in [Calls -> Nat]
      /\ d.used \in SUBSET Nat /\ d.base \in Nat
  BY DocParts
<1>b. e \in Docs /\ Parts(e, d.highWater, fr, re, d.used, d.base)
  BY ReclaimParts
<1>c. Sound(d.highWater, d.free, d.reserved, d.used, d.base)
  BY ConsistentIsSound
<1>d. /\ A \subseteq Calls /\ \A a \in A : d.reserved[a] > 0
      /\ \A a \in Calls : a \notin lapsed /\ Alive(a) => a \notin A
  BY DEF Abandoned
<1> HIDE DEF A
<1>1. Sound(d.highWater, fr, re, d.used, d.base)
  <2>1. \A a, b \in Calls : re[a] = re[b] => a = b \/ re[a] = 0
    BY <1>a, <1>c DEF Sound
  <2>2. \A a \in Calls : re[a] > 0 => re[a] \notin fr /\ re[a] \notin d.used /\ re[a] <= d.highWater
    BY <1>a, <1>c, <1>d DEF Sound
  <2>3. \A n \in fr : n \notin d.used /\ 1 <= n /\ n <= d.highWater
    BY <1>a, <1>c, <1>d DEF Sound
  <2>4. \A n \in 1..d.highWater :
           n <= d.base \/ n \in fr \/ n \in d.used \/ \E a \in Calls : re[a] = n
    <3> SUFFICES ASSUME NEW n \in 1..d.highWater, NEW a \in Calls, d.reserved[a] = n
                 PROVE  n \in fr \/ re[a] = n
      BY <1>c DEF Sound
    <3> QED BY <1>a
  <2> QED BY <1>c, <2>1, <2>2, <2>3, <2>4 DEF Sound
<1>2. Consistent(e)
  <2> HIDE DEF e, fr, re
  <2> QED BY <1>b, <1>1, ConsistentIsSound DEF Parts
<1>3. \A b \in Calls : re[b] \in {0, d.reserved[b]} /\ (b \notin A => re[b] = d.reserved[b])
  OBVIOUS
<1> QED BY <1>b, <1>d, <1>2, <1>3 DEF Parts

\* The floor only ever skips numbers below it.
LEMMA FloorSound ==
    ASSUME NEW d \in Docs, Consistent(d), NEW floor \in Nat
    PROVE  /\ Consistent(applyFloor(d, floor))
           /\ applyFloor(d, floor).used = d.used
           /\ applyFloor(d, floor).reserved = d.reserved
<1> DEFINE hw == IF floor > d.highWater THEN floor ELSE d.highWater
           ba == IF floor > d.base THEN floor ELSE d.base
           fr == {n \in d.free : n > floor}
           e == applyFloor(d, floor)
<1>a. /\ d.highWater \in Nat /\ d.free \in SUBSET Nat
      /\ d.reserved \in [Calls -> Nat]
      /\ d.used \in SUBSET Nat /\ d.base \in Nat
  BY DocParts
<1>b. e \in Docs /\ Parts(e, hw, fr, d.reserved, d.used, ba)
  BY FloorParts
<1>c. Sound(d.highWater, d.free, d.reserved, d.used, d.base)
  BY ConsistentIsSound
<1>1. Sound(hw, fr, d.reserved, d.used, ba)
  <2>1. hw \in Nat /\ d.highWater <= hw /\ (hw = d.highWater \/ hw = floor)
    BY <1>a
  <2>2. ba \in Nat /\ floor <= ba /\ d.base <= ba
    BY <1>a
  <2>3. fr \subseteq d.free /\ \A n \in d.free : n > floor => n \in fr
    OBVIOUS
  <2> HIDE DEF hw, ba, fr
  <2>4. \A n \in 1..hw :
           n <= ba \/ n \in fr \/ n \in d.used \/ \E a \in Calls : d.reserved[a] = n
    <3> SUFFICES ASSUME NEW n \in 1..hw, n > ba
                 PROVE  n \in fr \/ n \in d.used \/ \E a \in Calls : d.reserved[a] = n
      BY <2>1, <2>2
    <3>1. n \in 1..d.highWater /\ n > d.base /\ n > floor
      BY <1>a, <2>1, <2>2
    <3> QED BY <1>a, <1>c, <2>3, <3>1 DEF Sound
  <2>5. \A a \in Calls : d.reserved[a] > 0 => d.reserved[a] <= hw
    BY <1>a, <1>c, <2>1 DEF Sound
  <2>6. \A n \in fr \cup d.used : 1 <= n /\ n <= hw
    BY <1>a, <1>c, <2>1, <2>3 DEF Sound
  <2> QED BY <1>a, <1>c, <2>3, <2>4, <2>5, <2>6 DEF Sound
<1>2. Consistent(e)
  <2> HIDE DEF e, hw, ba, fr
  <2> QED BY <1>b, <1>1, ConsistentIsSound DEF Parts
<1> QED BY <1>b, <1>2 DEF Parts

\* The number IsNext picks is nobody's.
LEMMA ReserveSound ==
    ASSUME NEW d \in Docs, Consistent(d), NEW a \in Calls, d.reserved[a] = 0,
           NEW n \in 1..(d.highWater + 1), IsNext(d, n)
    PROVE  /\ Consistent(reserve(d, a, n))
           /\ reserve(d, a, n).used = d.used
           /\ reserve(d, a, n).reserved = [d.reserved EXCEPT ![a] = n]
<1> DEFINE hw == IF n > d.highWater THEN n ELSE d.highWater
           fr == d.free \ {n}
           re == [d.reserved EXCEPT ![a] = n]
           e == reserve(d, a, n)
<1>a. /\ d.highWater \in Nat /\ d.free \in SUBSET Nat
      /\ d.reserved \in [Calls -> Nat]
      /\ d.used \in SUBSET Nat /\ d.base \in Nat /\ n \in Nat /\ n > 0
  BY DocParts
<1>b. e \in Docs /\ Parts(e, hw, fr, re, d.used, d.base)
  BY <1>a, ReserveParts
<1>c. Sound(d.highWater, d.free, d.reserved, d.used, d.base)
  BY ConsistentIsSound
<1>1. n \notin d.used /\ \A b \in Calls : d.reserved[b] # n
  BY <1>a, <1>c DEF Sound, IsNext
<1>2. Sound(hw, fr, re, d.used, d.base)
  <2>1. hw \in Nat /\ d.highWater <= hw /\ n <= hw /\ \A m \in 1..hw : m \in 1..d.highWater \/ m = n
    BY <1>a
  <2>2. re[a] = n /\ \A b \in Calls \ {a} : re[b] = d.reserved[b]
    BY <1>a
  <2> HIDE DEF hw, re
  <2>3. \A b, c \in Calls : re[b] = re[c] => b = c \/ re[b] = 0
    BY <1>a, <1>c, <1>1, <2>2 DEF Sound
  <2>4. \A b \in Calls : re[b] > 0 => re[b] \notin fr /\ re[b] \notin d.used /\ re[b] <= hw
    BY <1>a, <1>c, <1>1, <2>1, <2>2 DEF Sound
  <2>5. \A m \in fr : m \notin d.used /\ 1 <= m /\ m <= hw
    BY <1>a, <1>c, <2>1 DEF Sound
  <2>6. \A m \in d.used : 1 <= m /\ m <= hw
    BY <1>a, <1>c, <2>1 DEF Sound
  <2>7. \A m \in 1..hw : m <= d.base \/ m \in fr \/ m \in d.used \/ \E b \in Calls : re[b] = m
    <3> SUFFICES ASSUME NEW m \in 1..hw, m # n
                 PROVE  m <= d.base \/ m \in fr \/ m \in d.used \/ \E b \in Calls : re[b] = m
      BY <2>2
    <3>1. m \in 1..d.highWater
      BY <2>1
    <3>2. ASSUME NEW b \in Calls, d.reserved[b] = m PROVE re[b] = m
      BY <3>2, <3>1, <2>2, <1>a
    <3> QED BY <1>c, <3>1, <3>2 DEF Sound
  <2> QED BY <2>3, <2>4, <2>5, <2>6, <2>7 DEF Sound
<1>3. Consistent(e)
  <2> HIDE DEF e, hw, fr, re
  <2> QED BY <1>b, <1>2, ConsistentIsSound DEF Parts
<1> QED BY <1>b, <1>3 DEF Parts

\* confirm() moves a reserved number to the used ones, release() to the pool.
LEMMA SettleSound ==
    ASSUME NEW d \in Docs, Consistent(d), NEW a \in Calls, d.reserved[a] > 0
    PROVE  /\ Consistent(consumed(d, a)) /\ Consistent(pooled(d, a))
           /\ consumed(d, a).used = d.used \cup {d.reserved[a]}
           /\ pooled(d, a).used = d.used
           /\ consumed(d, a).reserved = [d.reserved EXCEPT ![a] = 0]
           /\ pooled(d, a).reserved = [d.reserved EXCEPT ![a] = 0]
<1> DEFINE k == d.reserved[a]
           re == [d.reserved EXCEPT ![a] = 0]
           us == d.used \cup {k}
           fr == d.free \cup {k}
           c == consumed(d, a)
           p == pooled(d, a)
<1>a. /\ d.highWater \in Nat /\ d.free \in SUBSET Nat
      /\ d.reserved \in [Calls -> Nat]
      /\ d.used \in SUBSET Nat /\ d.base \in Nat /\ k \in Nat /\ k > 0
  BY DocParts
<1>b. c \in Docs /\ Parts(c, d.highWater, d.free, re, us, d.base)
  BY ConsumedParts
<1>c. p \in Docs /\ Parts(p, d.highWater, fr, re, d.used, d.base)
  BY PooledParts
<1>d. Sound(d.highWater, d.free, d.reserved, d.used, d.base)
  BY ConsistentIsSound
<1>e. re[a] = 0 /\ \A b \in Calls \ {a} : re[b] = d.reserved[b] /\ re[b] # k
  BY <1>a, <1>d DEF Sound
<1>f. k \notin d.used /\ k \notin d.free /\ 1 <= k /\ k <= d.highWater
  BY <1>a, <1>d DEF Sound
<1>g. \A n \in 1..d.highWater :
         n <= d.base \/ n \in d.free \/ n \in d.used \/ n = k \/ \E b \in Calls : re[b] = n
  <2> SUFFICES ASSUME NEW n \in 1..d.highWater, NEW b \in Calls, d.reserved[b] = n, n # k
               PROVE  re[b] = n
    BY <1>d DEF Sound
  <2> QED BY <1>e
<1>h. d.reserved[a] = k
  OBVIOUS
<1> HIDE DEF k, re
<1>i. \A b, u \in Calls : re[b] = re[u] => b = u \/ re[b] = 0
  BY <1>a, <1>d, <1>e DEF Sound
<1>1. Sound(d.highWater, d.free, re, us, d.base)
  BY <1>a, <1>d, <1>e, <1>f, <1>g, <1>i DEF Sound
<1>2. Sound(d.highWater, fr, re, d.used, d.base)
  BY <1>a, <1>d, <1>e, <1>f, <1>g, <1>i DEF Sound
<1>3. Consistent(c) /\ Consistent(p)
  <2> HIDE DEF c, p, us, fr
  <2> QED BY <1>b, <1>c, <1>1, <1>2, ConsistentIsSound DEF Parts
<1> QED BY <1>b, <1>c, <1>3 DEF Parts, k, re

LEMMA EmptySound == emptyDoc \in Docs /\ Consistent(emptyDoc)
<1>1. emptyDoc \in Docs
  BY DEF emptyDoc, Docs
<1>2. Sound(0, {}, [a \in Calls |-> 0], {}, 0)
  BY DEF Sound
<1>3. Parts(emptyDoc, 0, {}, [a \in Calls |-> 0], {}, 0)
  BY DEF emptyDoc, Parts
<1> QED BY <1>1, <1>2, <1>3, ConsistentIsSound DEF Parts

------------------------------------------------------------------------------
(***************************************************************************)
(* The inductive invariant.                                                *)
(***************************************************************************)
\* The state a caller is in while its write is on the way.
Waits(op) == IF op = "allocate" THEN "allocating"
             ELSE IF op = "confirm" THEN "confirming" ELSE "releasing"

\* A reservation is still good: neither its lease nor its process is gone.
Fresh(a) == a \notin lapsed /\ Alive(a)

\* Document d knows what the caller a of an operation op waits to be told.
Records(d, a, op) ==
    /\ op = "allocate" /\ Fresh(a) => d.reserved[a] = seq[a]
    /\ op = "confirm" => seq[a] \in d.used

\* Document d knows what caller a was told.
Backs(d, a) ==
    /\ call[a] = "kept" => seq[a] \in d.used
    /\ call[a] = "held" /\ Fresh(a) => d.reserved[a] = seq[a]

\* A number is assigned with the call, and a document knows a call under no
\* other number.
Numbered ==
    \A a \in Calls :
       /\ call[a] = "idle" <=> seq[a] = 0
       /\ doc.reserved[a] \in {0, seq[a]}
       /\ disk.reserved[a] \in {0, seq[a]}
       /\ \A i \in 1..Len(writes) : writes[i].doc.reserved[a] \in {0, seq[a]}

\* A queued write has a caller that waits for it alone, and it and all later
\* documents know what that caller waits to be told.
Queueing ==
    /\ ~up => writes = <<>>
    /\ \A i \in 1..Len(writes), a \in Calls, op \in Ops :
          writes[i].caller = <<a, op>> =>
             /\ call[a] = Waits(op)
             /\ Records(doc, a, op)
             /\ \A j \in i..Len(writes) : Records(writes[j].doc, a, op)
             /\ \A j \in 1..Len(writes), o \in Ops : writes[j].caller = <<a, o>> => i = j

\* What a caller was told is in the file, in every write on its way to it
\* and, while the server runs, in memory.
Backing ==
    \A a \in Calls :
       /\ call[a] = "confirming" => up /\ seq[a] \in doc.used
       /\ Backs(disk, a)
       /\ \A i \in 1..Len(writes) : Backs(writes[i].doc, a)
       /\ up => Backs(doc, a)

\* No two callers own one number.
OwnersDiffer ==
    \A a, b \in Calls : Owns(a) /\ Owns(b) /\ seq[a] = seq[b] => a = b

\* Documents are consistent whatever the rest does; the promise needs the
\* other four.
IdInv == TypeOK /\ DocumentsConsistent /\ Numbered /\ Queueing /\ Backing /\ OwnersDiffer

Snapshots == [doc: Docs, caller: Calls \X Ops \cup {<<>>}]

\* persist() puts one snapshot behind the others.
LEMMA PersistFacts ==
    ASSUME writes \in Seq(Snapshots), NEW d \in Docs,
           NEW c \in Calls \X Ops \cup {<<>>}, persist(d, c)
    PROVE  /\ writes' \in Seq(Snapshots)
           /\ Len(writes) \in Nat /\ Len(writes') = Len(writes) + 1
           /\ \A i \in 1..Len(writes) : writes'[i] = writes[i]
           /\ writes'[Len(writes) + 1].doc = d /\ writes'[Len(writes) + 1].caller = c
<1> DEFINE e == [doc |-> d, caller |-> c]
<1>1. e \in Snapshots /\ e.doc = d /\ e.caller = c
  BY DEF Snapshots
<1>2. writes' = Append(writes, e)
  BY DEF persist
<1> HIDE DEF e
<1> QED BY <1>1, <1>2, AppendProperties, LenProperties

\* A settled write leaves the others in their order.
LEMMA SettleFacts ==
    ASSUME writes \in Seq(Snapshots), writes # <<>>, writes' = Tail(writes)
    PROVE  /\ writes' \in Seq(Snapshots)
           /\ Len(writes) \in Nat /\ Len(writes) > 0 /\ Len(writes') = Len(writes) - 1
           /\ \A i \in 1..Len(writes') : writes'[i] = writes[i + 1] /\ i + 1 \in 1..Len(writes)
           /\ Head(writes) = writes[1] /\ writes[1] \in Snapshots
<1>1. /\ Head(writes) \in Snapshots /\ Tail(writes) \in Seq(Snapshots)
      /\ Len(Tail(writes)) = Len(writes) - 1
      /\ \A i \in 1..Len(Tail(writes)) : Tail(writes)[i] = writes[i + 1]
  BY HeadTailProperties
<1>2. Len(writes) \in Nat /\ Len(writes) # 0
  BY LenProperties, EmptySeq
<1>3. Head(writes) = writes[1]
  OBVIOUS
<1> QED BY <1>1, <1>2, <1>3

LEMMA TypeUnfold ==
    TypeOK <=> /\ doc \in Docs /\ disk \in Docs /\ writes \in Seq(Snapshots)
               /\ call \in [Calls -> CallStates] /\ seq \in [Calls -> Nat]
               /\ lapsed \in SUBSET Calls /\ dead \in SUBSET Pids
               /\ up \in BOOLEAN /\ crashes \in Nat
BY DEF TypeOK, Snapshots

LEMMA InitIdInv == Init => IdInv
<1> SUFFICES ASSUME Init PROVE IdInv
  OBVIOUS
<1> USE EmptySound DEF Init
<1>1. Len(writes) = 0 /\ writes \in Seq(Snapshots)
  BY EmptySeq
<1>2. TypeOK
  BY <1>1, TypeUnfold DEF CallStates
<1>3. DocumentsConsistent
  BY <1>1 DEF DocumentsConsistent
<1>4. \A a \in Calls : emptyDoc.reserved[a] = 0
  BY DEF emptyDoc
<1>5. Numbered
  <2>1. \A a \in Calls : call[a] = "idle" /\ seq[a] = 0
    OBVIOUS
  <2>2. \A a \in Calls : doc.reserved[a] = 0 /\ disk.reserved[a] = 0
    BY <1>4
  <2>3. 1..Len(writes) = {}
    BY <1>1
  <2> QED BY <2>1, <2>2, <2>3 DEF Numbered
<1>6. Queueing /\ Backing /\ OwnersDiffer
  BY <1>1 DEF Queueing, Backing, OwnersDiffer, Backs, Owns
<1> QED BY <1>2, <1>3, <1>5, <1>6 DEF IdInv

\* A step that persists for caller a: memory moves on to d, which forgets no
\* used number and no reservation of another that is still good.
Advances(d, a) ==
    /\ doc.used \subseteq d.used
    /\ \A b \in Calls \ {a} : Fresh(b) => d.reserved[b] = doc.reserved[b]

\* Such a step keeps the documents and the queue in order (allocate, confirm
\* and release, up to persist()).
LEMMA PersistInv ==
    ASSUME IdInv, up, NEW d \in Docs, Consistent(d), NEW a \in Calls, NEW op \in Ops,
           doc' = d, persist(d, <<a, op>>), call' = [call EXCEPT ![a] = Waits(op)],
           UNCHANGED <<disk, lapsed, dead, up, crashes>>,
           call[a] = IF op = "allocate" THEN "idle" ELSE "held",
           seq' \in [Calls -> Nat], seq'[a] > 0,
           \A b \in Calls : b # a \/ op # "allocate" => seq'[b] = seq[b],
           Advances(d, a), \A b \in Calls : d.reserved[b] \in {0, seq'[b]},
           op = "allocate" => d.reserved[a] = seq'[a],
           op = "confirm" => seq'[a] \in d.used
    PROVE  TypeOK' /\ DocumentsConsistent' /\ Numbered' /\ Queueing' /\ Backing'
<1> DEFINE L == Len(writes)
<1>a. /\ doc \in Docs /\ disk \in Docs /\ writes \in Seq(Snapshots)
      /\ call \in [Calls -> CallStates] /\ seq \in [Calls -> Nat]
  BY TypeUnfold DEF IdInv
<1>b. /\ writes' \in Seq(Snapshots) /\ L \in Nat /\ Len(writes') = L + 1
      /\ \A i \in 1..L : writes'[i] = writes[i]
      /\ writes'[L + 1].doc = d /\ writes'[L + 1].caller = <<a, op>>
  BY <1>a, PersistFacts
<1>c. \A i \in 1..Len(writes') : i \in 1..L \/ i = L + 1
  BY <1>b
<1>d. /\ call'[a] = Waits(op) /\ Waits(op) \in {"allocating", "confirming", "releasing"}
      /\ \A b \in Calls \ {a} : call'[b] = call[b]
      /\ \A b \in Calls : (Fresh(b)' <=> Fresh(b))
  BY <1>a DEF Waits, Fresh, Alive
<1>e. \A i \in 1..L, b \in Calls, o \in Ops : writes[i].caller = <<b, o>> => b # a
  <2> SUFFICES ASSUME NEW i \in 1..L, NEW o \in Ops, writes[i].caller = <<a, o>> PROVE FALSE
    OBVIOUS
  <2>1. call[a] = Waits(o)
    BY DEF IdInv, Queueing
  <2> QED BY <2>1 DEF Waits
<1>f. op = "allocate" => seq[a] = 0
  BY DEF IdInv, Numbered
<1>g. /\ \A j \in 1..(L + 1) : j \in 1..L \/ j = L + 1
      /\ \A i \in 1..L : \A j \in i..(L + 1) : j \in i..L \/ j = L + 1
  <2>1. L \in Nat
    BY <1>b
  <2> HIDE DEF L
  <2> QED BY <2>1
<1>1. TypeOK'
  <2>1. call' \in [Calls -> CallStates]
    BY <1>a DEF Waits, CallStates
  <2> QED BY <1>a, <1>b, <2>1 DEF IdInv, TypeOK, Snapshots, Pids
<1>2. DocumentsConsistent'
  BY <1>b, <1>c DEF IdInv, DocumentsConsistent
<1>3. Numbered'
  <2> SUFFICES ASSUME NEW b \in Calls
               PROVE  /\ call'[b] = "idle" <=> seq'[b] = 0
                      /\ doc'.reserved[b] \in {0, seq'[b]}
                      /\ disk'.reserved[b] \in {0, seq'[b]}
                      /\ \A i \in 1..Len(writes') : writes'[i].doc.reserved[b] \in {0, seq'[b]}
    BY DEF Numbered
  <2>1. call'[b] = "idle" <=> seq'[b] = 0
    BY <1>a, <1>d DEF IdInv, Numbered
  <2>2. ASSUME NEW n \in {0, seq[b]} PROVE n \in {0, seq'[b]}
    BY <1>a, <1>f, <2>2
  <2>3. disk.reserved[b] \in {0, seq'[b]} /\ \A i \in 1..L : writes[i].doc.reserved[b] \in {0, seq'[b]}
    BY <2>2 DEF IdInv, Numbered
  <2> QED BY <1>b, <1>c, <2>1, <2>3
<1>4. Queueing'
  <2>1. ASSUME NEW i \in 1..L, NEW b \in Calls, NEW o \in Ops, writes[i].caller = <<b, o>>
        PROVE  /\ call'[b] = Waits(o)
               /\ Records(d, b, o)'
               /\ \A j \in i..(L + 1) : Records(writes[j].doc, b, o)'
               /\ \A j \in 1..(L + 1), u \in Ops : writes'[j].caller = <<b, u>> => i = j
    <3>1. b # a
      BY <1>e, <2>1
    <3>2. call[b] = Waits(o) /\ Records(doc, b, o) /\ \A j \in i..L : Records(writes[j].doc, b, o)
      BY <2>1 DEF IdInv, Queueing
    <3>3. \A j \in 1..L, u \in Ops : writes[j].caller = <<b, u>> => i = j
      BY <2>1 DEF IdInv, Queueing
    <3>4. Records(d, b, o)'
      BY <1>d, <3>1, <3>2 DEF Records, Advances
    <3>5. ASSUME NEW j \in i..(L + 1) PROVE Records(writes[j].doc, b, o)'
      <4>1. CASE j = L + 1
        BY <1>b, <3>4, <4>1
      <4>2. CASE j \in i..L
        <5>1. Records(writes[j].doc, b, o) /\ writes'[j] = writes[j]
          BY <1>b, <3>2, <4>2
        <5> QED BY <1>d, <3>1, <5>1 DEF Records
      <4> QED BY <1>g, <4>1, <4>2
    <3>6. ASSUME NEW j \in 1..(L + 1), NEW u \in Ops, writes'[j].caller = <<b, u>> PROVE i = j
      <4>1. j # L + 1
        BY <1>b, <3>1, <3>6
      <4>2. j \in 1..L /\ writes'[j] = writes[j]
        BY <1>b, <1>g, <4>1
      <4> QED BY <3>3, <3>6, <4>2
    <3> QED BY <1>d, <3>1, <3>2, <3>4, <3>5, <3>6
  <2>2. Records(d, a, op)'
    BY DEF Records
  <2>3. ASSUME NEW j \in 1..(L + 1), NEW u \in Ops, writes'[j].caller = <<a, u>> PROVE j = L + 1
    BY <1>b, <1>c, <1>e, <2>3
  <2>4. ASSUME NEW i \in 1..Len(writes'), NEW b \in Calls, NEW o \in Ops, writes'[i].caller = <<b, o>>
        PROVE  /\ call'[b] = Waits(o)
               /\ Records(doc, b, o)'
               /\ \A j \in i..Len(writes') : Records(writes[j].doc, b, o)'
               /\ \A j \in 1..Len(writes'), u \in Ops : writes'[j].caller = <<b, u>> => i = j
    <3>1. CASE i \in 1..L
      BY <1>b, <2>1, <2>4, <3>1
    <3>2. CASE i = L + 1
      <4>1. b = a /\ o = op
        BY <1>b, <2>4, <3>2
      <4>2. \A j \in i..Len(writes') : writes'[j].doc = d
        BY <1>b, <3>2
      <4> QED BY <1>b, <1>d, <2>2, <2>3, <3>2, <4>1, <4>2
    <3> QED BY <1>c, <3>1, <3>2
  <2> QED BY <2>4 DEF Queueing
<1>5. Backing'
  <2> SUFFICES ASSUME NEW b \in Calls
               PROVE  /\ call'[b] = "confirming" => up' /\ seq'[b] \in doc'.used
                      /\ Backs(disk, b)'
                      /\ \A i \in 1..Len(writes') : Backs(writes[i].doc, b)'
                      /\ up' => Backs(doc, b)'
    BY DEF Backing
  <2>1. CASE b = a
    <3>1. call'[a] \notin {"kept", "held"}
      BY <1>d
    <3> QED BY <1>d, <2>1, <3>1 DEF Backs, Waits, Ops
  <2>2. CASE b # a
    <3>1. call'[b] = call[b] /\ seq'[b] = seq[b] /\ (Fresh(b)' <=> Fresh(b))
      BY <1>d, <2>2
    <3>2. /\ call[b] = "confirming" => seq[b] \in doc.used
          /\ Backs(disk, b) /\ Backs(doc, b) /\ \A i \in 1..L : Backs(writes[i].doc, b)
      BY DEF IdInv, Backing
    <3>3. Backs(d, b)'
      BY <2>2, <3>1, <3>2 DEF Backs, Advances
    <3>4. Backs(disk, b)' /\ \A i \in 1..L : Backs(writes[i].doc, b)'
      BY <1>b, <3>1, <3>2 DEF Backs
    <3>5. \A i \in 1..Len(writes') : Backs(writes[i].doc, b)'
      BY <1>b, <1>c, <3>3, <3>4
    <3> QED BY <3>1, <3>2, <3>3, <3>4, <3>5 DEF Advances
  <2> QED BY <2>1, <2>2
<1> QED BY <1>1, <1>2, <1>3, <1>4, <1>5

\* The sweep persists for nobody, and takes no reservation that is still good.
LEMMA SweepInv ==
    ASSUME IdInv, Sweep
    PROVE  TypeOK' /\ DocumentsConsistent' /\ Numbered' /\ Queueing' /\ Backing'
<1> DEFINE L == Len(writes)
           d == reclaimExpired(doc)
<1>a. /\ doc \in Docs /\ disk \in Docs /\ writes \in Seq(Snapshots)
      /\ call \in [Calls -> CallStates] /\ seq \in [Calls -> Nat] /\ up
  BY TypeUnfold DEF IdInv, Sweep
<1>b. /\ doc' = d /\ persist(d, <<>>) /\ UNCHANGED <<disk, call, seq, lapsed, dead, up, crashes>>
  BY DEF Sweep
<1>c. /\ d \in Docs /\ Consistent(d) /\ d.used = doc.used
      /\ \A b \in Calls : d.reserved[b] \in {0, doc.reserved[b]}
      /\ \A b \in Calls : Fresh(b) => d.reserved[b] = doc.reserved[b]
  BY <1>a, ReclaimParts, ReclaimSound DEF IdInv, DocumentsConsistent, Fresh
<1> HIDE DEF d
<1>d. /\ writes' \in Seq(Snapshots) /\ L \in Nat /\ Len(writes') = L + 1
      /\ \A i \in 1..L : writes'[i] = writes[i]
      /\ writes'[L + 1].doc = d /\ writes'[L + 1].caller = <<>>
  BY <1>a, <1>b, <1>c, PersistFacts
<1>e. /\ \A j \in 1..(L + 1) : j \in 1..L \/ j = L + 1
      /\ \A i \in 1..L : \A j \in i..(L + 1) : j \in i..L \/ j = L + 1
  <2>1. L \in Nat
    BY <1>d
  <2> HIDE DEF L
  <2> QED BY <2>1
<1>f. \A b \in Calls : Fresh(b)' <=> Fresh(b)
  BY <1>b DEF Fresh, Alive
<1>1. TypeOK'
  BY <1>a, <1>b, <1>c, <1>d DEF IdInv, TypeOK, Snapshots, Pids
<1>2. DocumentsConsistent'
  BY <1>b, <1>c, <1>d, <1>e DEF IdInv, DocumentsConsistent
<1>3. Numbered'
  <2>1. \A b \in Calls : doc.reserved[b] \in {0, seq[b]}
    BY DEF IdInv, Numbered
  <2>2. \A b \in Calls : d.reserved[b] \in {0, seq[b]}
    BY <1>c, <2>1
  <2> QED BY <1>b, <1>d, <1>e, <2>2 DEF IdInv, Numbered
<1>4. Queueing'
  <2> SUFFICES ASSUME NEW i \in 1..Len(writes'), NEW b \in Calls, NEW o \in Ops,
                      writes'[i].caller = <<b, o>>
               PROVE  /\ call'[b] = Waits(o)
                      /\ Records(doc, b, o)'
                      /\ \A j \in i..Len(writes') : Records(writes[j].doc, b, o)'
                      /\ \A j \in 1..Len(writes'), u \in Ops : writes'[j].caller = <<b, u>> => i = j
    BY <1>a, <1>b DEF Queueing
  <2>1. \A u \in Ops : <<>> # <<b, u>>
    OBVIOUS
  <2>2. i \in 1..L /\ writes[i].caller = <<b, o>>
    BY <1>d, <1>e, <2>1
  <2>3. call[b] = Waits(o) /\ Records(doc, b, o) /\ \A j \in i..L : Records(writes[j].doc, b, o)
    BY <2>2 DEF IdInv, Queueing
  <2>4. \A j \in 1..L, u \in Ops : writes[j].caller = <<b, u>> => i = j
    BY <2>2 DEF IdInv, Queueing
  <2>5. Records(doc, b, o)'
    BY <1>b, <1>c, <1>f, <2>3 DEF Records
  <2>6. ASSUME NEW j \in i..(L + 1) PROVE Records(writes[j].doc, b, o)'
    <3>1. CASE j = L + 1
      BY <1>b, <1>d, <2>5, <3>1 DEF Records
    <3>2. CASE j \in i..L
      <4>1. Records(writes[j].doc, b, o) /\ writes'[j] = writes[j]
        BY <1>d, <2>2, <2>3, <3>2
      <4> QED BY <1>b, <1>f, <4>1 DEF Records
    <3> QED BY <1>e, <2>2, <3>1, <3>2
  <2>7. ASSUME NEW j \in 1..(L + 1), NEW u \in Ops, writes'[j].caller = <<b, u>> PROVE i = j
    BY <1>d, <1>e, <2>1, <2>4, <2>7
  <2> QED BY <1>b, <1>d, <2>3, <2>5, <2>6, <2>7
<1>5. Backing'
  <2> SUFFICES ASSUME NEW b \in Calls
               PROVE  /\ call'[b] = "confirming" => up' /\ seq'[b] \in doc'.used
                      /\ Backs(disk, b)'
                      /\ \A i \in 1..Len(writes') : Backs(writes[i].doc, b)'
                      /\ up' => Backs(doc, b)'
    BY DEF Backing
  <2>1. /\ call[b] = "confirming" => seq[b] \in doc.used
        /\ Backs(disk, b) /\ Backs(doc, b) /\ \A i \in 1..L : Backs(writes[i].doc, b)
    BY <1>a DEF IdInv, Backing
  <2>2. Backs(doc, b)' /\ Backs(disk, b)'
    BY <1>b, <1>c, <1>f, <2>1 DEF Backs
  <2>3. \A i \in 1..L : Backs(writes[i].doc, b)'
    BY <1>b, <1>d, <1>f, <2>1 DEF Backs
  <2>4. \A i \in 1..Len(writes') : Backs(writes[i].doc, b)'
    <3> SUFFICES ASSUME NEW i \in 1..Len(writes') PROVE Backs(writes[i].doc, b)'
      OBVIOUS
    <3>1. CASE i \in 1..L
      BY <2>3, <3>1
    <3>2. CASE i = L + 1
      BY <1>b, <1>d, <2>2, <3>2 DEF Backs
    <3> QED BY <1>d, <1>e, <3>1, <3>2
  <2> QED BY <1>a, <1>b, <1>c, <2>1, <2>2, <2>4
<1> QED BY <1>1, <1>2, <1>3, <1>4, <1>5

\* The state a caller is left in when its write settles.
Told(op, ok) == IF ok /\ op = "allocate" THEN "held"
                ELSE IF ok /\ op = "confirm" THEN "kept" ELSE "over"

\* A settled write changes the state of the caller that waited for it only.
LEMMA AnsweredFacts ==
    ASSUME IdInv, NEW c \in Calls \X Ops \cup {<<>>}, NEW ok \in BOOLEAN, call' = Answered(c, ok)
    PROVE  \/ c = <<>> /\ call' = call
           \/ \E a \in Calls, op \in Ops :
                 c = <<a, op>> /\ call' = [call EXCEPT ![a] = Told(op, ok)]
<1>1. CASE c = <<>>
  BY <1>1 DEF Answered
<1>2. CASE c \in Calls \X Ops
  <2>1. PICK a \in Calls, op \in Ops : c = <<a, op>>
    BY <1>2
  <2>2. c # <<>> /\ c[1] = a /\ c[2] = op
    BY <2>1
  <2>3. call' = [call EXCEPT ![a] = Told(op, ok)]
    BY <2>2 DEF Answered, Told
  <2> QED BY <2>1, <2>3
<1> QED BY <1>1, <1>2

\* Writes settle in the order of the snapshots: what the file says after one
\* has landed is what its caller was told, and what every later one says.
LEMMA SettleInv ==
    ASSUME IdInv, up, writes # <<>>, writes' = Tail(writes), NEW ok \in BOOLEAN,
           call' = Answered(Head(writes).caller, ok),
           disk' = IF ok THEN Head(writes).doc ELSE disk,
           UNCHANGED <<doc, seq, lapsed, dead, up, crashes>>
    PROVE  TypeOK' /\ DocumentsConsistent' /\ Numbered' /\ Queueing' /\ Backing'
<1> DEFINE L == Len(writes)
           K == Len(writes')
<1>a. /\ doc \in Docs /\ disk \in Docs /\ writes \in Seq(Snapshots)
      /\ call \in [Calls -> CallStates] /\ seq \in [Calls -> Nat]
  BY TypeUnfold DEF IdInv
<1>b. /\ writes' \in Seq(Snapshots) /\ L \in Nat /\ L > 0 /\ K = L - 1
      /\ \A i \in 1..K : writes'[i] = writes[i + 1] /\ i + 1 \in 1..L
      /\ Head(writes) = writes[1] /\ writes[1] \in Snapshots
  BY <1>a, SettleFacts
<1>c. 1 \in 1..L /\ writes[1].doc \in Docs /\ writes[1].caller \in Calls \X Ops \cup {<<>>}
  BY <1>b DEF Snapshots
<1>d. /\ \A i \in 1..K : i + 1 # 1
      /\ \A i \in 1..K : \A j \in i..K : j \in 1..K /\ j + 1 \in (i + 1)..L
      /\ \A i, j \in 1..K : i + 1 = j + 1 => i = j
  <2>1. L \in Nat /\ K = L - 1
    BY <1>b
  <2> HIDE DEF L, K
  <2> QED BY <2>1
<1>e. \A b \in Calls : Fresh(b)' <=> Fresh(b)
  BY DEF Fresh, Alive
<1>f. \/ writes[1].caller = <<>> /\ call' = call
      \/ \E a \in Calls, op \in Ops :
            writes[1].caller = <<a, op>> /\ call' = [call EXCEPT ![a] = Told(op, ok)]
  BY <1>b, <1>c, AnsweredFacts
\* Nobody else's state changes, and the one told was waiting.
<1>g. ASSUME NEW b \in Calls, call'[b] # call[b]
      PROVE  \E op \in Ops : /\ writes[1].caller = <<b, op>> /\ call[b] = Waits(op)
                             /\ call'[b] = Told(op, ok)
  <2>1. PICK a \in Calls, op \in Ops :
           writes[1].caller = <<a, op>> /\ call' = [call EXCEPT ![a] = Told(op, ok)]
    BY <1>f, <1>g
  <2>2. a = b
    BY <1>a, <1>g, <2>1
  <2>3. call[a] = Waits(op)
    BY <1>c, <2>1 DEF IdInv, Queueing
  <2> QED BY <1>a, <2>1, <2>2, <2>3
<1>1. TypeOK'
  <2>1. call' \in [Calls -> CallStates]
    BY <1>a, <1>f DEF Told, CallStates
  <2>2. disk' \in Docs
    BY <1>a, <1>b, <1>c
  <2> QED BY <1>a, <1>b, <2>1, <2>2 DEF IdInv, TypeOK, Snapshots, Pids
<1>2. DocumentsConsistent'
  <2>1. Consistent(disk)' /\ Consistent(doc)'
    BY <1>b, <1>c DEF IdInv, DocumentsConsistent
  <2>2. \A i \in 1..K : Consistent(writes[i].doc)'
    BY <1>b DEF IdInv, DocumentsConsistent
  <2> QED BY <2>1, <2>2 DEF DocumentsConsistent
<1>3. Numbered'
  <2> SUFFICES ASSUME NEW b \in Calls
               PROVE  /\ call'[b] = "idle" <=> seq'[b] = 0
                      /\ doc'.reserved[b] \in {0, seq'[b]}
                      /\ disk'.reserved[b] \in {0, seq'[b]}
                      /\ \A i \in 1..K : writes'[i].doc.reserved[b] \in {0, seq'[b]}
    BY DEF Numbered
  <2>1. call'[b] = "idle" <=> call[b] = "idle"
    BY <1>g DEF Told, Waits
  <2>2. /\ call[b] = "idle" <=> seq[b] = 0
        /\ doc.reserved[b] \in {0, seq[b]} /\ disk.reserved[b] \in {0, seq[b]}
        /\ \A i \in 1..L : writes[i].doc.reserved[b] \in {0, seq[b]}
    BY DEF IdInv, Numbered
  <2> QED BY <1>b, <1>c, <2>1, <2>2
<1>4. Queueing'
  <2> SUFFICES ASSUME NEW i \in 1..K, NEW b \in Calls, NEW o \in Ops,
                      writes'[i].caller = <<b, o>>
               PROVE  /\ call'[b] = Waits(o)
                      /\ Records(doc, b, o)'
                      /\ \A j \in i..K : Records(writes[j].doc, b, o)'
                      /\ \A j \in 1..K, u \in Ops : writes'[j].caller = <<b, u>> => i = j
    BY DEF Queueing
  <2>1. i + 1 \in 1..L /\ writes[i + 1].caller = <<b, o>>
    BY <1>b
  <2>2. /\ call[b] = Waits(o) /\ Records(doc, b, o)
        /\ \A j \in (i + 1)..L : Records(writes[j].doc, b, o)
        /\ \A j \in 1..L, u \in Ops : writes[j].caller = <<b, u>> => i + 1 = j
    BY <2>1 DEF IdInv, Queueing
  <2>3. call'[b] = call[b]
    BY <1>c, <1>d, <1>g, <2>2
  <2>4. ASSUME NEW j \in i..K PROVE Records(writes[j].doc, b, o)'
    <3>1. j \in 1..K /\ j + 1 \in (i + 1)..L
      BY <1>d
    <3>2. Records(writes[j + 1].doc, b, o) /\ writes'[j] = writes[j + 1]
      BY <1>b, <2>2, <3>1
    <3> QED BY <1>e, <3>2 DEF Records
  <2>5. ASSUME NEW j \in 1..K, NEW u \in Ops, writes'[j].caller = <<b, u>> PROVE i = j
    <3>1. writes[j + 1].caller = <<b, u>> /\ j + 1 \in 1..L
      BY <1>b, <2>5
    <3> QED BY <1>d, <2>2, <3>1
  <2>6. Records(doc, b, o)'
    BY <1>e, <2>2 DEF Records
  <2> QED BY <2>2, <2>3, <2>4, <2>5, <2>6
<1>5. Backing'
  <2> SUFFICES ASSUME NEW b \in Calls
               PROVE  /\ call'[b] = "confirming" => up' /\ seq'[b] \in doc'.used
                      /\ Backs(disk, b)'
                      /\ \A i \in 1..K : Backs(writes[i].doc, b)'
                      /\ up' => Backs(doc, b)'
    BY DEF Backing
  <2>1. CASE call'[b] = call[b]
    <3>1. /\ call[b] = "confirming" => up /\ seq[b] \in doc.used
          /\ Backs(disk, b) /\ Backs(doc, b) /\ \A i \in 1..L : Backs(writes[i].doc, b)
      BY DEF IdInv, Backing
    <3>2. Backs(doc, b)' /\ Backs(disk, b)'
      BY <1>b, <1>c, <1>e, <2>1, <3>1 DEF Backs
    <3>3. ASSUME NEW i \in 1..K PROVE Backs(writes[i].doc, b)'
      <4>1. Backs(writes[i + 1].doc, b) /\ writes'[i] = writes[i + 1]
        BY <1>b, <3>1
      <4> QED BY <1>e, <2>1, <4>1 DEF Backs
    <3> QED BY <2>1, <3>1, <3>2, <3>3
  <2>2. CASE call'[b] # call[b]
    <3>1. PICK op \in Ops : /\ writes[1].caller = <<b, op>> /\ call[b] = Waits(op)
                            /\ call'[b] = Told(op, ok)
      BY <1>g, <2>2
    <3>2. Records(doc, b, op) /\ \A j \in 1..L : Records(writes[j].doc, b, op)
      BY <1>c, <3>1 DEF IdInv, Queueing
    <3>3. /\ call'[b] # "confirming"
          /\ call'[b] = "kept" => op = "confirm" /\ ok
          /\ call'[b] = "held" => op = "allocate" /\ ok
      BY <3>1 DEF Told
    <3>4. Backs(doc, b)'
      BY <1>e, <3>2, <3>3 DEF Records, Backs
    <3>5. Backs(disk, b)'
      BY <1>b, <1>c, <1>e, <3>2, <3>3 DEF Records, Backs
    <3>6. ASSUME NEW i \in 1..K PROVE Backs(writes[i].doc, b)'
      <4>1. Records(writes[i + 1].doc, b, op) /\ writes'[i] = writes[i + 1]
        BY <1>b, <3>2
      <4> QED BY <1>e, <3>3, <4>1 DEF Records, Backs
    <3> QED BY <3>3, <3>4, <3>5, <3>6
  <2> QED BY <2>1, <2>2
<1> QED BY <1>1, <1>2, <1>3, <1>4, <1>5

\* Steps that move neither memory, file nor writes: a caller gives up or is
\* refused, a lease lapses, a process dies.
LEMMA QuietInv ==
    ASSUME IdInv, UNCHANGED <<doc, disk, writes, seq, up, crashes>>,
           call' \in [Calls -> CallStates], lapsed' \in SUBSET Calls, dead' \in SUBSET Pids,
           \A b \in Calls : Fresh(b)' => Fresh(b),
           \A b \in Calls : call'[b] = call[b] \/ (call[b] = "held" /\ call'[b] = "over")
    PROVE  TypeOK' /\ DocumentsConsistent' /\ Numbered' /\ Queueing' /\ Backing'
<1>1. TypeOK'
  BY DEF IdInv, TypeOK, Pids
<1>2. DocumentsConsistent'
  BY DEF IdInv, DocumentsConsistent
<1>3. Numbered'
  BY DEF IdInv, Numbered
<1>4. \A b \in Calls, o \in Ops : call[b] = Waits(o) => call'[b] = Waits(o)
  BY DEF Waits
<1>6. Queueing'
  <2> SUFFICES ASSUME NEW i \in 1..Len(writes), NEW b \in Calls, NEW o \in Ops,
                      writes[i].caller = <<b, o>>
               PROVE  /\ call'[b] = Waits(o)
                      /\ Records(doc, b, o)'
                      /\ \A j \in i..Len(writes) : Records(writes[j].doc, b, o)'
                      /\ \A j \in 1..Len(writes), u \in Ops : writes[j].caller = <<b, u>> => i = j
    BY DEF Queueing, IdInv
  <2>1. /\ call[b] = Waits(o) /\ Records(doc, b, o)
        /\ \A j \in i..Len(writes) : Records(writes[j].doc, b, o)
        /\ \A j \in 1..Len(writes), u \in Ops : writes[j].caller = <<b, u>> => i = j
    BY DEF IdInv, Queueing
  <2> QED BY <1>4, <2>1 DEF Records
<1>7. Backing'
  BY DEF IdInv, Backing, Backs
<1> QED BY <1>1, <1>2, <1>3, <1>6, <1>7

\* A crash loses memory and the writes on their way, never what was told.
LEMMA CrashInv ==
    ASSUME IdInv, Crash
    PROVE  TypeOK' /\ DocumentsConsistent' /\ Numbered' /\ Queueing' /\ Backing'
<1>a. /\ doc \in Docs /\ disk \in Docs /\ writes \in Seq(Snapshots) /\ crashes \in Nat
      /\ call \in [Calls -> CallStates] /\ seq \in [Calls -> Nat]
  BY TypeUnfold DEF IdInv
<1>b. /\ up' = FALSE /\ writes' = <<>> /\ doc' = emptyDoc /\ crashes' = crashes + 1
      /\ UNCHANGED <<seq, lapsed, dead>>
  BY DEF Crash
<1>c. Len(writes') = 0 /\ writes' \in Seq(Snapshots)
  BY <1>b, EmptySeq
<1>d. disk' = disk \/ \E i \in 1..Len(writes) : disk' = writes[i].doc /\ writes[i] \in Snapshots
  <2>1. CASE writes # <<>> /\ disk' = Head(writes).doc
    <3>1. Len(writes) \in Nat \ {0}
      BY <1>a, <2>1, EmptySeq
    <3>2. Head(writes) = writes[1] /\ 1 \in 1..Len(writes) /\ writes[1] \in Snapshots
      BY <1>a, <3>1, LenProperties
    <3> QED BY <2>1, <3>2
  <2> QED BY <2>1 DEF Crash
<1>e. \A b \in Calls :
         /\ call'[b] = call[b] \/ (call[b] \in {"allocating", "confirming", "releasing"} /\ call'[b] = "over")
         /\ call'[b] # "confirming"
         /\ Fresh(b)' <=> Fresh(b)
  BY <1>a, <1>b DEF Crash, Fresh, Alive
<1>1. TypeOK'
  <2>1. disk' \in Docs
    BY <1>a, <1>d DEF Snapshots
  <2>2. call' \in [Calls -> CallStates]
    BY <1>a DEF Crash, CallStates
  <2>3. doc' \in Docs /\ crashes' \in Nat
    BY <1>a, <1>b, EmptySound
  <2>4. seq' \in [Calls -> Nat] /\ lapsed' \in SUBSET Calls /\ dead' \in SUBSET Pids
    BY <1>a, <1>b DEF IdInv, TypeOK
  <2>5. writes' \in Seq([doc: Docs, caller: Calls \X Ops \cup {<<>>}])
    BY <1>c DEF Snapshots
  <2>6. up' \in BOOLEAN
    BY <1>b
  <2> QED BY <2>1, <2>2, <2>3, <2>4, <2>5, <2>6 DEF TypeOK, Pids
<1>2. DocumentsConsistent'
  BY <1>b, <1>c, <1>d, EmptySound DEF IdInv, DocumentsConsistent
<1>3. Numbered'
  <2>1. \A b \in Calls : emptyDoc.reserved[b] = 0
    BY DEF emptyDoc
  <2>2. \A b \in Calls : disk'.reserved[b] \in {0, seq[b]}
    BY <1>d DEF IdInv, Numbered
  <2>3. \A b \in Calls : call'[b] = "idle" <=> call[b] = "idle"
    BY <1>e
  <2>4. \A b \in Calls : call[b] = "idle" <=> seq[b] = 0
    BY DEF IdInv, Numbered
  <2>5. 1..Len(writes') = {}
    BY <1>c
  <2> QED BY <1>b, <2>1, <2>2, <2>3, <2>4, <2>5 DEF Numbered
<1>4. Queueing'
  <2>1. 1..Len(writes') = {}
    BY <1>c
  <2> QED BY <1>b, <2>1 DEF Queueing
<1>5. Backing'
  <2>1. \A b \in Calls : Backs(disk, b)'
    <3> SUFFICES ASSUME NEW b \in Calls PROVE Backs(disk, b)'
      OBVIOUS
    <3>1. Backs(disk, b) /\ \A i \in 1..Len(writes) : Backs(writes[i].doc, b)
      BY DEF IdInv, Backing
    <3> QED BY <1>b, <1>d, <1>e, <3>1 DEF Backs
  <2>2. 1..Len(writes') = {}
    BY <1>c
  <2> QED BY <1>b, <1>e, <2>1, <2>2 DEF Backing
<1> QED BY <1>1, <1>2, <1>3, <1>4, <1>5

\* A restart reads back what callers were told.
LEMMA RestartInv ==
    ASSUME IdInv, Restart
    PROVE  TypeOK' /\ DocumentsConsistent' /\ Numbered' /\ Queueing' /\ Backing'
<1>a. writes = <<>> /\ Len(writes) = 0
  BY EmptySeq DEF IdInv, Queueing, Restart
<1>b. /\ doc' = disk /\ up' = TRUE /\ ~up
      /\ UNCHANGED <<disk, writes, call, seq, lapsed, dead, crashes>>
  BY DEF Restart
<1>c. 1..Len(writes) = {}
  BY <1>a
<1>1. TypeOK'
  BY <1>b DEF IdInv, TypeOK, Pids
<1>2. DocumentsConsistent' /\ Numbered'
  BY <1>b DEF IdInv, DocumentsConsistent, Numbered
<1>3. Queueing'
  BY <1>b, <1>c DEF Queueing
<1>4. Backing'
  BY <1>b, <1>c DEF IdInv, Backing, Backs, Fresh, Alive
<1> QED BY <1>1, <1>2, <1>3, <1>4

------------------------------------------------------------------------------
(***************************************************************************)
(* Ownership.                                                              *)
(***************************************************************************)

\* While the server runs, memory knows the number of every owner as used, or
\* as reserved by that owner.
LEMMA OwnedIsTaken ==
    ASSUME IdInv, up, NEW b \in Calls, Owns(b)
    PROVE  seq[b] > 0 /\ (seq[b] \in doc.used \/ doc.reserved[b] = seq[b])
<1>1. seq[b] \in Nat /\ seq[b] # 0
  BY DEF IdInv, TypeOK, Numbered, Owns
<1>2. seq[b] \in doc.used \/ doc.reserved[b] = seq[b]
  BY DEF IdInv, Backing, Backs, Owns, Fresh
<1> QED BY <1>1, <1>2

\* So a number that memory reserves for one caller is no other caller's.
LEMMA ReservedIsApart ==
    ASSUME IdInv, up, NEW a \in Calls, seq[a] > 0, doc.reserved[a] = seq[a],
           NEW b \in Calls, Owns(b), seq[a] = seq[b]
    PROVE  a = b
<1>1. Sound(doc.highWater, doc.free, doc.reserved, doc.used, doc.base)
  BY ConsistentIsSound DEF IdInv, TypeOK, DocumentsConsistent
<1>2. seq[b] \in doc.used \/ doc.reserved[b] = seq[b]
  BY OwnedIsTaken
<1>3. seq[a] \in Nat
  BY DEF IdInv, TypeOK
<1> QED BY <1>1, <1>2, <1>3 DEF Sound

\* Ownership that only shrinks keeps owners apart, and is a step of the
\* promise that loses what was not kept.
LEMMA LoseStep ==
    ASSUME IdInv, \A b \in Calls : Owns(b)' => Owns(b) /\ seq'[b] = seq[b], seq' \in [Calls -> Nat],
           \A b \in Calls : call'[b] = "kept" <=> call[b] = "kept"
    PROVE  OwnersDiffer' /\ [Promise!Next]_<<OwnedId, Keepers>>
<1>1. OwnersDiffer'
  BY DEF IdInv, OwnersDiffer
<1>2. Keepers' = Keepers
  BY DEF Keepers
<1> DEFINE S == {b \in Calls : Owns(b) /\ ~Owns(b)'}
<1>3. S \subseteq Calls \ Keepers
  BY DEF Keepers, Owns
<1>4. OwnedId' = [b \in Calls |-> IF b \in S THEN 0 ELSE OwnedId[b]]
  BY DEF OwnedId, Owns, Alive
<1>5. Promise!Lose(S)
  BY <1>2, <1>3, <1>4 DEF Promise!Lose
<1> QED BY <1>1, <1>3, <1>5 DEF Promise!Next

\* A caller that comes to own the number memory reserves for it obtains it.
LEMMA ObtainStep ==
    ASSUME IdInv, up, NEW a \in Calls, ~Owns(a), Owns(a)', doc.reserved[a] = seq[a], seq[a] > 0,
           seq' = seq, \A b \in Calls \ {a} : Owns(b)' <=> Owns(b),
           \A b \in Calls : call'[b] = "kept" <=> call[b] = "kept"
    PROVE  OwnersDiffer' /\ [Promise!Next]_<<OwnedId, Keepers>>
<1>a. \A b \in Calls : Owns(b) => seq[b] # seq[a]
  BY ReservedIsApart
<1>b. seq \in [Calls -> Nat]
  BY DEF IdInv, TypeOK
<1>1. OwnersDiffer'
  BY <1>a DEF IdInv, OwnersDiffer
<1>2. Keepers' = Keepers
  BY DEF Keepers
<1>3. OwnedId' = [OwnedId EXCEPT ![a] = seq[a]] /\ OwnedId[a] = 0
  BY DEF OwnedId, Owns, Alive
<1>4. OwnedId'[a] = seq[a]
  BY DEF OwnedId, Owns, Alive
<1>5. \A b \in Calls : OwnedId[b] # seq[a]
  BY <1>a, <1>b DEF OwnedId, Owns, Alive
<1>6. Promise!Obtain(a, seq[a])
  BY <1>2, <1>3, <1>5 DEF Promise!Obtain
<1> QED BY <1>1, <1>4, <1>6 DEF Promise!Next

\* A caller told that its confirm was written keeps what it owns.
LEMMA KeepStep ==
    ASSUME IdInv, NEW a \in Calls, call[a] = "confirming", call'[a] = "kept",
           \A b \in Calls \ {a} : call'[b] = call[b], UNCHANGED <<seq, lapsed, dead>>
    PROVE  OwnersDiffer' /\ [Promise!Next]_<<OwnedId, Keepers>>
<1>a. \A b \in Calls : Owns(b)' <=> Owns(b)
  BY DEF Owns, Alive
<1>1. OwnersDiffer'
  BY <1>a DEF IdInv, OwnersDiffer
<1>2. OwnedId' = OwnedId
  BY <1>a DEF OwnedId, Owns, Alive
<1>3. Keepers' = Keepers \cup {a}
  BY DEF Keepers
<1>4. OwnedId[a] > 0
  BY DEF OwnedId, Owns, Alive, IdInv, TypeOK, Numbered
<1>5. Promise!Keep(a)
  BY <1>2, <1>3, <1>4 DEF Promise!Keep
<1> QED BY <1>1, <1>5 DEF Promise!Next

\* Every step keeps the invariant, and is a step of the promise or none.
LEMMA NextIdInv == IdInv /\ [Next]_vars => IdInv' /\ [Promise!Next]_<<OwnedId, Keepers>>
<1> SUFFICES ASSUME IdInv, [Next]_vars PROVE IdInv' /\ [Promise!Next]_<<OwnedId, Keepers>>
  OBVIOUS
<1> DEFINE Docs5 == TypeOK /\ DocumentsConsistent /\ Numbered /\ Queueing /\ Backing
           Goal == OwnersDiffer' /\ [Promise!Next]_<<OwnedId, Keepers>>
<1> SUFFICES Docs5' /\ Goal
  BY DEF IdInv
<1>a. /\ doc \in Docs /\ call \in [Calls -> CallStates] /\ seq \in [Calls -> Nat]
      /\ lapsed \in SUBSET Calls /\ dead \in SUBSET Pids /\ Consistent(doc)
  BY DEF IdInv, TypeOK, DocumentsConsistent
<1>b. \A b \in Calls : /\ doc.reserved[b] \in {0, seq[b]} /\ doc.reserved[b] \in Nat
                       /\ call[b] = "idle" <=> seq[b] = 0
  BY <1>a, DocParts DEF IdInv, Numbered
<1>1. ASSUME NEW a \in Calls, NEW floor \in 0..MaxFloor, allocate(a, floor) PROVE Docs5' /\ Goal
  <2> DEFINE r == reclaimExpired(doc)
             d == applyFloor(r, floor)
  <2>1. PICK n \in 1..(d.highWater + 1) :
           /\ IsNext(d, n) /\ doc' = reserve(d, a, n) /\ seq' = [seq EXCEPT ![a] = n]
           /\ persist(reserve(d, a, n), <<a, "allocate">>)
    BY <1>1 DEF allocate
  <2>2. /\ up /\ call[a] = "idle" /\ call' = [call EXCEPT ![a] = "allocating"]
        /\ UNCHANGED <<disk, lapsed, dead, up, crashes>>
    BY <1>1 DEF allocate
  <2>3. floor \in Nat
    BY BoundsAssumption
  <2>4. /\ r \in Docs /\ Consistent(r) /\ r.used = doc.used
        /\ \A b \in Calls : r.reserved[b] \in {0, doc.reserved[b]}
        /\ \A b \in Calls : Fresh(b) => r.reserved[b] = doc.reserved[b]
    BY <1>a, ReclaimParts, ReclaimSound DEF Fresh
  <2> HIDE DEF r
  <2>5. d \in Docs /\ Consistent(d) /\ d.used = r.used /\ d.reserved = r.reserved
    BY <2>3, <2>4, FloorParts, FloorSound
  <2> HIDE DEF d
  <2>6. d.reserved[a] = 0 /\ d.reserved \in [Calls -> Nat] /\ n \in Nat /\ n > 0
    BY <1>b, <2>2, <2>4, <2>5, DocParts
  <2> DEFINE e == reserve(d, a, n)
  <2>7. /\ e \in Docs /\ Consistent(e) /\ e.used = d.used
        /\ e.reserved = [d.reserved EXCEPT ![a] = n]
    <3>1. IsNext(d, n)
      BY <2>1
    <3>2. e \in Docs
      BY <2>5, <2>6, ReserveParts
    <3>3. Consistent(e) /\ e.used = d.used /\ e.reserved = [d.reserved EXCEPT ![a] = n]
      BY <2>5, <2>6, <3>1, ReserveSound
    <3> QED BY <3>2, <3>3
  <2> HIDE DEF e
  <2>8. doc' = e /\ persist(e, <<a, "allocate">>)
    BY <2>1 DEF e
  <2>9. Advances(e, a)
    BY <2>4, <2>5, <2>6, <2>7 DEF Advances
  <2>10. /\ seq' \in [Calls -> Nat] /\ seq'[a] = n
         /\ \A b \in Calls : b # a => seq'[b] = seq[b]
    BY <1>a, <2>1, <2>6
  <2>11. \A b \in Calls : e.reserved[b] \in {0, seq'[b]}
    BY <1>b, <2>4, <2>5, <2>6, <2>7, <2>10
  <2>12. "allocate" \in Ops /\ Waits("allocate") = "allocating" /\ e.reserved[a] = seq'[a]
    BY <2>6, <2>7, <2>10 DEF Ops, Waits
  <2>13. call' = [call EXCEPT ![a] = Waits("allocate")]
    BY <2>2, <2>12
  <2>14. Docs5'
    BY <2>2, <2>6, <2>7, <2>8, <2>9, <2>10, <2>11, <2>12, <2>13, PersistInv
  <2>15. \A b \in Calls : /\ Owns(b)' => Owns(b) /\ seq'[b] = seq[b]
                          /\ call'[b] = "kept" <=> call[b] = "kept"
    BY <1>a, <2>2, <2>10 DEF Owns, Alive
  <2> QED BY <2>10, <2>14, <2>15, LoseStep
<1>2. ASSUME NEW a \in Calls, confirm(a) \/ release(a), doc.reserved[a] > 0 PROVE Docs5' /\ Goal
  <2>1. up /\ call[a] = "held" /\ Alive(a) /\ UNCHANGED <<disk, seq, lapsed, dead, up, crashes>>
    BY <1>2 DEF confirm, release
  <2>2. doc.reserved[a] = seq[a] /\ seq[a] > 0 /\ doc.reserved \in [Calls -> Nat]
    BY <1>a, <1>b, <1>2, DocParts
  <2>3. /\ consumed(doc, a) \in Docs /\ Consistent(consumed(doc, a))
        /\ consumed(doc, a).used = doc.used \cup {seq[a]}
        /\ consumed(doc, a).reserved = [doc.reserved EXCEPT ![a] = 0]
    <3>1. consumed(doc, a) \in Docs
      BY <1>a, ConsumedParts
    <3>2. /\ Consistent(consumed(doc, a))
          /\ consumed(doc, a).used = doc.used \cup {doc.reserved[a]}
          /\ consumed(doc, a).reserved = [doc.reserved EXCEPT ![a] = 0]
      BY <1>a, <1>2, SettleSound
    <3> QED BY <2>2, <3>1, <3>2
  <2>4. /\ pooled(doc, a) \in Docs /\ Consistent(pooled(doc, a))
        /\ pooled(doc, a).used = doc.used
        /\ pooled(doc, a).reserved = [doc.reserved EXCEPT ![a] = 0]
    BY <1>a, <1>2, <2>2, PooledParts, SettleSound
  <2>5. Advances(consumed(doc, a), a) /\ Advances(pooled(doc, a), a)
    BY <2>2, <2>3, <2>4 DEF Advances
  <2>6. \A b \in Calls : /\ consumed(doc, a).reserved[b] \in {0, seq[b]}
                         /\ pooled(doc, a).reserved[b] \in {0, seq[b]}
    BY <1>b, <2>2, <2>3, <2>4
  <2>7. /\ "confirm" \in Ops /\ "release" \in Ops
        /\ Waits("confirm") = "confirming" /\ Waits("release") = "releasing"
    BY DEF Ops, Waits
  <2>8. seq' \in [Calls -> Nat] /\ seq'[a] > 0 /\ \A b \in Calls : seq'[b] = seq[b]
    BY <1>a, <2>1, <2>2
  <2>9. CASE confirm(a)
    <3>1. /\ doc' = consumed(doc, a) /\ persist(consumed(doc, a), <<a, "confirm">>)
          /\ call' = [call EXCEPT ![a] = "confirming"]
      BY <1>2, <2>2, <2>9 DEF confirm
    <3> DEFINE e == consumed(doc, a)
    <3>2. seq'[a] \in e.used /\ e \in Docs /\ Consistent(e) /\ Advances(e, a)
      BY <2>1, <2>3, <2>5
    <3>3. \A b \in Calls : e.reserved[b] \in {0, seq'[b]}
      BY <2>6, <2>8
    <3>4. /\ call' = [call EXCEPT ![a] = Waits("confirm")]
          /\ doc' = e /\ persist(e, <<a, "confirm">>)
      BY <2>7, <3>1
    <3> HIDE DEF e
    <3>5. Docs5'
      BY <2>1, <2>7, <2>8, <3>2, <3>3, <3>4, PersistInv
    <3>6. /\ Owns(a)' /\ \A b \in Calls \ {a} : Owns(b)' <=> Owns(b)
          /\ \A b \in Calls : call'[b] = "kept" <=> call[b] = "kept"
      BY <1>a, <2>1, <3>1 DEF Owns, Alive
    <3>7. CASE Owns(a)
      BY <2>1, <2>8, <3>5, <3>6, <3>7, LoseStep
    <3>8. CASE ~Owns(a)
      BY <2>1, <2>2, <3>5, <3>6, <3>8, ObtainStep
    <3> QED BY <3>7, <3>8
  <2>10. CASE release(a)
    <3>1. /\ doc' = pooled(doc, a) /\ persist(pooled(doc, a), <<a, "release">>)
          /\ call' = [call EXCEPT ![a] = "releasing"]
      BY <1>2, <2>2, <2>10 DEF release
    <3> DEFINE e == pooled(doc, a)
    <3>2. e \in Docs /\ Consistent(e) /\ Advances(e, a)
      BY <2>1, <2>4, <2>5
    <3>3. \A b \in Calls : e.reserved[b] \in {0, seq'[b]}
      BY <2>6, <2>8
    <3>4. /\ call' = [call EXCEPT ![a] = Waits("release")]
          /\ doc' = e /\ persist(e, <<a, "release">>)
      BY <2>7, <3>1
    <3> HIDE DEF e
    <3>5. Docs5'
      BY <2>1, <2>7, <2>8, <3>2, <3>3, <3>4, PersistInv
    <3>6. \A b \in Calls : /\ Owns(b)' => Owns(b)
                           /\ call'[b] = "kept" <=> call[b] = "kept"
      BY <1>a, <2>1, <3>1 DEF Owns, Alive
    <3> QED BY <2>1, <2>8, <3>5, <3>6, LoseStep
  <2> QED BY <1>2, <2>9, <2>10
\* A caller gives up or is refused, a lease lapses, a process dies.
<1>3. ASSUME UNCHANGED <<doc, disk, writes, seq, up, crashes>>,
             call' \in [Calls -> CallStates], lapsed' \in SUBSET Calls, dead' \in SUBSET Pids,
             lapsed \subseteq lapsed', dead \subseteq dead',
             \A b \in Calls : call'[b] = call[b] \/ (call[b] = "held" /\ call'[b] = "over")
      PROVE  Docs5' /\ Goal
  <2>1. \A b \in Calls : Fresh(b)' => Fresh(b)
    BY <1>3 DEF Fresh, Alive
  <2>2. Docs5'
    BY <1>3, <2>1, QuietInv
  <2>3. \A b \in Calls : /\ Owns(b)' => Owns(b) /\ seq'[b] = seq[b]
                         /\ call'[b] = "kept" <=> call[b] = "kept"
    BY <1>3 DEF Owns, Alive
  <2>4. seq' \in [Calls -> Nat]
    BY <1>3, <1>a
  <2> QED BY <2>2, <2>3, <2>4, LoseStep
<1>4. ASSUME NEW a \in Calls, confirm(a) \/ release(a) \/ CallerGivesUp(a), ~(doc.reserved[a] > 0)
      PROVE  Docs5' /\ Goal
  <2>1. /\ UNCHANGED <<doc, disk, writes, seq, lapsed, dead, up, crashes>>
        /\ call[a] = "held" /\ call' = [call EXCEPT ![a] = "over"]
    BY <1>4, <1>b DEF confirm, release, CallerGivesUp
  <2>2. call' \in [Calls -> CallStates]
    BY <1>a, <2>1 DEF CallStates
  <2> QED BY <1>3, <1>a, <2>1, <2>2
<1>5. ASSUME NEW a \in Calls, CallerGivesUp(a) PROVE Docs5' /\ Goal
  <2>1. call' \in [Calls -> CallStates]
    BY <1>a, <1>5 DEF CallerGivesUp, CallStates
  <2> QED BY <1>3, <1>5, <1>a, <2>1 DEF CallerGivesUp
<1>6. ASSUME NEW a \in Calls, LeaseLapses(a) PROVE Docs5' /\ Goal
  BY <1>3, <1>6, <1>a DEF LeaseLapses
<1>7. ASSUME NEW p \in Pids, CallerDies(p) PROVE Docs5' /\ Goal
  BY <1>3, <1>7, <1>a DEF CallerDies
<1>8. ASSUME Sweep PROVE Docs5' /\ Goal
  <2>1. UNCHANGED <<call, seq, lapsed, dead>>
    BY <1>8 DEF Sweep
  <2>2. \A b \in Calls : /\ Owns(b)' => Owns(b) /\ seq'[b] = seq[b]
                         /\ call'[b] = "kept" <=> call[b] = "kept"
    BY <2>1 DEF Owns, Alive
  <2> QED BY <1>8, <1>a, <2>1, <2>2, SweepInv, LoseStep
<1>9. ASSUME NEW ok \in BOOLEAN, up, writes # <<>>, writes' = Tail(writes),
             call' = Answered(Head(writes).caller, ok),
             disk' = IF ok THEN Head(writes).doc ELSE disk,
             UNCHANGED <<doc, seq, lapsed, dead, up, crashes>>
      PROVE  Docs5' /\ Goal
  <2>1. Docs5'
    BY <1>9, SettleInv
  <2>2. Head(writes) = writes[1] /\ 1 \in 1..Len(writes) /\ Head(writes).caller \in Calls \X Ops \cup {<<>>}
    <3>1. writes \in Seq(Snapshots)
      BY DEF IdInv, TypeOK, Snapshots
    <3>2. /\ Len(writes) \in Nat /\ Len(writes) > 0
          /\ Head(writes) = writes[1] /\ writes[1] \in Snapshots
      BY <1>9, <3>1, SettleFacts
    <3> QED BY <3>2 DEF Snapshots
  <2>3. CASE call' = call
    <3>1. \A b \in Calls : /\ Owns(b)' => Owns(b) /\ seq'[b] = seq[b]
                           /\ call'[b] = "kept" <=> call[b] = "kept"
      BY <1>9, <2>3 DEF Owns, Alive
    <3> QED BY <1>9, <1>a, <2>1, <3>1, LoseStep
  <2>4. CASE \E a \in Calls, op \in Ops :
                Head(writes).caller = <<a, op>> /\ call' = [call EXCEPT ![a] = Told(op, ok)]
    <3>1. PICK a \in Calls, op \in Ops :
             Head(writes).caller = <<a, op>> /\ call' = [call EXCEPT ![a] = Told(op, ok)]
      BY <2>4
    <3>2. call[a] = Waits(op) /\ Records(doc, a, op)
      BY <2>2, <3>1 DEF IdInv, Queueing
    <3>3. call'[a] = Told(op, ok) /\ \A b \in Calls \ {a} : call'[b] = call[b]
      BY <1>a, <3>1
    <3>4. CASE ok /\ op = "confirm"
      <4>1. call[a] = "confirming" /\ call'[a] = "kept"
        BY <3>2, <3>3, <3>4 DEF Waits, Told
      <4> QED BY <1>9, <2>1, <3>3, <4>1, KeepStep
    <3>5. CASE ok /\ op = "allocate"
      <4>1. call[a] = "allocating" /\ call'[a] = "held"
        BY <3>2, <3>3, <3>5 DEF Waits, Told
      <4>2. /\ ~Owns(a) /\ (Owns(a)' => Fresh(a))
            /\ \A b \in Calls \ {a} : Owns(b)' <=> Owns(b)
            /\ \A b \in Calls : call'[b] = "kept" <=> call[b] = "kept"
        BY <1>9, <3>3, <4>1 DEF Owns, Fresh, Alive
      <4>3. CASE Owns(a)'
        <5>1. doc.reserved[a] = seq[a] /\ seq[a] > 0
          BY <1>a, <1>b, <3>2, <3>5, <4>1, <4>2, <4>3 DEF Records
        <5> QED BY <1>9, <2>1, <4>2, <4>3, <5>1, ObtainStep
      <4>4. CASE ~Owns(a)'
        <5>1. \A b \in Calls : Owns(b)' => Owns(b) /\ seq'[b] = seq[b]
          BY <1>9, <4>2, <4>4
        <5> QED BY <1>9, <1>a, <2>1, <4>2, <5>1, LoseStep
      <4> QED BY <4>3, <4>4
    <3>6. CASE Told(op, ok) = "over"
      <4>1. \A b \in Calls : /\ Owns(b)' => Owns(b) /\ seq'[b] = seq[b]
                             /\ call'[b] = "kept" <=> call[b] = "kept"
        BY <1>9, <3>2, <3>3, <3>6 DEF Owns, Alive, Waits
      <4> QED BY <1>9, <1>a, <2>1, <4>1, LoseStep
    <3> QED BY <3>4, <3>5, <3>6 DEF Told
  <2>5. PICK c \in Calls \X Ops \cup {<<>>} : c = Head(writes).caller
    BY <2>2
  <2>6. call' = Answered(c, ok)
    BY <1>9, <2>5
  <2>7. \/ call' = call
        \/ \E a \in Calls, op \in Ops :
              c = <<a, op>> /\ call' = [call EXCEPT ![a] = Told(op, ok)]
    BY <2>6, AnsweredFacts
  <2> HIDE DEF Docs5, Goal
  <2> QED BY <2>3, <2>4, <2>5, <2>7
<1>10. ASSUME Crash PROVE Docs5' /\ Goal
  <2>1. \A b \in Calls : /\ Owns(b)' => Owns(b) /\ seq'[b] = seq[b]
                         /\ call'[b] = "kept" <=> call[b] = "kept"
    BY <1>10, <1>a DEF Crash, Owns, Alive
  <2>2. seq' \in [Calls -> Nat]
    BY <1>10, <1>a DEF Crash
  <2> QED BY <1>10, <2>1, <2>2, CrashInv, LoseStep
<1>11. ASSUME Restart PROVE Docs5' /\ Goal
  <2>1. \A b \in Calls : /\ Owns(b)' => Owns(b) /\ seq'[b] = seq[b]
                         /\ call'[b] = "kept" <=> call[b] = "kept"
    BY <1>11 DEF Restart, Owns, Alive
  <2>2. seq' \in [Calls -> Nat]
    BY <1>11, <1>a DEF Restart
  <2> QED BY <1>11, <2>1, <2>2, RestartInv, LoseStep
<1>12. CASE UNCHANGED vars
  BY <1>3, <1>12, <1>a DEF vars
<1>13. CASE WriteLands
  BY <1>9, <1>13 DEF WriteLands
<1>14. CASE WriteFails
  BY <1>9, <1>14 DEF WriteFails
<1> HIDE DEF Docs5, Goal
<1>15. ASSUME NEW a \in Calls, confirm(a) \/ release(a) PROVE Docs5' /\ Goal
  BY <1>2, <1>4, <1>15
<1> QED
  BY <1>1, <1>5, <1>6, <1>7, <1>8, <1>10, <1>11, <1>12, <1>13, <1>14, <1>15 DEF Next

\* Type correctness of the allocator.
THEOREM AllocatorTypeCorrect == Spec => []TypeOK
<1>1. IdInv => TypeOK
  BY DEF IdInv
<1> QED BY InitIdInv, NextIdInv, <1>1, PTL DEF Spec

\* Memory, file and every snapshot between them stay consistent: no number
\* is reserved twice or pooled while reserved or used, and none is lost
\* (id-allocator.mjs, whatever writes fail and wherever a crash falls).
THEOREM DocumentsAlwaysConsistent == Spec => []DocumentsConsistent
<1>1. IdInv => DocumentsConsistent
  BY DEF IdInv
<1> QED BY InitIdInv, NextIdInv, <1>1, PTL DEF Spec

\* The allocator implements UniqueIds: a number has one owner at a time, and
\* one that was confirmed is its owner's for ever, through leases, failed
\* writes, crashes and restarts.
THEOREM AllocatorKeepsPromise == Spec => KeepsPromise
<1>1. Init => Promise!Init
  BY DEF Init, Promise!Init, OwnedId, Keepers, Owns, Alive
<1>2. Spec => []IdInv
  BY InitIdInv, NextIdInv, PTL DEF Spec
<1> QED BY <1>1, <1>2, NextIdInv, PTL DEF Spec, KeepsPromise, Promise!Spec
==============================================================================
