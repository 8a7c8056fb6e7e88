---------------------------- MODULE VirtioDriver ----------------------------
(***************************************************************************)
(* The inductive invariant of VirtioDisk, and what the steps of the driver *)
(* that a thread takes in virtio_disk_rw() do to it, for any queue size.   *)
(* First the lemmas it rests on: the rings, whose indices count modulo     *)
(* IdxMod while their slots count modulo NUM, and the allocation of        *)
(* descriptors.                                                            *)
(*                                                                         *)
(* The invariant says where a request in flight is: Linked ties the thread *)
(* that waits to its chain of descriptors, and InFlight says that each     *)
(* head on a ring or in the device belongs to such a thread, is in one     *)
(* place only, and shows the status of that place.                         *)
(***************************************************************************)
EXTENDS VirtioDisk, FiniteSetTheorems, WellFoundedInduction, TLAPS

USE ZenonT(10), SMTT(60)

\* The entries of a ring between the reader's index s and the writer's index a.
Gap(a, s) == IF a >= s THEN a - s ELSE a - s + IdxMod
Entry(r, s, k) == r[(s + k) % NUM]
Entries(r, s, a) == {Entry(r, s, k) : k \in 0 .. Gap(a, s) - 1}
Sound(r, s, a) ==
  /\ Gap(a, s) < NUM
  /\ \A j, k \in 0 .. Gap(a, s) - 1 : Entry(r, s, j) = Entry(r, s, k) => j = k

\* The ring after its writer put h at index a; after its reader took the entry at
\* index s; and the index after x.
Put(r, a, h) == [r EXCEPT ![a % NUM] = h]
Take(r, s) == [r EXCEPT ![s % NUM] = 0]
Succ(x) == (x + 1) % IdxMod

-----------------------------------------------------------------------------
(* Indices and slots of a ring *)

\* Division with remainder.
LEMMA ModDef ==
  ASSUME NEW x \in Int, NEW K \in Int, K > 0
  PROVE  x % K \in 0 .. K - 1 /\ \E q \in Int : x = K * q + (x % K)
<1>1. x = K * (x \div K) + (x % K) /\ x \div K \in Int /\ x % K \in 0 .. K - 1
  OBVIOUS
<1>2. PICK q \in Int : q = x \div K
  BY <1>1
<1> QED
  BY <1>1, <1>2

\* Quotient and remainder are unique.
LEMMA ModUnique ==
  ASSUME NEW K \in Int, K > 0, NEW q1 \in Int, NEW q2 \in Int,
         NEW r1 \in 0 .. K - 1, NEW r2 \in 0 .. K - 1, K * q1 + r1 = K * q2 + r2
  PROVE  r1 = r2 /\ q1 = q2
<1>1. CASE q1 >= q2 + 1
  <2>1. K * q1 >= K * (q2 + 1)
    BY <1>1
  <2>2. K * (q2 + 1) = K * q2 + K
    OBVIOUS
  <2> QED
    BY <2>1, <2>2
<1>2. CASE q2 >= q1 + 1
  <2>1. K * q2 >= K * (q1 + 1)
    BY <1>2
  <2>2. K * (q1 + 1) = K * q1 + K
    OBVIOUS
  <2> QED
    BY <2>1, <2>2
<1>3. CASE q1 = q2
  BY <1>3
<1> QED
  BY <1>1, <1>2, <1>3

\* The constants as integers; an index goes round the ring a whole number of times.
LEMMA RingSizes ==
  /\ NUM \in Int /\ NUM > 0 /\ IdxMod \in Int /\ IdxMod > 0 /\ NUM <= IdxMod
  /\ \E c \in Int : IdxMod = NUM * c
<1>1. NUM \in Int /\ NUM > 0 /\ IdxMod \in Int /\ IdxMod > 0
  BY RingAssumption
<1>2. PICK c \in Int : IdxMod = NUM * c
  <2>1. \E q \in Int : IdxMod = NUM * q + (IdxMod % NUM)
    BY <1>1, ModDef, ZenonT(60)
  <2> QED
    BY <1>1, <2>1, RingAssumption
<1>3. c >= 1
  <2> SUFFICES ASSUME c <= 0 PROVE FALSE
    OBVIOUS
  <2>1. NUM * c <= NUM * 0
    BY <1>1
  <2> QED
    BY <1>1, <1>2, <2>1
<1>4. NUM * c >= NUM * 1
  BY <1>1, <1>3
<1> QED
  BY <1>1, <1>2, <1>4

\* An index that wraps round leads to the same slot.
LEMMA SlotPeriod ==
  ASSUME NEW x \in Int
  PROVE  (x + IdxMod) % NUM = x % NUM /\ x % NUM \in Desc
<1>1. NUM \in Int /\ NUM > 0 /\ IdxMod \in Int
  BY RingSizes
<1>2. PICK c \in Int : IdxMod = NUM * c
  BY RingSizes
<1>3. PICK q \in Int : x = NUM * q + (x % NUM)
  BY <1>1, ModDef, ZenonT(60)
<1>4. PICK r1 \in 0 .. NUM - 1 : r1 = x % NUM
  BY <1>1, ModDef, ZenonT(60)
<1>5. PICK y \in Int : y = x + IdxMod
  BY <1>1
<1>6. PICK e \in Int : y = NUM * e + (y % NUM)
  BY <1>1, ModDef, ZenonT(60)
<1>7. PICK r2 \in 0 .. NUM - 1 : r2 = y % NUM
  BY <1>1, ModDef, ZenonT(60)
<1>8. PICK z \in Int : z = q + c
  OBVIOUS
<1>9. NUM * (q + c) = NUM * q + NUM * c
  BY <1>1
<1>10. NUM * z + r1 = NUM * e + r2
  BY <1>1, <1>2, <1>3, <1>4, <1>5, <1>6, <1>7, <1>8, <1>9
<1>11. r1 = r2
  BY <1>1, <1>10, ModUnique, ZenonT(60)
<1> QED
  BY <1>4, <1>5, <1>7, <1>11 DEF Desc

\* Fewer than NUM consecutive indices have different slots.
LEMMA SlotOnce ==
  ASSUME NEW x \in Int, NEW y \in Int, x <= y, y < x + NUM, x % NUM = y % NUM
  PROVE  x = y
<1>1. NUM \in Int /\ NUM > 0
  BY RingSizes
<1>2. PICK q \in Int : x = NUM * q + (x % NUM)
  BY <1>1, ModDef, ZenonT(60)
<1>3. PICK e \in Int : y = NUM * e + (y % NUM)
  BY <1>1, ModDef, ZenonT(60)
<1>4. PICK r \in 0 .. NUM - 1 : r = x % NUM
  BY <1>1, ModDef, ZenonT(60)
<1>5. x = NUM * q + r /\ y = NUM * e + r
  BY <1>2, <1>3, <1>4
<1>6. NUM * e - NUM * q >= 0 /\ NUM * e - NUM * q < NUM
  BY <1>1, <1>5
<1>7. CASE e >= q + 1
  <2>1. NUM * e >= NUM * (q + 1)
    BY <1>1, <1>7
  <2>2. NUM * (q + 1) = NUM * q + NUM
    BY <1>1
  <2> QED
    BY <1>1, <1>6, <2>1, <2>2
<1>8. CASE e <= q - 1
  <2>1. NUM * e <= NUM * (q - 1)
    BY <1>1, <1>8
  <2>2. NUM * (q - 1) = NUM * q - NUM
    BY <1>1
  <2> QED
    BY <1>1, <1>6, <2>1, <2>2
<1>9. CASE e = q
  BY <1>5, <1>9
<1> QED
  BY <1>7, <1>8, <1>9

\* The next index.
LEMMA NextIndex ==
  ASSUME NEW x \in 0 .. IdxMod - 1
  PROVE  /\ (x + 1) % IdxMod = (IF x + 1 = IdxMod THEN 0 ELSE x + 1)
         /\ (x + 1) % IdxMod \in 0 .. IdxMod - 1
BY RingSizes

\* The distance between the two indices of a ring.
LEMMA GapOf ==
  ASSUME NEW s \in 0 .. IdxMod - 1, NEW a \in 0 .. IdxMod - 1
  PROVE  /\ Gap(a, s) \in 0 .. IdxMod - 1 /\ (Gap(a, s) = 0 <=> a = s)
         /\ a % NUM = (s + Gap(a, s)) % NUM
<1>1. IdxMod \in Int /\ IdxMod > 0
  BY RingSizes
<1>2. Gap(a, s) \in 0 .. IdxMod - 1 /\ (Gap(a, s) = 0 <=> a = s)
  BY <1>1 DEF Gap
<1>3. s + Gap(a, s) = a \/ s + Gap(a, s) = a + IdxMod
  BY <1>1 DEF Gap
<1>4. (a + IdxMod) % NUM = a % NUM
  BY SlotPeriod, SMTT(60)
<1> QED
  BY <1>2, <1>3, <1>4

\* The writer of a ring adds an entry after those not read yet.
LEMMA RingPut ==
  ASSUME NEW r \in [Desc -> Desc], NEW s \in 0 .. IdxMod - 1, NEW a \in 0 .. IdxMod - 1,
         NEW h \in Desc, Sound(r, s, a), Gap(a, s) + 1 < NUM, h \notin Entries(r, s, a)
  PROVE  /\ Put(r, a, h) \in [Desc -> Desc] /\ Succ(a) \in 0 .. IdxMod - 1
         /\ Sound(Put(r, a, h), s, Succ(a))
         /\ Entries(Put(r, a, h), s, Succ(a)) = Entries(r, s, a) \cup {h}
<1> DEFINE r2 == Put(r, a, h)
           a2 == Succ(a)
<1>0. r2 = [r EXCEPT ![a % NUM] = h] /\ a2 = (a + 1) % IdxMod
  BY DEF Put, Succ
<1> HIDE DEF r2, a2
<1>1. /\ NUM \in Int /\ NUM > 0 /\ IdxMod \in Int /\ NUM <= IdxMod
      /\ a2 = (IF a + 1 = IdxMod THEN 0 ELSE a + 1) /\ a2 \in 0 .. IdxMod - 1
  BY <1>0, RingSizes, NextIndex
<1>2. PICK n \in 0 .. IdxMod - 1 : n = Gap(a, s)
  BY GapOf
<1>3. Gap(a2, s) = n + 1
  BY <1>1, <1>2, SMTT(60) DEF Gap
<1>4. a % NUM = (s + n) % NUM /\ a % NUM \in Desc
  BY <1>2, GapOf, SlotPeriod, SMTT(60)
<1>5. \A k \in 0 .. n : (s + k) % NUM \in Desc /\ ((s + k) % NUM = (s + n) % NUM => k = n)
  <2> SUFFICES ASSUME NEW k \in 0 .. n
               PROVE  (s + k) % NUM \in Desc /\ ((s + k) % NUM = (s + n) % NUM => k = n)
    OBVIOUS
  <2>1. PICK x \in Int : x = s + k
    BY SMTT(60)
  <2>2. PICK y \in Int : y = s + n
    BY SMTT(60)
  <2>3. x <= y /\ y < x + NUM
    BY <1>1, <1>2, <2>1, <2>2, SMTT(60)
  <2>4. x % NUM = y % NUM => x = y
    BY <2>3, SlotOnce
  <2>5. x % NUM \in Desc
    BY SlotPeriod
  <2> QED
    BY <2>1, <2>2, <2>4, <2>5, SMTT(60)
<1>6. \A k \in 0 .. n : Entry(r2, s, k) = IF k = n THEN h ELSE Entry(r, s, k)
  BY <1>0, <1>4, <1>5 DEF Entry
<1>7. \A k \in 0 .. n : k \in 0 .. n - 1 \/ k = n
  BY SMTT(60)
<1>8. Entries(r, s, a) = {Entry(r, s, k) : k \in 0 .. n - 1}
  BY <1>2 DEF Entries
<1>9. Entries(r2, s, a2) = {Entry(r2, s, k) : k \in 0 .. n}
  <2>1. Gap(a2, s) - 1 = n
    BY <1>3, SMTT(60)
  <2> QED
    BY <2>1 DEF Entries
<1>10. Entries(r2, s, a2) = Entries(r, s, a) \cup {h}
  <2>1. \A k \in 0 .. n - 1 : k \in 0 .. n /\ k # n
    BY SMTT(60)
  <2>2. n \in 0 .. n
    BY SMTT(60)
  <2> QED
    BY <1>6, <1>7, <1>8, <1>9, <2>1, <2>2
<1>11. Sound(r2, s, a2)
  <2>1. \A k \in 0 .. n - 1 : Entry(r, s, k) # h
    BY <1>8
  <2>2. \A j, k \in 0 .. n - 1 : Entry(r, s, j) = Entry(r, s, k) => j = k
    BY <1>2 DEF Sound
  <2>3. \A j, k \in 0 .. n : Entry(r2, s, j) = Entry(r2, s, k) => j = k
    BY <1>6, <1>7, <2>1, <2>2
  <2>4. Gap(a2, s) - 1 = n /\ Gap(a2, s) < NUM
    BY <1>2, <1>3, SMTT(60)
  <2> QED
    BY <2>3, <2>4 DEF Sound
<1>12. r2 \in [Desc -> Desc]
  BY <1>0, <1>4
<1> QED
  BY <1>1, <1>10, <1>11, <1>12 DEF r2, a2

\* The reader of a ring takes the oldest entry.
LEMMA RingGet ==
  ASSUME NEW r \in [Desc -> Desc], NEW s \in 0 .. IdxMod - 1, NEW a \in 0 .. IdxMod - 1,
         s # a, Sound(r, s, a)
  PROVE  /\ Take(r, s) \in [Desc -> Desc] /\ Succ(s) \in 0 .. IdxMod - 1
         /\ r[s % NUM] \in Entries(r, s, a)
         /\ Sound(Take(r, s), Succ(s), a)
         /\ Entries(Take(r, s), Succ(s), a) = Entries(r, s, a) \ {r[s % NUM]}
<1> DEFINE r2 == Take(r, s)
           s2 == Succ(s)
<1>0. r2 = [r EXCEPT ![s % NUM] = 0] /\ s2 = (s + 1) % IdxMod
  BY DEF Take, Succ
<1> HIDE DEF r2, s2
<1>1. /\ NUM \in Int /\ NUM > 0 /\ IdxMod \in Int /\ NUM <= IdxMod
      /\ s2 = (IF s + 1 = IdxMod THEN 0 ELSE s + 1) /\ s2 \in 0 .. IdxMod - 1
  BY <1>0, RingSizes, NextIndex
<1>2. PICK n \in 0 .. IdxMod - 1 : n = Gap(a, s)
  BY GapOf
<1>3. n >= 1 /\ n < NUM /\ Gap(a, s2) = n - 1
  BY <1>1, <1>2, SMTT(60) DEF Gap, Sound
<1>4. s % NUM \in Desc
  BY SlotPeriod, SMTT(60)
<1>5. \A k \in 0 .. n - 2 : /\ (s2 + k) % NUM = (s + (k + 1)) % NUM
                            /\ (s2 + k) % NUM \in Desc /\ (s2 + k) % NUM # s % NUM
  <2> SUFFICES ASSUME NEW k \in 0 .. n - 2
               PROVE  /\ (s2 + k) % NUM = (s + (k + 1)) % NUM
                      /\ (s2 + k) % NUM \in Desc /\ (s2 + k) % NUM # s % NUM
    OBVIOUS
  <2>0. s2 + k \in Int
    <3>1. s2 \in Int
      BY <1>1
    <3> QED
      BY <3>1
  <2>1. PICK x \in Int : x = s2 + k
    BY <2>0
  <2>2. PICK y \in Int : y = s + (k + 1)
    OBVIOUS
  <2>3. x % NUM = y % NUM /\ x % NUM \in Desc
    <3>1. y = x \/ y = x + IdxMod
      BY <1>1, <2>1, <2>2
    <3> QED
      BY <3>1, SlotPeriod
  <2>4. s <= y /\ y < s + NUM /\ s # y
    BY <1>1, <1>3, <2>2
  <2>5. s % NUM # y % NUM
    BY <2>4, SlotOnce
  <2> QED
    BY <2>1, <2>2, <2>3, <2>5
<1>6. \A k \in 0 .. n - 2 : Entry(r2, s2, k) = Entry(r, s, k + 1)
  BY <1>0, <1>4, <1>5 DEF Entry
<1>7. Entry(r, s, 0) = r[s % NUM]
  BY DEF Entry
<1>8. Entries(r, s, a) = {Entry(r, s, k) : k \in 0 .. n - 1}
  BY <1>2 DEF Entries
<1>9. Entries(r2, s2, a) = {Entry(r2, s2, k) : k \in 0 .. n - 2}
  <2>1. Gap(a, s2) - 1 = n - 2
    BY <1>3
  <2> QED
    BY <2>1 DEF Entries
<1>10. \A j, k \in 0 .. n - 1 : Entry(r, s, j) = Entry(r, s, k) => j = k
  BY <1>2 DEF Sound
<1>11. Entries(r2, s2, a) = {Entry(r, s, k) : k \in 1 .. n - 1}
  <2>1. \A k \in 0 .. n - 2 : k + 1 \in 1 .. n - 1
    OBVIOUS
  <2>2. \A k \in 1 .. n - 1 : \E j \in 0 .. n - 2 : k = j + 1
    <3> SUFFICES ASSUME NEW k \in 1 .. n - 1 PROVE k - 1 \in 0 .. n - 2 /\ k = (k - 1) + 1
      OBVIOUS
    <3> QED
      OBVIOUS
  <2>3. ASSUME NEW x \in Entries(r2, s2, a) PROVE x \in {Entry(r, s, k) : k \in 1 .. n - 1}
    <3>1. PICK k \in 0 .. n - 2 : x = Entry(r2, s2, k)
      BY <1>9
    <3> QED
      BY <1>6, <2>1, <3>1
  <2>4. ASSUME NEW k \in 1 .. n - 1 PROVE Entry(r, s, k) \in Entries(r2, s2, a)
    <3>1. PICK j \in 0 .. n - 2 : k = j + 1
      BY <2>2
    <3> QED
      BY <1>6, <1>9, <3>1
  <2> QED
    BY <2>3, <2>4
<1>12. Entries(r2, s2, a) = Entries(r, s, a) \ {r[s % NUM]}
  <2>1. \A k \in 0 .. n - 1 : k = 0 \/ k \in 1 .. n - 1
    OBVIOUS
  <2>2. \A k \in 1 .. n - 1 : k \in 0 .. n - 1 /\ k # 0
    OBVIOUS
  <2>3. 0 \in 0 .. n - 1
    BY <1>3
  <2>4. ASSUME NEW k \in 1 .. n - 1 PROVE Entry(r, s, k) # r[s % NUM]
    BY <1>7, <1>10, <2>2, <2>3
  <2>5. ASSUME NEW x \in Entries(r, s, a), x # r[s % NUM]
        PROVE  x \in {Entry(r, s, k) : k \in 1 .. n - 1}
    BY <1>7, <1>8, <2>1, <2>5
  <2>6. {Entry(r, s, k) : k \in 1 .. n - 1} \subseteq Entries(r, s, a)
    BY <1>8, <2>2
  <2> QED
    BY <1>11, <2>4, <2>5, <2>6
<1>13. Sound(r2, s2, a)
  <2>1. \A j, k \in 0 .. n - 2 : Entry(r2, s2, j) = Entry(r2, s2, k) => j = k
    <3> SUFFICES ASSUME NEW j \in 0 .. n - 2, NEW k \in 0 .. n - 2,
                        Entry(r2, s2, j) = Entry(r2, s2, k)
                 PROVE  j = k
      OBVIOUS
    <3>1. j + 1 \in 0 .. n - 1 /\ k + 1 \in 0 .. n - 1
      OBVIOUS
    <3>2. j + 1 = k + 1
      BY <1>6, <1>10, <3>1
    <3> QED
      BY <3>2
  <2>2. Gap(a, s2) - 1 = n - 2 /\ Gap(a, s2) < NUM
    BY <1>1, <1>3
  <2> QED
    BY <2>1, <2>2 DEF Sound
<1>14. r2 \in [Desc -> Desc] /\ r[s % NUM] \in Entries(r, s, a)
  <2>1. 0 \in Desc /\ 0 \in 0 .. n - 1
    BY <1>1, <1>3 DEF Desc
  <2> QED
    BY <1>0, <1>4, <1>7, <1>8, <2>1
<1> QED
  BY <1>1, <1>12, <1>13, <1>14 DEF r2, s2

\* The descriptors can be counted.
LEMMA CountDesc ==
  IsFiniteSet(Desc) /\ Cardinality(Desc) = NUM
<1>1. NUM - 1 \in Int /\ 0 \in Int /\ NUM > 0 /\ NUM \in Int
  BY RingSizes
<1>2. IsFiniteSet(Desc) /\ Cardinality(Desc) = (IF 0 > NUM - 1 THEN 0 ELSE NUM - 1 - 0 + 1)
  BY <1>1, FS_Interval DEF Desc
<1> QED
  BY <1>1, <1>2

\* A ring whose entries all lie outside of three descriptors has room.
LEMMA RingRoom ==
  ASSUME NEW r \in [Desc -> Desc], NEW s \in 0 .. IdxMod - 1, NEW a \in 0 .. IdxMod - 1,
         Sound(r, s, a), NEW X \in SUBSET Desc, Cardinality(X) >= 3,
         Entries(r, s, a) \cap X = {}
  PROVE  Gap(a, s) + 1 < NUM
<1>1. NUM \in Int /\ NUM > 0
  BY RingSizes
<1>2. PICK n \in Nat : n = Gap(a, s)
  BY GapOf, SMTT(60)
<1>3. \A k \in 0 .. n - 1 : Entry(r, s, k) \in Desc \ X
  <2> SUFFICES ASSUME NEW k \in 0 .. n - 1 PROVE Entry(r, s, k) \in Desc \ X
    OBVIOUS
  <2>1. s + k \in Int
    OBVIOUS
  <2>2. (s + k) % NUM \in Desc
    BY <2>1, SlotPeriod
  <2>3. Entry(r, s, k) \in Desc
    BY <2>2 DEF Entry
  <2>4. Entry(r, s, k) \in Entries(r, s, a)
    BY <1>2 DEF Entries
  <2> QED
    BY <2>3, <2>4
<1>4. \A j, k \in 0 .. n - 1 : Entry(r, s, j) = Entry(r, s, k) => j = k
  BY <1>2 DEF Sound
<1> DEFINE f == [k \in 0 .. n - 1 |-> Entry(r, s, k)]
<1>5. f \in Injection(0 .. n - 1, Desc \ X)
  BY <1>3, <1>4 DEF Injection, IsInjective
<1>6. IsFiniteSet(X) /\ Cardinality(X) \in Nat /\ X \cap Desc = X /\ Desc \cap X = X
  BY CountDesc, FS_Subset, FS_CardinalityType
<1>7. IsFiniteSet(Desc \ X) /\ Cardinality(Desc \ X) = NUM - Cardinality(X)
  BY <1>6, CountDesc, FS_Difference, SMTT(60)
<1> HIDE DEF f
<1>8. Cardinality(0 .. n - 1) <= Cardinality(Desc \ X)
  BY <1>5, <1>7, FS_Injection
<1>9. Cardinality(0 .. n - 1) = n
  <2>1. 0 \in Int /\ n - 1 \in Int
    OBVIOUS
  <2>2. Cardinality(0 .. n - 1) = (IF 0 > n - 1 THEN 0 ELSE n - 1 - 0 + 1)
    BY <2>1, FS_Interval
  <2> QED
    BY <2>2
<1> QED
  BY <1>1, <1>2, <1>6, <1>7, <1>8, <1>9, SMTT(60)

\* alloc_desc() finds the first free descriptor.
LEMMA MinFree ==
  ASSUME NEW S \in SUBSET Desc, S # {}
  PROVE  Min(S) \in S
<1>1. S \subseteq Nat
  BY RingSizes DEF Desc
<1> DEFINE R == OpToRel(<, Nat)
<1>2. \E x \in S : \A y \in S : ~(<<y, x>> \in R)
  <2>1. IsWellFoundedOn(R, Nat)
    BY NatLessThanWellFounded, ZenonT(60)
  <2> HIDE DEF R
  <2> QED
    BY <1>1, <2>1, WFMin, ZenonT(60)
<1>3. \E x \in S : \A y \in S : x =< y
  <2>1. PICK x \in S : \A y \in S : ~(<<y, x>> \in R)
    BY <1>2, ZenonT(60)
  <2>2. \A y \in S : ~(y < x)
    BY <1>1, <2>1, ZenonT(60) DEF OpToRel
  <2>3. \A y \in S : x =< y
    BY <1>1, <2>2
  <2> QED
    BY <2>3
<1> QED
  BY <1>3 DEF Min

\* alloc3_desc() takes three different free descriptors.
LEMMA TakeThree ==
  ASSUME NEW S \in SUBSET Desc, Cardinality(S) >= 3, NEW i0, i0 = Min(S),
         NEW i1, i1 = Min(S \ {i0}), NEW i2, i2 = Min(S \ {i0, i1})
  PROVE  /\ i0 \in S /\ i1 \in S /\ i2 \in S
         /\ i0 # i1 /\ i0 # i2 /\ i1 # i2
<1>1. IsFiniteSet(S) /\ Cardinality(S) \in Nat
  BY CountDesc, FS_Subset, FS_CardinalityType
<1>2. S # {}
  BY <1>1, FS_EmptySet, SMTT(60)
<1>3. i0 \in S
  BY <1>2, MinFree
<1>4. IsFiniteSet(S \ {i0}) /\ Cardinality(S \ {i0}) = Cardinality(S) - 1
  BY <1>1, <1>3, FS_RemoveElement
<1>5. S \ {i0} # {}
  <2>1. Cardinality(S \ {i0}) # 0
    BY <1>1, <1>4
  <2> QED
    BY <2>1, FS_EmptySet
<1>6. i1 \in S \ {i0}
  BY <1>5, MinFree
<1>7. (S \ {i0}) \ {i1} = S \ {i0, i1}
  OBVIOUS
<1>8. Cardinality(S \ {i0, i1}) = Cardinality(S) - 2
  <2>1. Cardinality((S \ {i0}) \ {i1}) = Cardinality(S \ {i0}) - 1
    BY <1>4, <1>6, FS_RemoveElement
  <2>2. Cardinality(S \ {i0, i1}) = Cardinality(S \ {i0}) - 1
    BY <1>7, <2>1, ZenonT(60)
  <2> QED
    BY <1>1, <1>4, <2>2, SMTT(60)
<1>9. S \ {i0, i1} # {}
  <2>1. Cardinality(S \ {i0, i1}) # 0
    BY <1>1, <1>8
  <2> QED
    BY <2>1, FS_EmptySet
<1>10. i2 \in S \ {i0, i1}
  BY <1>9, MinFree
<1> QED
  BY <1>3, <1>6, <1>10

-----------------------------------------------------------------------------
(* The invariant *)

Addrs == {<<"none">>} \cup ({"op", "status"} \X Desc) \cup ({"data"} \X Procs)
Calls == [n : Blocks, write : BOOLEAN]
Rings == [ring : [Desc -> Desc], idx : 0 .. IdxMod - 1]

TypeOK ==
  /\ free \subseteq Desc
  /\ desc \in [Desc -> [addr : Addrs, next : -1 .. NUM - 1]]
  /\ ops \in [Desc -> Calls \cup {NoCall}]
  /\ info \in [Desc -> [b : Procs \cup {Nobody}, status : {0, 255}]]
  /\ avail \in Rings /\ used \in Rings /\ used_idx \in 0 .. IdxMod - 1
  /\ device \in [seen : 0 .. IdxMod - 1, busy : SUBSET Desc, irq : BOOLEAN]
  /\ intr \in BOOLEAN
  /\ disk \in [Blocks -> Contents] /\ data \in [Procs -> Contents]
  /\ onDisk \in [Procs -> BOOLEAN]
  /\ pc \in [Procs -> {"out", "alloc", "wait"}]
  /\ call \in [Procs -> Calls \cup {NoCall}]
  /\ idx0 \in [Procs -> Desc]

Waiting == {p \in Procs : pc[p] = "wait"}
Mid(p) == NextDesc(idx0[p])
Last(p) == NextDesc(Mid(p))

\* The chain of a thread that waits: three used descriptors that lead the device
\* to the thread's command, buffer and status byte.
LinkedTo(p) ==
  /\ Mid(p) \in Desc /\ Last(p) \in Desc
  /\ idx0[p] # Mid(p) /\ idx0[p] # Last(p) /\ Mid(p) # Last(p)
  /\ {idx0[p], Mid(p), Last(p)} \cap free = {}
  /\ desc[Mid(p)].addr = <<"data", p>>
  /\ desc[Last(p)].addr = <<"status", idx0[p]>> /\ NextDesc(Last(p)) = -1
  /\ info[idx0[p]].b = p /\ ops[idx0[p]] = call[p]

Linked ==
  /\ \A p \in Procs : (pc[p] = "out" /\ call[p] = NoCall) \/ (pc[p] # "out" /\ call[p] \in Calls)
  /\ \A p \in Waiting : LinkedTo(p)
  /\ \A p, q \in Waiting : p # q =>
       {idx0[p], Mid(p), Last(p)} \cap {idx0[q], Mid(q), Last(q)} = {}
  /\ \A i \in Desc : i \in free \/ \E p \in Waiting : i \in {idx0[p], Mid(p), Last(p)}

Posted == Entries(avail.ring, device.seen, avail.idx)
Used == Entries(used.ring, used_idx, used.idx)

\* Head h is that of a request in flight with this status.
Owned(h, st) == \E p \in Waiting : idx0[p] = h /\ onDisk[p] /\ info[h].status = st

InFlight ==
  /\ Sound(avail.ring, device.seen, avail.idx) /\ Sound(used.ring, used_idx, used.idx)
  /\ \A h \in Posted : h \notin device.busy /\ Owned(h, 255)
  /\ \A h \in device.busy : Owned(h, 255)
  /\ \A h \in Used : Owned(h, 0)
  /\ \A p \in Waiting : ~onDisk[p] => info[idx0[p]].status = 0

\* What a thread may sleep on: nothing, free descriptors, or its own buffer.
ChanOK == chan \in [Procs -> Procs \cup {Nobody, freechan}]
Channels == \A p \in Procs : chan[p] \in {Nobody, freechan, p}

Inv == TypeOK /\ ChanOK /\ Linked /\ InFlight /\ Channels /\ NoLostWakeup
-----------------------------------------------------------------------------
(* What the actions do to the state, and types *)

\* The fields of the records.
LEMMA Fields ==
  ASSUME TypeOK
  PROVE  /\ avail.ring \in [Desc -> Desc] /\ avail.idx \in 0 .. IdxMod - 1
         /\ used.ring \in [Desc -> Desc] /\ used.idx \in 0 .. IdxMod - 1
         /\ device.seen \in 0 .. IdxMod - 1 /\ device.busy \subseteq Desc /\ device.irq \in BOOLEAN
         /\ used_idx \in 0 .. IdxMod - 1
         /\ \A i \in Desc : NextDesc(i) \in -1 .. NUM - 1
BY DEF TypeOK, Rings, NextDesc

\* The request of thread p is formatted in descriptors i0, i1 and i2, and posted.
Formatted(p, c, i0, i1, i2) ==
  /\ i0 # i1 /\ i0 # i2 /\ i1 # i2
  /\ free' = free \ {i0, i1, i2}
  /\ desc' = [desc EXCEPT ![i0] = [addr |-> <<"op", i0>>, next |-> i1],
                          ![i1] = [addr |-> <<"data", p>>, next |-> i2],
                          ![i2] = [addr |-> <<"status", i0>>, next |-> -1]]
  /\ ops' = [ops EXCEPT ![i0] = c]
  /\ info' = [info EXCEPT ![i0] = [b |-> p, status |-> 255]]
  /\ avail' = [ring |-> Put(avail.ring, avail.idx, i0), idx |-> Succ(avail.idx)]
  /\ idx0' = [idx0 EXCEPT ![p] = i0]

\* virtio_disk_rw() takes three free descriptors, links them, and posts the head.
LEMMA SubmitFacts ==
  ASSUME TypeOK, NEW p \in Procs, NEW c, Submit(p, c)
  PROVE  \E i0, i1, i2 \in free : Formatted(p, c, i0, i1, i2)
<1> DEFINE i0 == Min(free)
           i1 == Min(free \ {i0})
           i2 == Min(free \ {i0, i1})
<1>1. free \in SUBSET Desc /\ Cardinality(free) >= 3
  BY DEF TypeOK, Submit
<1>2. i0 \in free /\ i1 \in free /\ i2 \in free /\ i0 # i1 /\ i0 # i2 /\ i1 # i2
  BY <1>1, TakeThree
<1>3. Formatted(p, c, i0, i1, i2)
  BY <1>2, ZenonT(60) DEF Submit, Formatted, Put, Succ
<1> HIDE DEF i0, i1, i2
<1> QED
  BY <1>2, <1>3

\* A function changed at three places.
LEMMA ChangeThree ==
  ASSUME NEW T, NEW f \in [Desc -> T], NEW i \in Desc, NEW j \in Desc, NEW k \in Desc,
         i # j, i # k, j # k, NEW x, NEW y, NEW z, NEW g,
         g = [f EXCEPT ![i] = x, ![j] = y, ![k] = z]
  PROVE  g[i] = x /\ g[j] = y /\ g[k] = z /\ \A d \in Desc \ {i, j, k} : g[d] = f[d]
OBVIOUS

\* The caller of virtio_disk_rw(), at its entry or back from sleep.
LEMMA AllocatingFacts ==
  ASSUME TypeOK, Linked, NEW p \in Procs, NEW c, Allocating(p, c)
  PROVE  /\ p \notin Waiting /\ c \in Calls /\ call' = [call EXCEPT ![p] = c]
         /\ chan[p] = Nobody /\ intr = FALSE
BY SMTT(60) DEF Allocating, At, Linked, Waiting, Calls, Awake, TypeOK, vdisk_lock_free

\* The device takes the oldest entry of the avail ring.
LEMMA FetchFacts ==
  ASSUME TypeOK, DevFetch
  PROVE  /\ avail'.ring = Take(avail.ring, device.seen) /\ avail'.idx = avail.idx
         /\ device'.seen = Succ(device.seen)
         /\ device'.busy = device.busy \cup {avail.ring[device.seen % NUM]}
         /\ device'.irq = device.irq
         /\ avail' = [ring |-> avail'.ring, idx |-> avail'.idx]
         /\ device' = [seen |-> device'.seen, busy |-> device'.busy, irq |-> device'.irq]
<1>1. avail \in Rings /\ device \in [seen : 0 .. IdxMod - 1, busy : SUBSET Desc, irq : BOOLEAN]
  BY DEF TypeOK
<1>2. /\ device' = [device EXCEPT !.seen = (device.seen + 1) % IdxMod,
                                  !.busy = device.busy \cup {avail.ring[device.seen % NUM]}]
      /\ avail' = [avail EXCEPT !.ring = [avail.ring EXCEPT ![device.seen % NUM] = 0]]
  BY DEF DevFetch
<1>3. /\ avail'.ring = Take(avail.ring, device.seen) /\ avail'.idx = avail.idx
      /\ avail' = [ring |-> avail'.ring, idx |-> avail'.idx]
  BY <1>1, <1>2, ZenonT(60) DEF Rings, Take
<1>4. /\ device'.seen = Succ(device.seen)
      /\ device'.busy = device.busy \cup {avail.ring[device.seen % NUM]}
      /\ device'.irq = device.irq
      /\ device' = [seen |-> device'.seen, busy |-> device'.busy, irq |-> device'.irq]
  BY <1>1, <1>2, ZenonT(60) DEF Succ
<1> QED
  BY <1>3, <1>4, ZenonT(60)

\* The handler takes the oldest entry of the used ring.
LEMMA IntrNextFacts ==
  ASSUME TypeOK, IntrNext
  PROVE  /\ used'.ring = Take(used.ring, used_idx) /\ used'.idx = used.idx
         /\ used' = [ring |-> used'.ring, idx |-> used'.idx]
         /\ used_idx' = Succ(used_idx)
<1>1. used \in Rings
  BY DEF TypeOK
<1>2. /\ used' = [used EXCEPT !.ring = [used.ring EXCEPT ![used_idx % NUM] = 0]]
      /\ used_idx' = (used_idx + 1) % IdxMod
  BY DEF IntrNext
<1> QED
  BY <1>1, <1>2 DEF Rings, Take, Succ

\* The interrupt line falls.
LEMMA AckFacts ==
  ASSUME TypeOK, IntrAck
  PROVE  /\ device' \in [seen : 0 .. IdxMod - 1, busy : SUBSET Desc, irq : BOOLEAN]
         /\ device'.seen = device.seen /\ device'.busy = device.busy
BY ZenonT(60) DEF TypeOK, IntrAck

\* The device serves a chain: it finds the buffer of the thread whose request
\* it is, and the status byte of that request.
LEMMA ServeFacts ==
  ASSUME TypeOK, Linked, InFlight, NEW i \in Desc, DevServe(i)
  PROVE  \E p \in Waiting :
           /\ idx0[p] = i /\ onDisk[p] /\ info[i].status = 255 /\ info[i].b = p
           /\ call[p] \in Calls
           /\ IF call[p].write
              THEN disk' = [disk EXCEPT ![call[p].n] = data[p]] /\ data' = data
              ELSE data' = [data EXCEPT ![p] = disk[call[p].n]] /\ disk' = disk
           /\ info' = [info EXCEPT ![i] = [b |-> p, status |-> 0]]
           /\ used'.ring = Put(used.ring, used.idx, i) /\ used'.idx = Succ(used.idx)
           /\ used' = [ring |-> used'.ring, idx |-> used'.idx]
           /\ device' = [seen |-> device.seen, busy |-> device.busy \ {i}, irq |-> TRUE]
<1>1. i \in device.busy
  BY DEF DevServe
<1>2. PICK p \in Waiting : idx0[p] = i /\ onDisk[p] /\ info[i].status = 255
  BY ZenonT(60), SMTT(60), <1>1 DEF InFlight, Owned
<1>3. LinkedTo(p) /\ p \in Procs /\ pc[p] # "out" /\ call[p] \in Calls
  BY <1>2 DEF Linked, Waiting
<1>4. desc[NextDesc(i)].addr = <<"data", p>> /\ desc[NextDesc(NextDesc(i))].addr = <<"status", i>>
  BY <1>2, <1>3 DEF LinkedTo, Mid, Last
<1>5. desc[NextDesc(i)].addr[2] = p /\ desc[NextDesc(NextDesc(i))].addr[2] = i
  BY <1>4
<1>6. ops[i] = call[p] /\ info[i].b = p
  BY <1>2, <1>3 DEF LinkedTo
<1>7. IF call[p].write
      THEN disk' = [disk EXCEPT ![call[p].n] = data[p]] /\ data' = data
      ELSE data' = [data EXCEPT ![p] = disk[call[p].n]] /\ disk' = disk
  BY <1>5, <1>6 DEF DevServe
<1>8. info' = [info EXCEPT ![i] = [b |-> p, status |-> 0]]
  <2>1. info' = [info EXCEPT ![i] = [info[i] EXCEPT !.status = 0]]
    BY <1>5 DEF DevServe
  <2>2. info[i] \in [b : Procs \cup {Nobody}, status : {0, 255}]
    BY SMTT(60) DEF TypeOK
  <2>3. [info[i] EXCEPT !.status = 0] = [b |-> p, status |-> 0]
    BY <1>6, <2>2, SMTT(60)
  <2> QED
    BY <2>1, <2>3, ZenonT(60)
<1>9. /\ used'.ring = Put(used.ring, used.idx, i) /\ used'.idx = Succ(used.idx)
      /\ used' = [ring |-> used'.ring, idx |-> used'.idx]
  BY DEF DevServe, Put, Succ
<1>10. device' = [seen |-> device.seen, busy |-> device.busy \ {i}, irq |-> TRUE]
  <2>1. device' = [device EXCEPT !.busy = device.busy \ {i}, !.irq = TRUE]
    BY DEF DevServe
  <2>2. device \in [seen : 0 .. IdxMod - 1, busy : SUBSET Desc, irq : BOOLEAN]
    BY DEF TypeOK
  <2> QED
    BY <2>1, <2>2, ZenonT(60)
<1> QED
  BY <1>2, <1>3, <1>6, <1>7, <1>8, <1>9, <1>10, ZenonT(60)

\* The channels: a thread that is woken sleeps on nothing, the others stay.
LEMMA WokenOK ==
  ASSUME ChanOK, Channels, NEW c
  PROVE  /\ Woken(c) \in [Procs -> Procs \cup {Nobody, freechan}]
         /\ \A p \in Procs : Woken(c)[p] = chan[p] \/ Woken(c)[p] = Nobody
         /\ \A p \in Procs : Woken(c)[p] = c => c = Nobody
BY DEF ChanOK, Woken

-----------------------------------------------------------------------------
(* virtio_disk_rw() submits a request *)

\* The state is well typed after a request is formatted.
LEMMA SubmitType ==
  ASSUME Inv, NEW p \in Procs, NEW c, Submit(p, c)
  PROVE  TypeOK' /\ ChanOK'
<1>0. TypeOK /\ Linked /\ ChanOK
  BY DEF Inv
<1>1. PICK i0, i1, i2 \in free : Formatted(p, c, i0, i1, i2)
  BY <1>0, SubmitFacts
<1>2. c \in Calls /\ call' = [call EXCEPT ![p] = c]
  BY <1>0, AllocatingFacts, ZenonT(60) DEF Submit
<1>3. i0 \in Desc /\ i1 \in Desc /\ i2 \in Desc
  BY <1>0 DEF TypeOK
<1>4. desc' \in [Desc -> [addr : Addrs, next : -1 .. NUM - 1]]
  <2>1. /\ [addr |-> <<"op", i0>>, next |-> i1] \in [addr : Addrs, next : -1 .. NUM - 1]
        /\ [addr |-> <<"data", p>>, next |-> i2] \in [addr : Addrs, next : -1 .. NUM - 1]
        /\ [addr |-> <<"status", i0>>, next |-> -1] \in [addr : Addrs, next : -1 .. NUM - 1]
    <3>1. <<"op", i0>> \in Addrs /\ <<"data", p>> \in Addrs /\ <<"status", i0>> \in Addrs
      BY <1>3 DEF Addrs
    <3>2. i1 \in -1 .. NUM - 1 /\ i2 \in -1 .. NUM - 1 /\ -1 \in -1 .. NUM - 1
      BY <1>3, RingSizes DEF Desc
    <3> QED
      BY <3>1, <3>2
  <2>2. desc \in [Desc -> [addr : Addrs, next : -1 .. NUM - 1]]
    BY <1>0 DEF TypeOK
  <2>3. desc' = [desc EXCEPT ![i0] = [addr |-> <<"op", i0>>, next |-> i1],
                             ![i1] = [addr |-> <<"data", p>>, next |-> i2],
                             ![i2] = [addr |-> <<"status", i0>>, next |-> -1]]
    BY <1>1 DEF Formatted
  <2> QED
    BY <1>3, <2>1, <2>2, <2>3
<1>5. avail' \in Rings
  <2>1. avail.ring \in [Desc -> Desc] /\ avail.idx \in 0 .. IdxMod - 1
    BY <1>0, Fields
  <2>2. Succ(avail.idx) \in 0 .. IdxMod - 1
    BY <2>1, NextIndex, ZenonT(60) DEF Succ
  <2>3. Put(avail.ring, avail.idx, i0) \in [Desc -> Desc]
    BY <1>3, <2>1, ZenonT(60) DEF Put
  <2> QED
    BY <1>1, <2>2, <2>3 DEF Rings, Formatted
<1>6. /\ free' \subseteq Desc /\ ops' \in [Desc -> Calls \cup {NoCall}]
      /\ info' \in [Desc -> [b : Procs \cup {Nobody}, status : {0, 255}]]
      /\ call' \in [Procs -> Calls \cup {NoCall}] /\ idx0' \in [Procs -> Desc]
  BY <1>0, <1>1, <1>2, <1>3 DEF TypeOK, Formatted
<1>7. /\ onDisk' \in [Procs -> BOOLEAN] /\ pc' \in [Procs -> {"out", "alloc", "wait"}]
      /\ used' \in Rings /\ used_idx' \in 0 .. IdxMod - 1
      /\ device' \in [seen : 0 .. IdxMod - 1, busy : SUBSET Desc, irq : BOOLEAN]
      /\ intr' \in BOOLEAN
      /\ disk' \in [Blocks -> Contents] /\ data' \in [Procs -> Contents]
  BY <1>0 DEF TypeOK, Submit, Goto, io
<1>8. ChanOK'
  BY <1>0 DEF ChanOK, Submit, Sleep
<1> QED
  BY <1>4, <1>5, <1>6, <1>7, <1>8 DEF TypeOK

\* The new chain is made of free descriptors, so it meets no other.
LEMMA SubmitLinked ==
  ASSUME Inv, NEW p \in Procs, NEW c, Submit(p, c)
  PROVE  Linked' /\ Waiting' = Waiting \cup {p} /\ p \notin Waiting
<1>0. TypeOK /\ Linked
  BY DEF Inv
<1>1. PICK i0, i1, i2 \in free : Formatted(p, c, i0, i1, i2)
  BY <1>0, SubmitFacts
<1>2. c \in Calls /\ call' = [call EXCEPT ![p] = c] /\ p \notin Waiting
  BY <1>0, AllocatingFacts, ZenonT(60) DEF Submit
<1>3. i0 \in Desc /\ i1 \in Desc /\ i2 \in Desc
  BY <1>0 DEF TypeOK
<1>4. pc' = [pc EXCEPT ![p] = "wait"] /\ pc \in [Procs -> {"out", "alloc", "wait"}]
  BY <1>0 DEF Submit, Goto, TypeOK
<1>5. Waiting' = Waiting \cup {p}
  BY <1>4 DEF Waiting
<1>6. /\ \A j \in Desc \ {i0, i1, i2} : desc'[j] = desc[j]
      /\ desc'[i0].next = i1
      /\ desc'[i1] = [addr |-> <<"data", p>>, next |-> i2]
      /\ desc'[i2] = [addr |-> <<"status", i0>>, next |-> -1]
  <2>1. desc \in [Desc -> [addr : Addrs, next : -1 .. NUM - 1]]
    BY <1>0 DEF TypeOK
  <2>2. /\ i0 # i1 /\ i0 # i2 /\ i1 # i2
        /\ desc' = [desc EXCEPT ![i0] = [addr |-> <<"op", i0>>, next |-> i1],
                                ![i1] = [addr |-> <<"data", p>>, next |-> i2],
                                ![i2] = [addr |-> <<"status", i0>>, next |-> -1]]
    BY <1>1 DEF Formatted
  <2>3. /\ \A j \in Desc \ {i0, i1, i2} : desc'[j] = desc[j]
        /\ desc'[i0] = [addr |-> <<"op", i0>>, next |-> i1]
        /\ desc'[i1] = [addr |-> <<"data", p>>, next |-> i2]
        /\ desc'[i2] = [addr |-> <<"status", i0>>, next |-> -1]
    BY <1>3, <2>1, <2>2, ChangeThree, ZenonT(60)
  <2> QED
    BY <2>3
<1>7. /\ idx0'[p] = i0 /\ info'[i0].b = p /\ ops'[i0] = c /\ call'[p] = c
      /\ \A j \in Desc \ {i0} : info'[j] = info[j] /\ ops'[j] = ops[j]
      /\ \A q \in Procs \ {p} : idx0'[q] = idx0[q] /\ call'[q] = call[q]
  <2>1. /\ ops' = [ops EXCEPT ![i0] = c] /\ idx0' = [idx0 EXCEPT ![p] = i0]
        /\ info' = [info EXCEPT ![i0] = [b |-> p, status |-> 255]]
    BY <1>1 DEF Formatted
  <2>2. DOMAIN ops = Desc /\ DOMAIN info = Desc /\ DOMAIN idx0 = Procs /\ DOMAIN call = Procs
    BY <1>0 DEF TypeOK
  <2>3. /\ info'[i0] = [b |-> p, status |-> 255] /\ ops'[i0] = c
        /\ \A j \in Desc \ {i0} : info'[j] = info[j] /\ ops'[j] = ops[j]
    BY <1>3, <2>1, <2>2, ZenonT(60)
  <2>4. /\ idx0'[p] = i0 /\ call'[p] = c
        /\ \A q \in Procs \ {p} : idx0'[q] = idx0[q] /\ call'[q] = call[q]
    BY <1>2, <2>1, <2>2, ZenonT(60)
  <2> QED
    BY <2>3, <2>4, SMTT(60)
<1>8. Mid(p)' = i1 /\ Last(p)' = i2 /\ NextDesc(Last(p))' = -1
  <2>1. Mid(p)' = i1
    BY <1>6, <1>7 DEF Mid, NextDesc
  <2>2. Last(p)' = i2
    BY <1>6, <2>1, SMTT(60) DEF Last, NextDesc
  <2> QED
    BY <1>6, <2>1, <2>2, SMTT(60) DEF NextDesc
<1>9. LinkedTo(p)'
  <2>1. free' = free \ {i0, i1, i2} /\ i0 # i1 /\ i0 # i2 /\ i1 # i2
    BY <1>1 DEF Formatted
  <2>2. desc'[i1].addr = <<"data", p>> /\ desc'[i2].addr = <<"status", i0>>
    BY <1>6, SMTT(60)
  <2> QED
    BY <1>3, <1>7, <1>8, <2>1, <2>2 DEF LinkedTo
<1>10. ASSUME NEW q \in Waiting
       PROVE  /\ LinkedTo(q)' /\ idx0'[q] = idx0[q] /\ Mid(q)' = Mid(q) /\ Last(q)' = Last(q)
              /\ {idx0[q], Mid(q), Last(q)} \cap {i0, i1, i2} = {}
  <2>1. q \in Procs \ {p} /\ LinkedTo(q) /\ idx0[q] \in Desc
    BY <1>0, <1>2, <1>10 DEF Waiting, Linked, TypeOK
  <2>2. {idx0[q], Mid(q), Last(q)} \cap {i0, i1, i2} = {}
    BY <1>1, <2>1 DEF LinkedTo
  <2>3. /\ idx0[q] \in Desc \ {i0, i1, i2} /\ Mid(q) \in Desc \ {i0, i1, i2}
        /\ Last(q) \in Desc \ {i0, i1, i2}
    BY <2>1, <2>2 DEF LinkedTo
  <2>4. idx0'[q] = idx0[q] /\ call'[q] = call[q]
    BY <1>7, <2>1
  <2>5. Mid(q)' = Mid(q)
    BY <1>6, <2>3, <2>4 DEF Mid, NextDesc
  <2>6. Last(q)' = Last(q)
    BY <1>6, <2>3, <2>5 DEF Last, NextDesc
  <2>7. LinkedTo(q)'
    <3>1. NextDesc(Last(q))' = NextDesc(Last(q))
      BY <1>6, <2>3, <2>6 DEF NextDesc
    <3>2. free' \subseteq free
      BY <1>1 DEF Formatted
    <3>3. desc'[Mid(q)] = desc[Mid(q)] /\ desc'[Last(q)] = desc[Last(q)]
      BY <1>6, <2>3
    <3>4. info'[idx0[q]] = info[idx0[q]] /\ ops'[idx0[q]] = ops[idx0[q]]
      BY <1>7, <2>3
    <3> QED
      BY <2>1, <2>4, <2>5, <2>6, <3>1, <3>2, <3>3, <3>4 DEF LinkedTo
  <2> QED
    BY <2>2, <2>4, <2>5, <2>6, <2>7
<1>11. \A q \in Procs : \/ (pc'[q] = "out" /\ call'[q] = NoCall)
                        \/ (pc'[q] # "out" /\ call'[q] \in Calls)
  BY ZenonT(60), SMTT(60), <1>0, <1>2, <1>4, <1>7 DEF Linked
<1>12. \A q1, q2 \in Waiting' : q1 # q2 =>
         ({idx0[q1], Mid(q1), Last(q1)})' \cap ({idx0[q2], Mid(q2), Last(q2)})' = {}
  <2> SUFFICES ASSUME NEW q1 \in Waiting', NEW q2 \in Waiting', q1 # q2
               PROVE  ({idx0[q1], Mid(q1), Last(q1)})' \cap ({idx0[q2], Mid(q2), Last(q2)})' = {}
    OBVIOUS
  <2>1. CASE q1 = p
    BY ZenonT(60), SMTT(60), <1>5, <1>7, <1>8, <1>10, <2>1
  <2>2. CASE q2 = p
    BY <1>5, <1>7, <1>8, <1>10, <2>2
  <2>3. CASE q1 # p /\ q2 # p
    BY <1>0, <1>5, <1>10, <2>3, SMTT(60) DEF Linked
  <2> QED
    BY <2>1, <2>2, <2>3
<1>13. ASSUME NEW j \in Desc, j \notin free'
       PROVE  \E q \in Waiting' : j \in ({idx0[q], Mid(q), Last(q)})'
  <2>1. CASE j \in {i0, i1, i2}
    BY <1>5, <1>7, <1>8, <2>1
  <2>2. CASE j \notin {i0, i1, i2}
    <3>1. PICK q \in Waiting : j \in {idx0[q], Mid(q), Last(q)}
      BY <1>0, <1>1, <1>13, <2>2 DEF Linked, Formatted
    <3> QED
      BY <1>5, <1>10, <3>1
  <2> QED
    BY <2>1, <2>2
<1> QED
  BY <1>2, <1>5, <1>9, <1>10, <1>11, <1>12, <1>13 DEF Linked

\* The head of a chain is not free, and belongs to one thread.
LEMMA Heads ==
  ASSUME TypeOK, Linked
  PROVE  /\ \A p \in Waiting : p \in Procs /\ idx0[p] \in Desc \ free
         /\ \A p, q \in Waiting : idx0[p] = idx0[q] => p = q
<1>1. ASSUME NEW p \in Waiting PROVE p \in Procs /\ idx0[p] \in Desc \ free
  <2>1. p \in Procs /\ LinkedTo(p)
    BY DEF Waiting, Linked
  <2>2. idx0[p] \in Desc
    BY <2>1 DEF TypeOK
  <2> QED
    BY <2>1, <2>2 DEF LinkedTo
<1>2. ASSUME NEW p \in Waiting, NEW q \in Waiting, idx0[p] = idx0[q] PROVE p = q
  <2>1. idx0[p] \in {idx0[p], Mid(p), Last(p)} \cap {idx0[q], Mid(q), Last(q)}
    BY <1>2, ZenonT(60)
  <2>2. p # q => {idx0[p], Mid(p), Last(p)} \cap {idx0[q], Mid(q), Last(q)} = {}
    BY DEF Linked
  <2> QED
    BY <2>1, <2>2, ZenonT(60)
<1> QED
  BY <1>1, <1>2

\* A head on a ring or in the device is in use, and shows the status of its place.
LEMMA FlightHeads ==
  ASSUME TypeOK, Linked, InFlight
  PROVE  /\ \A h \in Posted : h \in Desc \ free /\ info[h].status = 255
         /\ \A h \in device.busy : h \in Desc \ free /\ info[h].status = 255
         /\ \A h \in Used : h \in Desc \ free /\ info[h].status = 0
<1>1. \A q \in Waiting : idx0[q] \in Desc \ free
  BY Heads, ZenonT(60)
<1>2. \A h, st : Owned(h, st) => h \in Desc \ free /\ info[h].status = st
  BY <1>1, ZenonT(60) DEF Owned
<1> QED
  BY <1>2, SMTT(60) DEF InFlight

\* The new request is in flight: on the avail ring, which has room, and nowhere else.
LEMMA SubmitFlight ==
  ASSUME Inv, NEW p \in Procs, NEW c, Submit(p, c)
  PROVE  InFlight'
<1>0. TypeOK /\ Linked /\ InFlight
  BY DEF Inv
<1>1. PICK i0, i1, i2 \in free : Formatted(p, c, i0, i1, i2)
  BY <1>0, SubmitFacts
<1>2. Waiting' = Waiting \cup {p} /\ p \notin Waiting
  BY SubmitLinked
<1>3. i0 \in Desc /\ free \in SUBSET Desc /\ Cardinality(free) >= 3
  BY <1>0 DEF TypeOK, Submit
<1>4. /\ \A q \in Waiting : q \in Procs /\ idx0[q] \in Desc \ free
      /\ \A h \in Posted \cup device.busy \cup Used : h \notin free
  BY <1>0, Heads, FlightHeads, SMTT(60)
<1>5. /\ avail.ring \in [Desc -> Desc] /\ avail.idx \in 0 .. IdxMod - 1
      /\ device.seen \in 0 .. IdxMod - 1
  BY <1>0, Fields
<1>6. avail'.ring = Put(avail.ring, avail.idx, i0) /\ avail'.idx = Succ(avail.idx)
  BY <1>1 DEF Formatted
<1>7. UNCHANGED <<used, used_idx, device>> /\ onDisk' = [onDisk EXCEPT ![p] = TRUE]
  BY DEF Submit, io
<1>8. Sound(avail.ring, device.seen, avail.idx) /\ Sound(used.ring, used_idx, used.idx)
  BY <1>0 DEF InFlight
<1>9. Gap(avail.idx, device.seen) + 1 < NUM
  <2>1. Entries(avail.ring, device.seen, avail.idx) \cap free = {}
    BY <1>4 DEF Posted
  <2> QED
    BY <1>3, <1>5, <1>8, <2>1, RingRoom
<1>10. /\ Sound(avail'.ring, device.seen, avail'.idx)
       /\ Entries(avail'.ring, device.seen, avail'.idx)
            = Entries(avail.ring, device.seen, avail.idx) \cup {i0}
  <2>1. i0 \notin Entries(avail.ring, device.seen, avail.idx)
    BY <1>4 DEF Posted
  <2> QED
    BY <1>3, <1>5, <1>6, <1>8, <1>9, <2>1, RingPut, SMTT(60)
<1>11. Posted' = Posted \cup {i0} /\ Used' = Used /\ device' = device
  BY <1>7, <1>10 DEF Posted, Used
<1>12. /\ idx0'[p] = i0 /\ onDisk'[p] = TRUE /\ info'[i0].status = 255
       /\ \A j \in Desc \ {i0} : info'[j] = info[j]
       /\ \A q \in Procs \ {p} : idx0'[q] = idx0[q] /\ onDisk'[q] = onDisk[q]
  <2>1. /\ idx0' = [idx0 EXCEPT ![p] = i0]
        /\ info' = [info EXCEPT ![i0] = [b |-> p, status |-> 255]]
    BY <1>1 DEF Formatted
  <2>2. DOMAIN info = Desc /\ DOMAIN idx0 = Procs /\ DOMAIN onDisk = Procs
    BY <1>0 DEF TypeOK
  <2>3. /\ info'[i0] = [b |-> p, status |-> 255]
        /\ \A j \in Desc \ {i0} : info'[j] = info[j]
    BY <1>3, <2>1, <2>2, ZenonT(60)
  <2>4. /\ idx0'[p] = i0 /\ onDisk'[p] = TRUE
        /\ \A q \in Procs \ {p} : idx0'[q] = idx0[q] /\ onDisk'[q] = onDisk[q]
    BY <1>7, <2>1, <2>2, ZenonT(60)
  <2>5. info'[i0].status = 255
    BY <2>3, SMTT(60)
  <2> QED
    BY <2>3, <2>4, <2>5, ZenonT(60)
<1>13. Owned(i0, 255)'
  BY <1>2, <1>12 DEF Owned
<1>14. ASSUME NEW h, NEW st, h \notin free, Owned(h, st) PROVE Owned(h, st)'
  <2>1. PICK q \in Waiting : idx0[q] = h /\ onDisk[q] /\ info[h].status = st
    BY <1>14 DEF Owned
  <2>2. q \in Procs \ {p} /\ q \in Waiting' /\ h \in Desc \ {i0}
    BY <1>1, <1>2, <1>4, <1>14, <2>1
  <2> QED
    BY <1>12, <2>1, <2>2 DEF Owned
<1>15. \A h \in Posted' : h \notin device'.busy /\ Owned(h, 255)'
  BY <1>0, <1>4, <1>11, <1>13, <1>14, SMTT(60) DEF InFlight
<1>16. \A h \in device'.busy : Owned(h, 255)'
  BY ZenonT(60), SMTT(60), <1>0, <1>4, <1>11, <1>14 DEF InFlight
<1>17. \A h \in Used' : Owned(h, 0)'
  BY <1>0, <1>4, <1>11, <1>14 DEF InFlight
<1>18. ASSUME NEW q \in Waiting', ~onDisk'[q] PROVE info'[idx0'[q]].status = 0
  <2>1. q \in Waiting /\ q \in Procs \ {p}
    BY <1>2, <1>4, <1>12, <1>18
  <2>2. idx0[q] \in Desc \ {i0}
    BY <1>4, <2>1
  <2> QED
    BY <1>0, <1>12, <1>18, <2>1, <2>2, SMTT(60) DEF InFlight
<1>19. Sound(avail.ring, device.seen, avail.idx)' /\ Sound(used.ring, used_idx, used.idx)'
  BY <1>7, <1>8, <1>10
<1> QED
  BY <1>15, <1>16, <1>17, <1>18, <1>19 DEF InFlight

\* Only a thread that finds three free descriptors goes on; the others were woken
\* when the third became free.
LEMMA SubmitWakes ==
  ASSUME Inv, NEW p \in Procs, NEW c, Submit(p, c)
  PROVE  Channels' /\ NoLostWakeup'
<1>1. chan' = [chan EXCEPT ![p] = p] /\ ChanOK /\ Channels /\ NoLostWakeup
  BY DEF Submit, Sleep, Inv
<1>2. Cardinality(free) >= 3 /\ free \in SUBSET Desc
  BY DEF Submit, Inv, TypeOK
<1>3. ~(Cardinality(free) < 3)
  BY <1>2, CountDesc, FS_Subset, FS_CardinalityType, SMTT(60)
<1>4. /\ chan'[p] = p /\ \A q \in Procs \ {p} : chan'[q] = chan[q]
      /\ p # freechan
  BY <1>1, ChannelAssumption DEF ChanOK
<1>5. Channels'
  BY <1>1, <1>4 DEF Channels
<1>6. \A q \in Procs : chan'[q] # freechan
  BY <1>1, <1>3, <1>4 DEF NoLostWakeup
<1>7. /\ onDisk' = [onDisk EXCEPT ![p] = TRUE] /\ onDisk \in [Procs -> BOOLEAN]
      /\ UNCHANGED <<used, used_idx, device, intr>>
  BY DEF Submit, io, Inv, TypeOK
<1>8. \A q \in Procs : chan'[q] = q => onDisk'[q]
  BY <1>1, <1>4, <1>7 DEF NoLostWakeup
<1> QED
  BY <1>1, <1>5, <1>6, <1>7, <1>8 DEF NoLostWakeup

-----------------------------------------------------------------------------
(* virtio_disk_rw() frees the chain of a request that is done *)

\* free_chain() walks the three descriptors of the request.
LEMMA ChainOf ==
  ASSUME TypeOK, Linked, NEW p \in Waiting
  PROVE  /\ Chain(idx0[p]) = {idx0[p], Mid(p), Last(p)}
         /\ Chain(idx0[p]) \subseteq Desc \ free
<1>1. LinkedTo(p) /\ idx0[p] \in Desc /\ -1 \notin Desc
  BY RingSizes, SMTT(60) DEF Linked, Waiting, TypeOK, Desc
<1> QED
  BY <1>1 DEF LinkedTo, Chain, Mid, Last

\* The state is well typed after the chain is freed.
LEMMA FinishType ==
  ASSUME Inv, NEW p \in Procs, Finish(p)
  PROVE  TypeOK' /\ ChanOK' /\ p \in Waiting
<1>0. TypeOK /\ Linked /\ ChanOK /\ Channels /\ p \in Waiting
  BY DEF Inv, Finish, At, Waiting
<1>1. Chain(idx0[p]) \subseteq Desc /\ idx0[p] \in Desc
  BY <1>0, ChainOf DEF TypeOK
<1>2. /\ FreeDesc \in [addr : Addrs, next : -1 .. NUM - 1]
      /\ NoInfo \in [b : Procs \cup {Nobody}, status : {0, 255}] /\ 0 \in Desc
  BY RingSizes DEF FreeDesc, NoInfo, Addrs, Desc
<1>3. desc' \in [Desc -> [addr : Addrs, next : -1 .. NUM - 1]]
  BY <1>0, <1>2, SMTT(60) DEF Finish, TypeOK
<1>4. /\ free' \subseteq Desc /\ ops' \in [Desc -> Calls \cup {NoCall}]
      /\ info' \in [Desc -> [b : Procs \cup {Nobody}, status : {0, 255}]]
      /\ call' \in [Procs -> Calls \cup {NoCall}] /\ idx0' \in [Procs -> Desc]
  BY <1>0, <1>1, <1>2 DEF Finish, TypeOK
<1>5. /\ onDisk' \in [Procs -> BOOLEAN] /\ pc' \in [Procs -> {"out", "alloc", "wait"}]
      /\ avail' \in Rings /\ used' \in Rings /\ used_idx' \in 0 .. IdxMod - 1
      /\ device' \in [seen : 0 .. IdxMod - 1, busy : SUBSET Desc, irq : BOOLEAN]
      /\ intr' \in BOOLEAN
      /\ disk' \in [Blocks -> Contents] /\ data' \in [Procs -> Contents]
  BY <1>0 DEF TypeOK, Finish, Goto, io
<1>6. ChanOK'
  BY <1>0, WokenOK DEF ChanOK, Finish, Wakeup
<1> QED
  BY <1>0, <1>3, <1>4, <1>5, <1>6 DEF TypeOK

\* The other chains stay as they were.
LEMMA FinishLinked ==
  ASSUME Inv, NEW p \in Procs, Finish(p)
  PROVE  Linked' /\ Waiting' = Waiting \ {p}
<1>0. TypeOK /\ Linked
  BY DEF Inv
<1> DEFINE C == Chain(idx0[p])
<1>1. p \in Waiting /\ C = {idx0[p], Mid(p), Last(p)} /\ C \subseteq Desc \ free
  BY <1>0, FinishType, ChainOf
<1>2. /\ free' = free \cup C
      /\ \A j \in Desc \ C : desc'[j] = desc[j]
      /\ pc' = [pc EXCEPT ![p] = "out"] /\ call' = [call EXCEPT ![p] = NoCall]
      /\ info' = [info EXCEPT ![idx0[p]] = NoInfo] /\ ops' = [ops EXCEPT ![idx0[p]] = NoCall]
      /\ idx0' = [idx0 EXCEPT ![p] = 0]
  BY DEF Finish, Goto
<1> HIDE DEF C
<1>3. Waiting' = Waiting \ {p}
  BY <1>0, <1>2 DEF Waiting, TypeOK
<1>4. /\ \A j \in Desc \ {idx0[p]} : info'[j] = info[j] /\ ops'[j] = ops[j]
      /\ \A q \in Procs \ {p} : idx0'[q] = idx0[q] /\ call'[q] = call[q] /\ pc'[q] = pc[q]
      /\ pc'[p] = "out" /\ call'[p] = NoCall
  BY <1>0, <1>2, SMTT(60) DEF TypeOK
<1>5. ASSUME NEW q \in Waiting'
      PROVE  /\ LinkedTo(q)' /\ idx0'[q] = idx0[q] /\ Mid(q)' = Mid(q) /\ Last(q)' = Last(q)
             /\ q \in Waiting /\ q # p
  <2>1. q \in Waiting /\ q \in Procs \ {p} /\ LinkedTo(q) /\ idx0[q] \in Desc
    BY <1>0, <1>3, <1>5 DEF Waiting, Linked, TypeOK
  <2>2. {idx0[q], Mid(q), Last(q)} \cap C = {}
    BY <1>0, <1>1, <2>1 DEF Linked
  <2>3. idx0[q] \in Desc \ C /\ Mid(q) \in Desc \ C /\ Last(q) \in Desc \ C
    BY <2>1, <2>2 DEF LinkedTo
  <2>4. idx0'[q] = idx0[q] /\ call'[q] = call[q]
    BY <1>4, <2>1
  <2>5. Mid(q)' = Mid(q)
    BY <1>2, <2>3, <2>4 DEF Mid, NextDesc
  <2>6. Last(q)' = Last(q)
    BY <1>2, <2>3, <2>5 DEF Last, NextDesc
  <2>7. NextDesc(Last(q))' = NextDesc(Last(q))
    BY <1>2, <2>3, <2>6 DEF NextDesc
  <2>8. {idx0[q], Mid(q), Last(q)} \cap free' = {}
    BY <1>2, <2>1, <2>2 DEF LinkedTo
  <2>9. desc'[Mid(q)] = desc[Mid(q)] /\ desc'[Last(q)] = desc[Last(q)]
    BY <1>2, <2>3
  <2>10. info'[idx0[q]] = info[idx0[q]] /\ ops'[idx0[q]] = ops[idx0[q]]
    BY <1>1, <1>4, <2>3
  <2>11. LinkedTo(q)'
    BY <2>1, <2>4, <2>5, <2>6, <2>7, <2>8, <2>9, <2>10 DEF LinkedTo
  <2> QED
    BY <2>1, <2>4, <2>5, <2>6, <2>11
<1>6. \A q \in Procs : \/ (pc'[q] = "out" /\ call'[q] = NoCall)
                       \/ (pc'[q] # "out" /\ call'[q] \in Calls)
  BY ZenonT(60), SMTT(60), <1>0, <1>4 DEF Linked
<1>7. \A q1, q2 \in Waiting' : q1 # q2 =>
        ({idx0[q1], Mid(q1), Last(q1)})' \cap ({idx0[q2], Mid(q2), Last(q2)})' = {}
  BY <1>0, <1>5, SMTT(60) DEF Linked
<1>8. ASSUME NEW j \in Desc, j \notin free'
      PROVE  \E q \in Waiting' : j \in ({idx0[q], Mid(q), Last(q)})'
  <2>1. PICK q \in Waiting : j \in {idx0[q], Mid(q), Last(q)}
    BY <1>0, <1>2, <1>8 DEF Linked
  <2>2. q \in Waiting'
    BY <1>1, <1>2, <1>3, <1>8, <2>1
  <2> QED
    BY <1>5, <2>1, <2>2
<1> QED
  BY <1>3, <1>5, <1>6, <1>7, <1>8 DEF Linked

\* A request that is done is on no ring and not in the device.
LEMMA FinishFlight ==
  ASSUME Inv, NEW p \in Procs, Finish(p)
  PROVE  InFlight'
<1>0. TypeOK /\ Linked /\ InFlight /\ p \in Waiting /\ ~onDisk[p]
  BY FinishType, ZenonT(60) DEF Inv, Finish, Done
<1>1. Waiting' = Waiting \ {p}
  BY FinishLinked
<1>2. /\ \A q \in Waiting : q \in Procs /\ idx0[q] \in Desc
      /\ \A q1, q2 \in Waiting : idx0[q1] = idx0[q2] => q1 = q2
  BY <1>0, Heads
<1>3. UNCHANGED <<avail, used, used_idx, device, onDisk>>
  BY DEF Finish, io
<1>4. /\ \A j \in Desc \ {idx0[p]} : info'[j] = info[j]
      /\ \A q \in Procs \ {p} : idx0'[q] = idx0[q]
  BY <1>0, SMTT(60) DEF TypeOK, Finish
<1>5. ASSUME NEW h, NEW st, Owned(h, st) PROVE Owned(h, st)'
  <2>1. PICK q \in Waiting : idx0[q] = h /\ onDisk[q] /\ info[h].status = st
    BY <1>5 DEF Owned
  <2>2. q \in Procs \ {p} /\ q \in Waiting' /\ h \in Desc \ {idx0[p]}
    BY <1>0, <1>1, <1>2, <2>1
  <2> QED
    BY <1>3, <1>4, <2>1, <2>2 DEF Owned
<1>6. Posted' = Posted /\ Used' = Used /\ device' = device
  BY <1>3 DEF Posted, Used
<1>7. Sound(avail.ring, device.seen, avail.idx)' /\ Sound(used.ring, used_idx, used.idx)'
  BY <1>0, <1>3 DEF InFlight
<1>8. /\ \A h \in Posted' : h \notin device'.busy /\ Owned(h, 255)'
      /\ \A h \in device'.busy : Owned(h, 255)'
      /\ \A h \in Used' : Owned(h, 0)'
  BY ZenonT(60), SMTT(60), <1>0, <1>5, <1>6 DEF InFlight
<1>9. ASSUME NEW q \in Waiting', ~onDisk'[q] PROVE info'[idx0'[q]].status = 0
  <2>1. q \in Waiting /\ q \in Procs \ {p} /\ idx0[q] \in Desc \ {idx0[p]}
    BY <1>0, <1>1, <1>2, <1>9
  <2> QED
    BY ZenonT(60), SMTT(60), <1>0, <1>3, <1>4, <1>9, <2>1 DEF InFlight
<1> QED
  BY <1>7, <1>8, <1>9 DEF InFlight

\* free_chain() wakes every thread that waits for descriptors.
LEMMA FinishWakes ==
  ASSUME Inv, NEW p \in Procs, Finish(p)
  PROVE  Channels' /\ NoLostWakeup'
<1>1. chan' = Woken(freechan) /\ ChanOK /\ Channels /\ NoLostWakeup
  BY DEF Finish, Wakeup, Inv
<1>2. /\ \A q \in Procs : chan'[q] = chan[q] \/ chan'[q] = Nobody
      /\ \A q \in Procs : chan'[q] # freechan
  BY <1>1, WokenOK, ChannelAssumption
<1>3. Channels'
  BY <1>1, <1>2 DEF Channels
<1>4. UNCHANGED <<used, used_idx, device, intr, onDisk>>
  BY DEF Finish, io
<1>5. \A q \in Procs : chan'[q] = q => onDisk'[q]
  BY <1>1, <1>2, <1>4, ChannelAssumption DEF NoLostWakeup
<1> QED
  BY <1>1, <1>2, <1>3, <1>4, <1>5 DEF NoLostWakeup

-----------------------------------------------------------------------------
(* The steps that leave the requests where they are *)

\* The chains stay when a step leaves the queue and its users alone, but for the
\* status of a request.
LEMMA SameLinked ==
  ASSUME Linked, UNCHANGED <<free, desc, ops, idx0>>, Waiting' = Waiting,
         \A q \in Waiting : info'[idx0[q]].b = info[idx0[q]].b,
         \A q \in Waiting : call'[q] = call[q],
         \A q \in Procs : \/ (pc'[q] = "out" /\ call'[q] = NoCall)
                          \/ (pc'[q] # "out" /\ call'[q] \in Calls)
  PROVE  Linked'
<1>1. \A q : Mid(q)' = Mid(q) /\ Last(q)' = Last(q) /\ NextDesc(Last(q))' = NextDesc(Last(q))
  BY DEF Mid, Last, NextDesc
<1>2. ASSUME NEW q \in Waiting PROVE LinkedTo(q)'
  <2>1. LinkedTo(q)
    BY DEF Linked
  <2>2. info'[idx0[q]].b = info[idx0[q]].b /\ call'[q] = call[q]
    OBVIOUS
  <2> QED
    BY <1>1, <2>1, <2>2 DEF LinkedTo
<1>3. \A q1, q2 \in Waiting' : q1 # q2 =>
        ({idx0[q1], Mid(q1), Last(q1)})' \cap ({idx0[q2], Mid(q2), Last(q2)})' = {}
  BY <1>1 DEF Linked
<1>4. \A j \in Desc : j \in free' \/ \E q \in Waiting' : j \in ({idx0[q], Mid(q), Last(q)})'
  BY <1>1 DEF Linked
<1> QED
  BY <1>2, <1>3, <1>4 DEF Linked

\* The requests in flight stay where they are when a step leaves the rings alone.
LEMMA SameFlight ==
  ASSUME InFlight, UNCHANGED <<avail, used, used_idx, info, onDisk, idx0>>,
         device'.seen = device.seen, device'.busy = device.busy, Waiting' = Waiting
  PROVE  InFlight'
<1>1. Posted' = Posted /\ Used' = Used
  BY DEF Posted, Used
<1>2. \A h, st : Owned(h, st) => Owned(h, st)'
  BY DEF Owned
<1>3. Sound(avail.ring, device.seen, avail.idx)' /\ Sound(used.ring, used_idx, used.idx)'
  BY DEF InFlight
<1>4. /\ \A h \in Posted' : h \notin device'.busy /\ Owned(h, 255)'
      /\ \A h \in device'.busy : Owned(h, 255)'
      /\ \A h \in Used' : Owned(h, 0)'
  BY <1>1, <1>2, SMTT(60) DEF InFlight
<1>5. \A q \in Waiting' : ~onDisk'[q] => info'[idx0'[q]].status = 0
  BY DEF InFlight
<1> QED
  BY <1>3, <1>4, <1>5, ZenonT(60) DEF InFlight

\* A thread that lacks descriptors wakes the others and sleeps until three are free.
LEMMA LackDescInv ==
  ASSUME Inv, NEW p \in Procs, NEW c, LackDesc(p, c)
  PROVE  Inv' /\ Waiting' = Waiting
<1>0. TypeOK /\ ChanOK /\ Linked /\ InFlight /\ Channels /\ NoLostWakeup
  BY DEF Inv
<1>1. c \in Calls /\ call' = [call EXCEPT ![p] = c] /\ p \notin Waiting
  BY <1>0, AllocatingFacts, ZenonT(60) DEF LackDesc
<1>2. /\ pc' = [pc EXCEPT ![p] = "alloc"] /\ Cardinality(free) < 3
      /\ chan' = [IF free = {} THEN chan ELSE Woken(freechan) EXCEPT ![p] = freechan]
      /\ UNCHANGED <<free, desc, ops, info, avail, used_idx, onDisk, idx0,
                     used, device, disk, data, intr>>
  BY DEF LackDesc, Goto, queue, io
<1>3. Waiting' = Waiting
  BY <1>0, <1>1, <1>2 DEF Waiting, TypeOK
<1>4. TypeOK'
  BY <1>0, <1>1, <1>2 DEF TypeOK
<1>5. Linked'
  <2>1. \A q \in Procs : \/ (pc'[q] = "out" /\ call'[q] = NoCall)
                         \/ (pc'[q] # "out" /\ call'[q] \in Calls)
    BY <1>0, <1>1, <1>2, SMTT(60) DEF Linked, TypeOK
  <2>2. \A q \in Waiting : call'[q] = call[q]
    BY <1>0, <1>1, SMTT(60) DEF TypeOK, Waiting
  <2> QED
    BY <1>0, <1>2, <1>3, <2>1, <2>2, SameLinked, ZenonT(60)
<1>6. InFlight'
  BY <1>0, <1>2, <1>3, SameFlight
<1>7. ChanOK' /\ \A q \in Procs : chan'[q] \in {chan[q], Nobody, freechan}
  BY <1>0, <1>2, WokenOK DEF ChanOK
<1>8. Channels'
  BY <1>0, <1>7 DEF Channels
<1>9. NoLostWakeup'
  <2>1. \A q \in Procs : chan'[q] = q => onDisk'[q]
    BY <1>0, <1>2, <1>7, ChannelAssumption DEF NoLostWakeup
  <2> QED
    BY <1>0, <1>2, <2>1 DEF NoLostWakeup
<1> QED
  BY <1>3, <1>4, <1>5, <1>6, <1>7, <1>8, <1>9 DEF Inv

\* Store, WaitAgain and a kill change a buffer or a channel only: the thread keeps
\* its channel, sleeps on nothing, or goes back to sleep on its buffer.
LEMMA QuietInv ==
  ASSUME Inv, UNCHANGED <<queue, used, device, disk, intr, pc, call>>,
         data' \in [Procs -> Contents], ChanOK',
         \A q \in Procs : chan'[q] \in {chan[q], Nobody} \/ (chan'[q] = q /\ onDisk[q])
  PROVE  Inv' /\ Waiting' = Waiting
<1>0. TypeOK /\ Linked /\ InFlight /\ Channels /\ NoLostWakeup
  BY DEF Inv
<1>1. UNCHANGED <<free, desc, ops, info, avail, used_idx, onDisk, idx0>>
  BY DEF queue
<1>2. Waiting' = Waiting
  BY DEF Waiting
<1>3. TypeOK'
  BY <1>0, <1>1 DEF TypeOK
<1>4. Linked'
  <2>1. \A q \in Procs : \/ (pc'[q] = "out" /\ call'[q] = NoCall)
                         \/ (pc'[q] # "out" /\ call'[q] \in Calls)
    BY <1>0 DEF Linked
  <2> QED
    BY <1>0, <1>1, <1>2, <2>1, SameLinked
<1>5. InFlight'
  BY <1>0, <1>1, <1>2, SameFlight
<1>6. Channels'
  BY <1>0 DEF Channels
<1>7. NoLostWakeup'
  <2>1. \A q \in Procs : chan'[q] = q => onDisk'[q]
    BY <1>0, <1>1, ChannelAssumption DEF NoLostWakeup
  <2>2. \A q \in Procs : chan'[q] = freechan => chan[q] = freechan
    BY ChannelAssumption
  <2> QED
    BY <1>0, <1>1, <2>1, <2>2 DEF NoLostWakeup
<1> QED
  BY <1>2, <1>3, <1>4, <1>5, <1>6, <1>7 DEF Inv
=============================================================================
