------------------------- MODULE SharedQueueProofs --------------------------
(***************************************************************************)
(* Theorems about SharedQueue for every number of sippers, every limit and *)
(* every pool size.                                                        *)
(***************************************************************************)
EXTENDS SharedQueue, FiniteSetTheorems, SequenceTheorems, TLAPS

-----------------------------------------------------------------------------
(* Facts about the list.                                                    *)

(* push_front of a new element keeps the list without duplicates.           *)
LEMMA PushFront ==
    ASSUME NEW S, NEW q \in Seq(S), NEW x \in S
    PROVE  /\ <<x>> \o q \in Seq(S)
           /\ Len(<<x>> \o q) = Len(q) + 1
           /\ <<x>> \o q # <<>>
           /\ ToSet(<<x>> \o q) = ToSet(q) \cup {x}
           /\ IsInjective(q) /\ x \notin ToSet(q) => IsInjective(<<x>> \o q)
<1> DEFINE r == <<x>> \o q
<1>1. <<x>> \in Seq(S) /\ Len(<<x>>) = 1 /\ <<x>>[1] = x
  OBVIOUS
<1>2. /\ r \in Seq(S)
      /\ Len(r) = Len(q) + 1
      /\ \A i \in 1 .. Len(q) + 1 : r[i] = IF i = 1 THEN x ELSE q[i - 1]
      /\ Len(q) \in Nat
  BY <1>1, ConcatProperties, LenProperties
<1>3. r # <<>>
  BY <1>2
<1>4. DOMAIN r = 1 .. Len(q) + 1 /\ DOMAIN q = 1 .. Len(q)
  BY <1>2, LenProperties
<1>5. ToSet(r) = ToSet(q) \cup {x}
  <2>1. ASSUME NEW y \in ToSet(r) PROVE y \in ToSet(q) \cup {x}
    <3>1. PICK i \in 1 .. Len(q) + 1 : y = r[i]
      BY <1>4 DEF ToSet
    <3>2. CASE i = 1
      BY <3>1, <3>2, <1>2
    <3>3. CASE i # 1
      <4>1. i - 1 \in 1 .. Len(q) /\ y = q[i - 1]
        BY <3>1, <3>3, <1>2
      <4> QED
        BY <4>1, <1>4 DEF ToSet
    <3> QED
      BY <3>2, <3>3
  <2>2. ASSUME NEW y \in ToSet(q) PROVE y \in ToSet(r)
    <3>1. PICK i \in 1 .. Len(q) : y = q[i]
      BY <1>4 DEF ToSet
    <3>2. i + 1 \in 1 .. Len(q) + 1 /\ r[i + 1] = y
      BY <3>1, <1>2
    <3> QED
      BY <3>2, <1>4 DEF ToSet
  <2>3. x \in ToSet(r)
    <3>1. 1 \in DOMAIN r /\ r[1] = x
      BY <1>2, <1>4
    <3> QED
      BY <3>1 DEF ToSet
  <2> QED
    BY <2>1, <2>2, <2>3
<1>6. ASSUME IsInjective(q), x \notin ToSet(q) PROVE IsInjective(r)
  <2>1. ASSUME NEW i \in 1 .. Len(q) + 1, NEW j \in 1 .. Len(q) + 1, r[i] = r[j]
        PROVE  i = j
    <3>1. \A k \in 1 .. Len(q) : q[k] # x
      BY <1>4, <1>6 DEF ToSet
    <3>2. \A k, l \in 1 .. Len(q) : q[k] = q[l] => k = l
      BY <1>4, <1>6 DEF IsInjective
    <3>3. \A k \in 1 .. Len(q) + 1 : k # 1 => k - 1 \in 1 .. Len(q) /\ r[k] = q[k - 1]
      BY <1>2
    <3>4. r[1] = x
      BY <1>2
    <3>5. CASE i = 1
      BY <3>5, <3>1, <3>3, <3>4, <2>1
    <3>6. CASE j = 1
      BY <3>6, <3>1, <3>3, <3>4, <2>1
    <3>7. CASE i # 1 /\ j # 1
      <4>1. i - 1 = j - 1
        BY <3>7, <3>2, <3>3, <2>1
      <4> QED
        BY <4>1
    <3> QED
      BY <3>5, <3>6, <3>7
  <2> QED
    BY <2>1, <1>4 DEF IsInjective
<1> QED
  BY <1>2, <1>3, <1>5, <1>6

(* Erasing one element of a list without duplicates removes its value and   *)
(* nothing else.                                                            *)
LEMMA Erase ==
    ASSUME NEW S, NEW q \in Seq(S), IsInjective(q), NEW k \in DOMAIN q
    PROVE  /\ RemoveAt(q, k) \in Seq(S)
           /\ Len(RemoveAt(q, k)) = Len(q) - 1
           /\ ToSet(RemoveAt(q, k)) = ToSet(q) \ {q[k]}
           /\ IsInjective(RemoveAt(q, k))
<1> DEFINE a == SubSeq(q, 1, k - 1)
           b == SubSeq(q, k + 1, Len(q))
           r == a \o b
<1>1. Len(q) \in Nat /\ DOMAIN q = 1 .. Len(q) /\ k \in 1 .. Len(q)
      /\ \A i \in 1 .. Len(q) : q[i] \in S
  BY LenProperties, ElementOfSeq
<1>2. /\ a \in Seq(S) /\ Len(a) = k - 1
      /\ \A i \in 1 .. k - 1 : a[i] = q[i]
  <2>1. \A i \in 1 .. k - 1 : q[i] \in S
    BY <1>1
  <2> HIDE DEF a
  <2>2. /\ a \in Seq(S)
        /\ Len(a) = IF 1 <= k - 1 THEN (k - 1) - 1 + 1 ELSE 0
        /\ \A i \in 1 .. (k - 1) - 1 + 1 : a[i] = q[1 + i - 1]
    BY <1>1, <2>1, SubSeqProperties DEF a
  <2> QED
    BY <1>1, <2>2
<1>3. /\ b \in Seq(S) /\ Len(b) = Len(q) - k
      /\ \A i \in 1 .. Len(q) - k : b[i] = q[k + i]
  <2>1. \A i \in k + 1 .. Len(q) : q[i] \in S
    BY <1>1
  <2> HIDE DEF b
  <2>2. /\ b \in Seq(S)
        /\ Len(b) = IF k + 1 <= Len(q) THEN Len(q) - (k + 1) + 1 ELSE 0
        /\ \A i \in 1 .. Len(q) - (k + 1) + 1 : b[i] = q[(k + 1) + i - 1]
    BY <1>1, <2>1, SubSeqProperties DEF b
  <2>3. Len(b) = Len(q) - k
    BY <1>1, <2>2
  <2>4. ASSUME NEW i \in 1 .. Len(q) - k PROVE b[i] = q[k + i]
    <3>1. i \in 1 .. Len(q) - (k + 1) + 1 /\ (k + 1) + i - 1 = k + i
      BY <1>1
    <3> QED
      BY <3>1, <2>2
  <2> QED
    BY <2>2, <2>3, <2>4
<1> HIDE DEF a, b
<1>4. /\ r \in Seq(S)
      /\ Len(r) = Len(q) - 1
      /\ \A i \in 1 .. Len(q) - 1 : r[i] = IF i < k THEN q[i] ELSE q[i + 1]
  <2>1. /\ r \in Seq(S)
        /\ Len(r) = Len(a) + Len(b)
        /\ \A i \in 1 .. Len(a) + Len(b) : r[i] = IF i <= Len(a) THEN a[i] ELSE b[i - Len(a)]
    BY <1>2, <1>3, ConcatProperties
  <2>2. Len(a) + Len(b) = Len(q) - 1
    BY <1>1, <1>2, <1>3
  <2>3. ASSUME NEW i \in 1 .. Len(q) - 1
        PROVE  r[i] = IF i < k THEN q[i] ELSE q[i + 1]
    <3>1. CASE i < k
      BY <3>1, <2>1, <2>2, <1>1, <1>2
    <3>2. CASE ~(i < k)
      <4>1. i - (k - 1) \in 1 .. Len(q) - k /\ k + (i - (k - 1)) = i + 1
        BY <3>2, <1>1
      <4>2. r[i] = b[i - (k - 1)]
        BY <3>2, <2>1, <2>2, <1>1, <1>2
      <4> QED
        BY <4>1, <4>2, <3>2, <1>3
    <3> QED
      BY <3>1, <3>2
  <2> QED
    BY <2>1, <2>2, <2>3
<1>5. RemoveAt(q, k) = r
  BY DEF RemoveAt, a, b
<1> HIDE DEF r
<1>6. DOMAIN r = 1 .. Len(q) - 1
  BY <1>4, LenProperties
<1>7. \A i, j \in 1 .. Len(q) : q[i] = q[j] => i = j
  BY <1>1 DEF IsInjective
<1>8. ToSet(r) = ToSet(q) \ {q[k]}
  <2>1. ASSUME NEW y \in ToSet(r) PROVE y \in ToSet(q) \ {q[k]}
    <3>1. PICK i \in 1 .. Len(q) - 1 : y = r[i]
      BY <1>6 DEF ToSet
    <3>2. PICK j \in 1 .. Len(q) : j # k /\ y = q[j]
      BY <3>1, <1>1, <1>4
    <3> QED
      BY <3>2, <1>1, <1>7 DEF ToSet
  <2>2. ASSUME NEW y \in ToSet(q) \ {q[k]} PROVE y \in ToSet(r)
    <3>1. PICK j \in 1 .. Len(q) : j # k /\ y = q[j]
      BY <1>1 DEF ToSet
    <3>2. CASE j < k
      <4>1. j \in 1 .. Len(q) - 1 /\ r[j] = y
        BY <3>1, <3>2, <1>1, <1>4
      <4> QED
        BY <4>1, <1>6 DEF ToSet
    <3>3. CASE j > k
      <4>1. j - 1 \in 1 .. Len(q) - 1 /\ r[j - 1] = y
        BY <3>1, <3>3, <1>1, <1>4
      <4> QED
        BY <4>1, <1>6 DEF ToSet
    <3> QED
      BY <3>1, <3>2, <3>3, <1>1
  <2> QED
    BY <2>1, <2>2
<1>9. IsInjective(r)
  <2>1. ASSUME NEW i \in 1 .. Len(q) - 1, NEW j \in 1 .. Len(q) - 1, r[i] = r[j]
        PROVE  i = j
    <3> DEFINE up(n) == IF n < k THEN n ELSE n + 1
    <3>1. up(i) \in 1 .. Len(q) /\ up(j) \in 1 .. Len(q)
      BY <1>1
    <3>2. q[up(i)] = q[up(j)]
      BY <2>1, <1>4
    <3>3. up(i) = up(j)
      BY <3>1, <3>2, <1>7
    <3> QED
      BY <3>3, <1>1
  <2> QED
    BY <2>1, <1>6 DEF IsInjective
<1> QED
  BY <1>4, <1>5, <1>8, <1>9

(* A list without duplicates has as many elements as positions.             *)
LEMMA SizeOfList ==
    ASSUME NEW S, NEW q \in Seq(S), IsInjective(q)
    PROVE  IsFiniteSet(ToSet(q)) /\ Cardinality(ToSet(q)) = Len(q)
<1>1. Len(q) \in Nat /\ DOMAIN q = 1 .. Len(q) /\ q \in [1 .. Len(q) -> S]
  BY LenProperties
<1>2. q \in Bijection(1 .. Len(q), ToSet(q))
  BY <1>1 DEF Bijection, Injection, Surjection, ToSet, IsInjective
<1>3. IsFiniteSet(1 .. Len(q)) /\ Cardinality(1 .. Len(q)) = Len(q)
  BY <1>1, FS_Interval
<1>4. ExistsBijection(1 .. Len(q), ToSet(q))
  BY <1>2 DEF ExistsBijection
<1> QED
  BY <1>3, <1>4, FS_Bijection


(* Appending a new element keeps a list without duplicates.                 *)
LEMMA PushBack ==
    ASSUME NEW S, NEW q \in Seq(S), NEW x \in S, x \notin ToSet(q), IsInjective(q)
    PROVE  /\ Append(q, x) \in Seq(S)
           /\ ToSet(Append(q, x)) = ToSet(q) \cup {x}
           /\ IsInjective(Append(q, x))
<1> DEFINE r == Append(q, x)
<1>1. /\ Len(q) \in Nat /\ r \in Seq(S) /\ Len(r) = Len(q) + 1
      /\ \A i \in 1 .. Len(q) : r[i] = q[i]
      /\ r[Len(q) + 1] = x
  BY AppendProperties, LenProperties
<1> HIDE DEF r
<1>2. DOMAIN r = 1 .. Len(q) + 1 /\ DOMAIN q = 1 .. Len(q)
  BY <1>1, LenProperties
<1>3. ToSet(r) = ToSet(q) \cup {x}
  BY <1>1, <1>2 DEF ToSet
<1>4. IsInjective(r)
  BY <1>1, <1>2 DEF IsInjective, ToSet
<1> QED
  BY <1>1, <1>3, <1>4 DEF r

(* Taking the head of a list without duplicates removes it and no other.    *)
LEMMA PopFront ==
    ASSUME NEW S, NEW q \in Seq(S), q # <<>>, IsInjective(q)
    PROVE  /\ Head(q) \in S
           /\ Tail(q) \in Seq(S)
           /\ ToSet(q) = ToSet(Tail(q)) \cup {Head(q)}
           /\ Head(q) \notin ToSet(Tail(q))
           /\ IsInjective(Tail(q))
<1> DEFINE t == Tail(q)
<1>1. /\ Len(q) \in Nat \ {0} /\ t \in Seq(S) /\ Len(t) = Len(q) - 1
      /\ \A i \in 1 .. Len(t) : t[i] = q[i + 1]
      /\ Head(q) = q[1] /\ Head(q) \in S
  BY HeadTailProperties, EmptySeq, LenProperties
<1> HIDE DEF t
<1>2. DOMAIN t = 1 .. Len(q) - 1 /\ DOMAIN q = 1 .. Len(q)
  BY <1>1, LenProperties
<1>3. \A i, j \in 1 .. Len(q) : q[i] = q[j] => i = j
  BY <1>2 DEF IsInjective
<1>4. ToSet(q) = ToSet(t) \cup {q[1]}
  <2>1. ASSUME NEW y \in ToSet(q) PROVE y \in ToSet(t) \cup {q[1]}
    <3>1. PICK i \in 1 .. Len(q) : y = q[i]
      BY <1>2 DEF ToSet
    <3>2. CASE i = 1
      BY <3>1, <3>2
    <3>3. CASE i # 1
      <4>1. i - 1 \in 1 .. Len(q) - 1 /\ t[i - 1] = y
        BY <3>1, <3>3, <1>1
      <4> QED
        BY <4>1, <1>2 DEF ToSet
    <3> QED
      BY <3>2, <3>3
  <2>2. ToSet(t) \subseteq ToSet(q)
    BY <1>1, <1>2 DEF ToSet
  <2>3. q[1] \in ToSet(q)
    BY <1>1, <1>2 DEF ToSet
  <2> QED
    BY <2>1, <2>2, <2>3
<1>5. q[1] \notin ToSet(t)
  BY <1>1, <1>2, <1>3 DEF ToSet
<1>6. IsInjective(t)
  <2>1. ASSUME NEW i \in 1 .. Len(q) - 1, NEW j \in 1 .. Len(q) - 1, t[i] = t[j]
        PROVE  i = j
    <3>1. i + 1 = j + 1
      BY <2>1, <1>1, <1>3
    <3> QED
      BY <3>1
  <2> QED
    BY <2>1, <1>2 DEF IsInjective
<1> QED
  BY <1>1, <1>4, <1>5, <1>6 DEF t


-----------------------------------------------------------------------------
(* The inductive invariant.                                                 *)

(* A sipper appears in the list once, after Dispatch made it, with status   *)
(* false.                                                                   *)
ListIsSound == /\ IsInjective(fs_list)
               /\ Listed \subseteq made
               /\ \A s \in Sipper \ made : ~status[s]

(* The sender holds the mutex exactly between the test of the predicate and *)
(* what follows it, and holds a sipper exactly until it posts it.           *)
SenderHolds == /\ mutex = "sender" <=> pc \in {"prewait", "ready"}
               /\ pc = "post" <=> chosen_fs # None

(* What the predicate found out stays true while the sender holds the       *)
(* mutex, except that the flag may fall.                                    *)
TestStillValid == /\ pc = "prewait" => MustWait
                  /\ pc = "ready" /\ flag => ~MustWait

(* The sender ends after the last task, and main after the sender.          *)
EndsInOrder == /\ pc = "ended" => posted = <<>> /\ running = {}
               /\ mainPc = "exited" => pc = "ended"

IInv == /\ TypeOK
        /\ ListIsSound
        /\ CounterExact
        /\ HandedOverOnce
        /\ SenderHolds
        /\ TestStillValid
        /\ NoLostWork
        /\ EndsInOrder

(* What every proof about a step needs of the counter.                      *)
LEMMA CounterFacts ==
    ASSUME TypeOK, ListIsSound, CounterExact
    PROVE  /\ IsFiniteSet(Active) /\ IsFiniteSet(Listed)
           /\ Active \subseteq Listed /\ Listed \subseteq Sipper
           /\ active_fs \in Nat /\ Len(fs_list) \in Nat
           /\ Cardinality(Listed) = Len(fs_list)
           /\ Len(fs_list) <= active_fs => Listed = Active
<1>1. IsFiniteSet(Listed) /\ Cardinality(Listed) = Len(fs_list) /\ Len(fs_list) \in Nat
  BY SizeOfList, LenProperties DEF TypeOK, ListIsSound, Listed
<1>2. Active \subseteq Listed
  BY DEF Active
<1>3. IsFiniteSet(Active) /\ Cardinality(Active) <= Cardinality(Listed)
      /\ (Cardinality(Active) = Cardinality(Listed) => Active = Listed)
  BY <1>1, <1>2, FS_Subset
<1>4. active_fs \in Nat
  BY <1>3, FS_CardinalityType DEF CounterExact
<1>5. Listed \subseteq Sipper
  BY ElementOfSeq, LenProperties DEF TypeOK, Listed, ToSet
<1>6. Len(fs_list) <= active_fs => Listed = Active
  BY <1>1, <1>3, <1>4 DEF CounterExact
<1> QED
  BY <1>1, <1>2, <1>3, <1>4, <1>5, <1>6

LEMMA InitIInv == Init => IInv
<1> SUFFICES ASSUME Init PROVE IInv
  OBVIOUS
<1>1. <<>> \in Seq(Sipper) /\ ToSet(<<>>) = {} /\ IsInjective(<<>>)
  BY DEF ToSet, IsInjective
<1>2. Listed = {} /\ Active = {}
  BY <1>1 DEF Init, Listed, Active
<1>3. TypeOK
  <2>1. fs_list \in Seq(Sipper) /\ posted \in Seq(Sipper)
    BY <1>1 DEF Init
  <2>2. status \in [Sipper -> BOOLEAN]
    BY DEF Init
  <2>3. flag \in BOOLEAN /\ senderFlag \in BOOLEAN /\ sawShutdown \in BOOLEAN
    BY DEF Init
  <2>4. active_fs \in Int
    BY DEF Init
  <2>5. /\ mutex \in {"free", "sender"} /\ pc \in SenderPc /\ mainPc \in MainPc
        /\ made \in SUBSET Sipper /\ running \in SUBSET Sipper
        /\ chosen_fs \in Sipper \cup {None}
    BY DEF Init, SenderPc, MainPc
  <2> QED
    BY <2>1, <2>2, <2>3, <2>4, <2>5 DEF TypeOK
<1>4. CounterExact
  BY <1>2, FS_EmptySet, MaxActiveAssumption DEF Init, CounterExact
<1>5. ListIsSound
  BY <1>1, <1>2 DEF Init, ListIsSound
<1>6. HandedOverOnce
  BY <1>1, <1>2 DEF Init, HandedOverOnce
<1>7. SenderHolds /\ TestStillValid /\ NoLostWork /\ EndsInOrder
  BY DEF Init, SenderHolds, TestStillValid, NoLostWork, EndsInOrder
<1> QED
  BY <1>3, <1>4, <1>5, <1>6, <1>7 DEF IInv


-----------------------------------------------------------------------------
(* One lemma per step that changes the list or moves a sipper from hand to  *)
(* hand; the steps that move only program counters and flags share one.     *)

(* A step that leaves the list, the statuses and all hands as they are.     *)
LEMMA Frame ==
    ASSUME ListIsSound, CounterExact, HandedOverOnce,
           UNCHANGED <<fs_list, status, active_fs, made, chosen_fs, posted, running>>
    PROVE  /\ ListIsSound' /\ CounterExact' /\ HandedOverOnce'
           /\ MustWait' = MustWait
<1>1. Listed' = Listed
  BY DEF Listed
<1>2. Active' = Active
  BY <1>1 DEF Active
<1>3. ListIsSound'
  BY <1>1 DEF ListIsSound
<1>4. CounterExact'
  BY <1>2 DEF CounterExact
<1>5. HandedOverOnce'
  BY <1>2 DEF HandedOverOnce
<1>6. MustWait' = MustWait
  BY DEF MustWait, AllActive
<1> QED
  BY <1>3, <1>4, <1>5, <1>6

LEMMA StepInsert ==
    ASSUME IInv, NEW s \in Sipper, insert(s)
    PROVE  IInv' /\ Listed' = Listed \cup {s} /\ Active' = Active
<1> USE DEF IInv
<1>1. s \notin Listed /\ ~status[s] /\ s \notin Active
  BY DEF insert, ListIsSound, Active
<1>2. /\ fs_list' \in Seq(Sipper) /\ fs_list' # <<>>
      /\ Len(fs_list') = Len(fs_list) + 1
      /\ Listed' = Listed \cup {s}
      /\ IsInjective(fs_list')
  BY <1>1, PushFront DEF TypeOK, insert, Listed, ListIsSound
<1>3. Active' = Active
  BY <1>1, <1>2 DEF Active, insert
<1>4. TypeOK'
  <2>1. pc' \in SenderPc
    BY DEF TypeOK, insert, Woken, SenderPc
  <2>2. made' \in SUBSET Sipper
    BY DEF TypeOK, insert
  <2>3. UNCHANGED <<status, active_fs, flag, mutex, senderFlag, sawShutdown, mainPc,
                    chosen_fs, posted, running>>
    BY DEF insert, poolVars, mainVars
  <2> QED
    BY <1>2, <2>1, <2>2, <2>3 DEF TypeOK
<1>5. ListIsSound'
  BY <1>2 DEF ListIsSound, insert
<1>6. CounterExact'
  BY <1>3 DEF CounterExact, insert
<1>7. HandedOverOnce'
  BY <1>3 DEF HandedOverOnce, insert, poolVars
<1>8. pc' # "waiting" /\ mutex = "free" /\ mutex' = "free"
      /\ pc' \notin {"prewait", "ready"} /\ chosen_fs' = chosen_fs
      /\ (pc' = "post" <=> pc = "post")
  BY DEF insert, Woken, SenderHolds
<1>9. SenderHolds' /\ TestStillValid' /\ NoLostWork'
  BY <1>8 DEF SenderHolds, TestStillValid, NoLostWork
<1>10. EndsInOrder'
  BY DEF EndsInOrder, insert, Woken, poolVars, mainVars
<1> QED
  BY <1>2, <1>3, <1>4, <1>5, <1>6, <1>7, <1>9, <1>10

LEMMA StepSendEnds ==
    ASSUME IInv, NEW s \in Sipper, SendEnds(s)
    PROVE  IInv' /\ s \in Active /\ Listed' = Listed \ {s} /\ Active' = Active \ {s}
<1> USE DEF IInv
<1>1. s \in Active /\ s \in running /\ s # chosen_fs /\ s \notin ToSet(posted)
  BY SipperAssumption DEF SendEnds, HandedOverOnce
<1>2. PICK k \in DOMAIN fs_list : fs_list[k] = s /\ fs_list' = RemoveAt(fs_list, k)
  BY DEF SendEnds, remove_element
<1>3. /\ fs_list' \in Seq(Sipper)
      /\ Len(fs_list') = Len(fs_list) - 1
      /\ Listed' = Listed \ {s}
      /\ IsInjective(fs_list')
  BY <1>2, Erase DEF TypeOK, Listed, ListIsSound
<1>4. Active' = Active \ {s}
  BY <1>3 DEF Active, SendEnds, remove_element
<1>5. /\ IsFiniteSet(Active) /\ active_fs \in Nat /\ Len(fs_list) \in Nat
      /\ active_fs = Cardinality(Active) /\ active_fs <= MaxActive
  BY CounterFacts DEF CounterExact
<1>6. Cardinality(Active') = active_fs - 1 /\ active_fs - 1 \in Nat
  <2>1. IsFiniteSet(Active \ {s}) /\ Cardinality(Active \ {s}) = Cardinality(Active) - 1
    BY <1>1, <1>5, FS_RemoveElement
  <2>2. Cardinality(Active \ {s}) \in Nat
    BY <2>1, FS_CardinalityType
  <2> QED
    BY <2>1, <2>2, <1>4, <1>5
<1>7. active_fs' = active_fs - 1
  BY DEF SendEnds, remove_element
<1>8. TypeOK'
  <2>1. pc' \in SenderPc
    BY DEF TypeOK, SendEnds, remove_element, Woken, SenderPc
  <2>2. running' \in SUBSET Sipper
    BY DEF TypeOK, SendEnds
  <2>3. active_fs' \in Int
    BY <1>5, <1>7
  <2>4. UNCHANGED <<status, flag, mutex, made, senderFlag, sawShutdown, mainPc,
                    chosen_fs, posted>>
    BY DEF SendEnds, remove_element, mainVars
  <2> QED
    BY <1>3, <2>1, <2>2, <2>3, <2>4 DEF TypeOK
<1>9. ListIsSound'
  BY <1>3 DEF ListIsSound, SendEnds, remove_element
<1>10. CounterExact'
  BY <1>5, <1>6, <1>7, MaxActiveAssumption DEF CounterExact
<1>11. HandedOverOnce'
  BY <1>1, <1>4 DEF HandedOverOnce, SendEnds, remove_element
<1>12. /\ mutex = "free" /\ mutex' = "free" /\ pc \notin {"prewait", "ready"}
       /\ chosen_fs' = chosen_fs /\ flag' = flag /\ pc' \in {pc, Woken}
  BY DEF SendEnds, remove_element, SenderHolds
<1>13. SenderHolds' /\ TestStillValid'
  BY <1>12 DEF SenderHolds, TestStillValid, Woken
<1>14. NoLostWork'
  <2> SUFFICES ASSUME pc' = "waiting", flag' PROVE MustWait'
    BY DEF NoLostWork
  <2>1. pc' # Woken
    BY DEF Woken
  <2>2. ~(fs_list' # <<>> /\ 0 <= active_fs' /\ active_fs' < Len(fs_list'))
    BY <2>1 DEF SendEnds, remove_element
  <2>3. CASE fs_list' = <<>>
    BY <2>3 DEF MustWait
  <2>4. CASE fs_list' # <<>>
    <3>1. ~(active_fs' < Len(fs_list'))
      BY <2>2, <2>4, <1>5, <1>6, <1>7
    <3>2. Len(fs_list') <= active_fs'
      BY <3>1, <1>3, <1>5, <1>7
    <3> QED
      BY <3>2 DEF MustWait, AllActive
  <2> QED
    BY <2>3, <2>4
<1>15. EndsInOrder'
  <2>1. pc # "ended" /\ mainPc # "exited" /\ mainPc' = mainPc
    BY <1>1 DEF EndsInOrder, SendEnds, mainVars
  <2> QED
    BY <2>1, <1>12 DEF EndsInOrder, Woken
<1> QED
  BY <1>1, <1>3, <1>4, <1>8, <1>9, <1>10, <1>11, <1>13, <1>14, <1>15


LEMMA StepSearches ==
    ASSUME IInv, SenderSearches
    PROVE  /\ IInv' /\ Listed' = Listed
           /\ Cardinality(Active) < MaxActive
           /\ \E s \in Idle : Active' = Active \cup {s}
<1> USE DEF IInv
<1>1. ~MustWait
  BY DEF TestStillValid, SenderSearches
<1>2. /\ IsFiniteSet(Active) /\ IsFiniteSet(Listed) /\ Active \subseteq Listed
      /\ Listed \subseteq Sipper
      /\ active_fs \in Nat /\ Len(fs_list) \in Nat
      /\ Cardinality(Listed) = Len(fs_list) /\ active_fs = Cardinality(Active)
  BY CounterFacts DEF CounterExact
<1>3. active_fs < Len(fs_list) /\ ~(active_fs >= MaxActive)
  BY <1>1, <1>2 DEF MustWait, AllActive
<1>4. Idle # {}
  <2>1. ASSUME Idle = {} PROVE Listed = Active
    BY <2>1, <1>2 DEF Idle
  <2> QED
    BY <2>1, <1>2, <1>3
<1>5. PICK i \in DOMAIN fs_list :
         /\ ~status[fs_list[i]]
         /\ status' = [status EXCEPT ![fs_list[i]] = TRUE]
         /\ chosen_fs' = fs_list[i]
         /\ active_fs' = active_fs + 1
         /\ pc' = "post"
  BY <1>4 DEF SenderSearches
<1> DEFINE s == fs_list[i]
<1>6. s \in Listed /\ s \in Sipper /\ s \notin Active
  BY <1>2, <1>5 DEF Listed, ToSet, Active
<1>7. /\ UNCHANGED <<fs_list, flag, made, sawShutdown, senderFlag, mainPc, posted, running>>
      /\ mutex' = "free" /\ mutex = "sender" /\ pc = "ready" /\ chosen_fs = None
  BY DEF SenderSearches, SenderHolds, poolVars, mainVars
<1> HIDE DEF s
<1>8. Listed' = Listed
  BY <1>7 DEF Listed
<1>9. /\ status' \in [Sipper -> BOOLEAN]
      /\ \A x \in Sipper : status'[x] = IF x = s THEN TRUE ELSE status[x]
  BY <1>5, <1>6 DEF TypeOK, s
<1>10. Active' = Active \cup {s}
  BY <1>2, <1>6, <1>8, <1>9 DEF Active
<1>11. Cardinality(Active') = active_fs + 1
  BY <1>2, <1>6, <1>10, FS_AddElement
<1>12. TypeOK'
  <2>1. active_fs' \in Int /\ pc' \in SenderPc /\ mutex' \in {"free", "sender"}
    BY <1>2, <1>5, <1>7 DEF SenderPc
  <2>2. chosen_fs' \in Sipper \cup {None}
    BY <1>5, <1>6 DEF s
  <2> QED
    BY <1>7, <1>9, <2>1, <2>2 DEF TypeOK
<1>13. ListIsSound'
  <2>1. s \in made
    BY <1>6 DEF ListIsSound
  <2> QED
    BY <2>1, <1>7, <1>8, <1>9 DEF ListIsSound, TypeOK
<1>14. CounterExact'
  BY <1>2, <1>3, <1>5, <1>11, MaxActiveAssumption DEF CounterExact
<1>15. HandedOverOnce'
  <2>1. chosen_fs' = s /\ s # None
    BY <1>5, <1>6, SipperAssumption DEF s
  <2>2. Active = ToSet(posted) \cup running /\ running \cap ToSet(posted) = {}
        /\ IsInjective(posted)
    BY <1>7 DEF HandedOverOnce
  <2>3. s \notin ToSet(posted) /\ s \notin running
    BY <2>2, <1>6
  <2> QED
    BY <1>7, <1>10, <2>1, <2>2, <2>3 DEF HandedOverOnce
<1>16. SenderHolds'
  BY <1>5, <1>6, <1>7, SipperAssumption DEF SenderHolds, s
<1>17. TestStillValid' /\ NoLostWork' /\ EndsInOrder'
  BY <1>5, <1>7 DEF TestStillValid, NoLostWork, EndsInOrder
<1> QED
  <2>1. s \in Idle
    BY <1>6 DEF Idle
  <2>2. Cardinality(Active) < MaxActive
    BY <1>2, <1>3, MaxActiveAssumption
  <2> QED
    BY <2>1, <2>2, <1>8, <1>10, <1>12, <1>13, <1>14, <1>15, <1>16, <1>17

LEMMA StepPosts ==
    ASSUME IInv, SenderPosts
    PROVE  IInv' /\ Listed' = Listed /\ Active' = Active
<1> USE DEF IInv
<1>1. /\ pc = "post" /\ pc' = "loop" /\ chosen_fs # None /\ chosen_fs \in Sipper
      /\ chosen_fs' = None /\ posted' = Append(posted, chosen_fs)
      /\ UNCHANGED <<fs_list, status, active_fs, flag, mutex, made, sawShutdown,
                     senderFlag, mainPc, running>>
  BY DEF SenderPosts, SenderHolds, TypeOK, queueVars, mainVars
<1>2. /\ chosen_fs \notin ToSet(posted) /\ chosen_fs \notin running
      /\ IsInjective(posted) /\ posted \in Seq(Sipper)
  BY <1>1 DEF HandedOverOnce, TypeOK
<1>3. /\ posted' \in Seq(Sipper) /\ IsInjective(posted')
      /\ ToSet(posted') = ToSet(posted) \cup {chosen_fs}
  BY <1>1, <1>2, PushBack
<1>4. Listed' = Listed
  BY <1>1 DEF Listed
<1>5. Active' = Active
  BY <1>1, <1>4 DEF Active
<1>6. TypeOK'
  <2>1. pc' \in SenderPc
    BY <1>1 DEF SenderPc
  <2> QED
    BY <1>1, <1>3, <2>1 DEF TypeOK
<1>7. ListIsSound' /\ CounterExact'
  BY <1>1, <1>4, <1>5 DEF ListIsSound, CounterExact
<1>8. HandedOverOnce'
  BY <1>1, <1>2, <1>3, <1>5 DEF HandedOverOnce
<1>9. SenderHolds' /\ TestStillValid' /\ NoLostWork' /\ EndsInOrder'
  BY <1>1 DEF SenderHolds, TestStillValid, NoLostWork, EndsInOrder
<1> QED
  BY <1>4, <1>5, <1>6, <1>7, <1>8, <1>9

LEMMA StepTakes ==
    ASSUME IInv, WorkerTakes
    PROVE  IInv' /\ Listed' = Listed /\ Active' = Active
<1> USE DEF IInv
<1>1. /\ posted # <<>> /\ running' = running \cup {Head(posted)} /\ posted' = Tail(posted)
      /\ UNCHANGED <<fs_list, status, active_fs, flag, mutex, made, pc, chosen_fs,
                     sawShutdown, senderFlag, mainPc>>
  BY DEF WorkerTakes, queueVars, senderVars, mainVars
<1>2. /\ Head(posted) \in Sipper /\ posted' \in Seq(Sipper) /\ IsInjective(posted')
      /\ ToSet(posted) = ToSet(posted') \cup {Head(posted)}
      /\ Head(posted) \notin ToSet(posted')
  BY <1>1, PopFront DEF TypeOK, HandedOverOnce
<1>3. Listed' = Listed
  BY <1>1 DEF Listed
<1>4. Active' = Active
  BY <1>1, <1>3 DEF Active
<1>5. TypeOK'
  BY <1>1, <1>2 DEF TypeOK
<1>6. ListIsSound' /\ CounterExact'
  BY <1>1, <1>3, <1>4 DEF ListIsSound, CounterExact
<1>7. HandedOverOnce'
  BY <1>1, <1>2, <1>4 DEF HandedOverOnce
<1>8. MustWait' = MustWait
  BY <1>1 DEF MustWait, AllActive
<1>9. SenderHolds' /\ TestStillValid' /\ NoLostWork' /\ EndsInOrder'
  BY <1>1, <1>8 DEF SenderHolds, TestStillValid, NoLostWork, EndsInOrder
<1> QED
  BY <1>3, <1>4, <1>5, <1>6, <1>7, <1>9


(* The steps of the sender and of main that move no sipper.                 *)
LEMMA StepControl ==
    ASSUME IInv,
           \/ SenderContinues \/ SenderLeavesLoop \/ SenderTests \/ SenderBlocks
           \/ SpuriousWakeup \/ SenderSeesShutdown \/ SenderJoinsPool
           \/ MainNext \/ Signal \/ UNCHANGED vars
    PROVE  IInv' /\ Listed' = Listed /\ Active' = Active
<1> USE DEF IInv
<1>1. UNCHANGED <<fs_list, status, active_fs, made, chosen_fs, posted, running>>
  BY DEF SenderContinues, SenderLeavesLoop, SenderTests, SenderBlocks, SpuriousWakeup,
         SenderSeesShutdown, SenderJoinsPool, MainNext, MainClearsSenderFlag,
         MainStoresFlag, MainNotifies, MainJoins, Signal, SenderHolds,
         vars, queueVars, senderVars, poolVars, mainVars
<1>2. ListIsSound' /\ CounterExact' /\ HandedOverOnce' /\ MustWait' = MustWait
  BY <1>1, Frame
<1>3. TypeOK' /\ SenderHolds' /\ TestStillValid' /\ NoLostWork' /\ EndsInOrder'
  <2> DEFINE Goal == TypeOK' /\ SenderHolds' /\ TestStillValid' /\ NoLostWork' /\ EndsInOrder'
  <2> USE <1>1, <1>2 DEF TypeOK, SenderHolds, TestStillValid, NoLostWork, EndsInOrder,
                         SenderPc, MainPc, queueVars, senderVars, poolVars, mainVars
  <2>1. ASSUME SenderContinues PROVE Goal
    BY <2>1 DEF SenderContinues
  <2>2. ASSUME SenderLeavesLoop PROVE Goal
    BY <2>2 DEF SenderLeavesLoop
  <2>3. ASSUME SenderTests PROVE Goal
    BY <2>3 DEF SenderTests
  <2>4. ASSUME SenderBlocks PROVE Goal
    BY <2>4 DEF SenderBlocks
  <2>5. ASSUME SpuriousWakeup PROVE Goal
    BY <2>5 DEF SpuriousWakeup
  <2>6. ASSUME SenderSeesShutdown PROVE Goal
    BY <2>6 DEF SenderSeesShutdown
  <2>7. ASSUME SenderJoinsPool PROVE Goal
    BY <2>7 DEF SenderJoinsPool
  <2>8. ASSUME MainClearsSenderFlag PROVE Goal
    BY <2>8 DEF MainClearsSenderFlag
  <2>9. ASSUME MainStoresFlag PROVE Goal
    BY <2>9 DEF MainStoresFlag
  <2>10. ASSUME MainNotifies PROVE Goal
    BY <2>10 DEF MainNotifies, Woken
  <2>11. ASSUME MainJoins PROVE Goal
    BY <2>11 DEF MainJoins
  <2>12. ASSUME Signal PROVE Goal
    BY <2>12 DEF Signal
  <2>13. ASSUME UNCHANGED vars PROVE Goal
    BY <2>13 DEF vars
  <2> QED
    BY <2>1, <2>2, <2>3, <2>4, <2>5, <2>6, <2>7, <2>8, <2>9, <2>10, <2>11, <2>12, <2>13
       DEF MainNext
<1>4. Listed' = Listed
  BY <1>1 DEF Listed
<1>5. Active' = Active
  BY <1>1, <1>4 DEF Active
<1> QED
  BY <1>2, <1>3, <1>4, <1>5

LEMMA NextIInv == IInv /\ [Next]_vars => IInv'
<1> SUFFICES ASSUME IInv, [Next]_vars PROVE IInv'
  OBVIOUS
<1>1. CASE \E s \in Sipper : insert(s)
  BY <1>1, StepInsert
<1>2. CASE \E s \in Sipper : SendEnds(s)
  BY <1>2, StepSendEnds
<1>3. CASE SenderSearches
  BY <1>3, StepSearches
<1>4. CASE SenderPosts
  BY <1>4, StepPosts
<1>5. CASE WorkerTakes
  BY <1>5, StepTakes
<1>6. CASE \/ SenderContinues \/ SenderLeavesLoop \/ SenderTests \/ SenderBlocks
           \/ SpuriousWakeup \/ SenderSeesShutdown \/ SenderJoinsPool
           \/ MainNext \/ Signal \/ UNCHANGED vars
  BY <1>6, StepControl
<1> QED
  BY <1>1, <1>2, <1>3, <1>4, <1>5, <1>6 DEF Next, SenderNext

-----------------------------------------------------------------------------
(* IInv holds in every reachable state, whatever the number of sippers, the *)
(* limit and the size of the pool.                                          *)
THEOREM Invariance == Spec => []IInv
<1>1. Init => IInv
  BY InitIInv
<1>2. IInv /\ [Next]_vars => IInv'
  BY NextIInv
<1> QED
  BY <1>1, <1>2, PTL DEF Spec

(* The variables keep their types.                                          *)
THEOREM TypeCorrect == Spec => []TypeOK
<1>1. IInv => TypeOK
  BY DEF IInv
<1> QED
  BY <1>1, Invariance, PTL

(* The counter of active sippers, kept by hand in three functions, counts   *)
(* exactly the sippers handed over, and the limit is never exceeded.        *)
THEOREM CounterIsExact == Spec => []CounterExact
<1>1. IInv => CounterExact
  BY DEF IInv
<1> QED
  BY <1>1, Invariance, PTL

(* Each sipper marked active is in exactly one pair of hands.               *)
THEOREM NoSipperTwice == Spec => []HandedOverOnce
<1>1. IInv => HandedOverOnce
  BY DEF IInv
<1> QED
  BY <1>1, Invariance, PTL

(* No notify for work is ever lost.                                         *)
THEOREM WorkIsNotLost == Spec => []NoLostWork
<1>1. IInv => NoLostWork
  BY DEF IInv
<1> QED
  BY <1>1, Invariance, PTL

(* No task runs when main has returned.                                     *)
THEOREM ExitIsClean == Spec => []NothingRunsAfterExit
<1>1. IInv => NothingRunsAfterExit
  <2> SUFFICES ASSUME IInv, mainPc = "exited"
               PROVE  Active = {} /\ posted = <<>> /\ running = {}
    BY DEF NothingRunsAfterExit
  <2>1. pc = "ended" /\ posted = <<>> /\ running = {}
    BY DEF IInv, EndsInOrder
  <2>2. chosen_fs = None
    BY <2>1 DEF IInv, SenderHolds
  <2>3. ToSet(posted) = {}
    BY <2>1 DEF ToSet
  <2>4. Active = {}
    BY <2>1, <2>2, <2>3 DEF IInv, HandedOverOnce
  <2> QED
    BY <2>1, <2>4
<1> QED
  BY <1>1, Invariance, PTL

(* The null pointer that get_ready_FileSipper returns when its search finds *)
(* nothing is never returned: null means shutdown.                          *)
THEOREM NullMeansShutdown == Spec => NullOnlyAtShutdown
<1> DEFINE A == pc = "ready" /\ pc' = "loop" => ~flag
<1>1. IInv /\ [Next]_vars => [A]_vars
  <2> SUFFICES ASSUME IInv, Next, pc = "ready", pc' = "loop", flag PROVE FALSE
    OBVIOUS
  <2>1. ~MustWait
    BY DEF IInv, TestStillValid
  <2>2. /\ active_fs \in Nat /\ Len(fs_list) \in Nat
        /\ Cardinality(Listed) = Len(fs_list) /\ active_fs = Cardinality(Active)
        /\ Active \subseteq Listed
    BY CounterFacts DEF IInv, CounterExact
  <2>3. active_fs < Len(fs_list)
    BY <2>1, <2>2 DEF MustWait, AllActive
  <2>4. Idle # {}
    <3>1. ASSUME Idle = {} PROVE Listed = Active
      BY <3>1, <2>2 DEF Idle
    <3> QED
      BY <3>1, <2>2, <2>3
  <2>5. mutex = "sender"
    BY DEF IInv, SenderHolds
  <2>6. CASE SenderNext
    BY <2>4, <2>6 DEF SenderNext, SenderContinues, SenderLeavesLoop, SenderTests,
          SenderBlocks, SenderSeesShutdown, SenderSearches, SenderPosts, SenderJoinsPool
  <2>7. CASE ~SenderNext
    BY <2>5, <2>7 DEF Next, insert, SendEnds, remove_element, SpuriousWakeup, WorkerTakes,
          MainNext, MainClearsSenderFlag, MainStoresFlag, MainNotifies, MainJoins, Signal,
          Woken, senderVars
  <2> QED
    BY <2>6, <2>7
<1> QED
  BY <1>1, Invariance, PTL DEF Spec, NullOnlyAtShutdown

(* The queue and its sender implement the pool of jobs: every step of every *)
(* thread submits, begins or ends one job, closes the pool, or changes      *)
(* nothing the pool can see.                                                *)
THEOREM Refinement == Spec => ImplementsWorkPool
<1> DEFINE PoolStep == [Pool!Next]_<<Idle, Active, made \ Listed, flag>>
<1>1. Init => Pool!Init
  <2> SUFFICES ASSUME Init PROVE Pool!Init
    OBVIOUS
  <2>1. Listed = {} /\ Active = {} /\ Idle = {}
    BY DEF Init, Listed, ToSet, Active, Idle
  <2> QED
    BY <2>1 DEF Init, Pool!Init
<1>2. IInv /\ [Next]_vars => PoolStep
  <2> SUFFICES ASSUME IInv, [Next]_vars PROVE PoolStep
    OBVIOUS
  <2>1. Active \subseteq Listed /\ Listed \subseteq made /\ Listed \subseteq Sipper
    BY CounterFacts DEF IInv, ListIsSound
  <2>2. ASSUME NEW s \in Sipper, insert(s) PROVE PoolStep
    <3>1. Listed' = Listed \cup {s} /\ Active' = Active
      BY <2>2, StepInsert
    <3>2. s \notin made /\ made' = made \cup {s} /\ flag' = flag
      BY <2>2 DEF insert
    <3>3. Pool!Submit(s)
      BY <2>1, <3>1, <3>2 DEF Pool!Submit, Idle
    <3> QED
      BY <3>3 DEF Pool!Next
  <2>3. ASSUME NEW s \in Sipper, SendEnds(s) PROVE PoolStep
    <3>1. s \in Active /\ Listed' = Listed \ {s} /\ Active' = Active \ {s}
      BY <2>3, StepSendEnds
    <3>2. made' = made /\ flag' = flag
      BY <2>3 DEF SendEnds, remove_element
    <3>3. Pool!End(s)
      BY <2>1, <3>1, <3>2 DEF Pool!End, Idle
    <3> QED
      BY <3>3 DEF Pool!Next
  <2>4. ASSUME SenderSearches PROVE PoolStep
    <3>1. PICK s \in Idle : Listed' = Listed /\ Active' = Active \cup {s}
      BY <2>4, StepSearches
    <3>2. flag /\ flag' = flag /\ made' = made /\ Cardinality(Active) < MaxActive
      BY <2>4, StepSearches DEF SenderSearches
    <3>3. Pool!Begin(s)
      <4>1. Idle' = Idle \ {s} /\ s \in Idle
        BY <3>1 DEF Idle
      <4>2. (made \ Listed)' = made \ Listed
        BY <3>1, <3>2
      <4>3. Pool!Cardinality(Active) = Cardinality(Active)
        BY DEF Pool!Cardinality, Cardinality
      <4> QED
        BY <3>1, <3>2, <4>1, <4>2, <4>3 DEF Pool!Begin
    <3>4. s \in Sipper
      BY <2>1 DEF Idle
    <3> QED
      BY <3>3, <3>4 DEF Pool!Next
  <2>5. ASSUME SenderPosts PROVE PoolStep
    <3>1. Listed' = Listed /\ Active' = Active /\ made' = made /\ flag' = flag
      BY <2>5, StepPosts DEF SenderPosts, queueVars
    <3> QED
      BY <3>1 DEF Idle
  <2>6. ASSUME WorkerTakes PROVE PoolStep
    <3>1. Listed' = Listed /\ Active' = Active /\ made' = made /\ flag' = flag
      BY <2>6, StepTakes DEF WorkerTakes, queueVars
    <3> QED
      BY <3>1 DEF Idle
  <2>7. ASSUME \/ SenderContinues \/ SenderLeavesLoop \/ SenderTests \/ SenderBlocks
               \/ SpuriousWakeup \/ SenderSeesShutdown \/ SenderJoinsPool
               \/ MainNext \/ Signal \/ UNCHANGED vars
        PROVE  PoolStep
    <3>1. Listed' = Listed /\ Active' = Active
      BY <2>7, StepControl
    <3>2. Idle' = Idle
      BY <3>1 DEF Idle
    <3>3. made' = made /\ (flag' = flag \/ flag' = FALSE)
      BY <2>7 DEF SenderContinues, SenderLeavesLoop, SenderTests, SenderBlocks,
            SpuriousWakeup, SenderSeesShutdown, SenderJoinsPool, MainNext,
            MainClearsSenderFlag, MainStoresFlag, MainNotifies, MainJoins, Signal,
            vars, queueVars
    <3>4. CASE flag' = flag
      BY <3>1, <3>2, <3>3, <3>4
    <3>5. CASE flag' = FALSE
      <4>1. Pool!Close
        BY <3>1, <3>2, <3>3, <3>5 DEF Pool!Close
      <4> QED
        BY <4>1 DEF Pool!Next
    <3> QED
      BY <3>3, <3>4, <3>5
  <2> QED
    BY <2>2, <2>3, <2>4, <2>5, <2>6, <2>7 DEF Next, SenderNext
<1>3. IInv /\ [Next]_vars => [Pool!Next]_(Pool!poolVars)
  BY <1>2 DEF Pool!poolVars
<1> QED
  BY <1>1, <1>3, Invariance, PTL DEF Spec, ImplementsWorkPool, Pool!Spec
=============================================================================
