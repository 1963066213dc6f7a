--------------------------- MODULE DoublingProofs ---------------------------
(***************************************************************************)
(* Proofs about the two places where memory is doubled until it is enough: *)
(* the masks of Select and the buffers of a channel (StreamBuffer), for    *)
(* any sizes.                                                              *)
(*                                                                         *)
(* Doubling: the powers of two, a recursive function, exist and grow       *)
(* beyond every number, so that enough is reached.                         *)
(*                                                                         *)
(* Select: going down the bits, the loop of _poll leaves behind it exactly *)
(* the events that were ready and has not touched those ahead, though the  *)
(* handler takes events out of the masks; no bit is outside its array.     *)
(*                                                                         *)
(* StreamBuffer: a buffer is the sequence of its live bytes, and each      *)
(* operation on the memory is one on that sequence.  What the reader has,  *)
(* what the device has and what the writer has, one after the other, are   *)
(* the bytes of the packages not received yet, without a gap.              *)
(***************************************************************************)
EXTENDS Select, StreamBuffer, SequenceTheorems, WellFoundedInduction, TLAPS

-----------------------------------------------------------------------------
(* Doubling.  What the provers know nothing of, a power, is a recursive    *)
(* function here; induction is the least number that fails.                *)

\* Every set of numbers that is not empty has a least element.
LEMMA Least ==
  ASSUME NEW S \in SUBSET Nat, S # {}
  PROVE  \E m \in S : \A n \in S : m <= n
<1>1. PICK m \in S : \A n \in S : ~(<<n, m>> \in OpToRel(<, Nat))
  BY NatLessThanWellFounded, WFMin
<1>2. \A n \in S : ~(n < m)
  BY <1>1 DEF OpToRel
<1> QED
  BY <1>2

\* The first n + 1 powers.
Powers(n, f) ==
  f \in [0 .. n -> Nat] /\ f[0] = 1 /\ \A k \in 1 .. n : f[k] = 2 * f[k - 1]

\* There is a table of the powers up to any number.
LEMMA PowersExist == \A n \in Nat : \E f : Powers(n, f)
<1> DEFINE S == {n \in Nat : ~\E f : Powers(n, f)}
<1> SUFFICES S = {}
  OBVIOUS
<1> SUFFICES ASSUME S # {} PROVE FALSE
  OBVIOUS
<1>1. PICK m \in S : \A n \in S : m <= n
  BY Least
<1>2. m \in Nat /\ ~\E f : Powers(m, f)
  OBVIOUS
<1>3. CASE m = 0
  <2>1. Powers(0, [k \in 0 .. 0 |-> 1])
    BY DEF Powers
  <2> QED
    BY <1>2, <1>3, <2>1
<1>4. CASE m # 0
  <2>1. m - 1 \in Nat /\ m - 1 \notin S
    BY <1>1, <1>2, <1>4
  <2>2. PICK f : Powers(m - 1, f)
    BY <2>1
  <2> DEFINE g == [k \in 0 .. m |-> IF k = m THEN 2 * f[m - 1] ELSE f[k]]
  <2>3. Powers(m, g)
    BY <1>2, <1>4, <2>1, <2>2 DEF Powers
  <2> QED
    BY <1>2, <2>3
<1> QED
  BY <1>3, <1>4

\* Two tables agree where both are defined.
LEMMA PowersUnique ==
  ASSUME NEW n \in Nat, NEW f, Powers(n, f), NEW m \in Nat, NEW g, Powers(m, g),
         NEW k \in Nat, k <= n, k <= m
  PROVE  f[k] = g[k]
<1> DEFINE S == {j \in Nat : j <= n /\ j <= m /\ f[j] # g[j]}
<1> SUFFICES ASSUME S # {} PROVE FALSE
  OBVIOUS
<1>1. PICK j \in S : \A i \in S : j <= i
  BY Least
<1>2. j # 0
  BY DEF Powers
<1>3. j - 1 \in Nat /\ j - 1 \notin S
  BY <1>1, <1>2
<1>4. f[j - 1] = g[j - 1]
  BY <1>3
<1>5. f[j] = 2 * f[j - 1] /\ g[j] = 2 * g[j - 1]
  BY <1>2, <1>3 DEF Powers
<1> QED
  BY <1>4, <1>5

\* Pow2 is the function its definition describes.
LEMMA Pow2Def == Pow2 = [k \in Nat |-> IF k = 0 THEN 1 ELSE 2 * Pow2[k - 1]]
<1> DEFINE F(n) == CHOOSE f : Powers(n, f)
           P == [n \in Nat |-> F(n)[n]]
<1>1. \A n \in Nat : Powers(n, F(n))
  BY PowersExist
<1> HIDE DEF F
<1>2. ASSUME NEW k \in Nat PROVE P[k] = IF k = 0 THEN 1 ELSE 2 * P[k - 1]
  <2>1. CASE k = 0
    BY <1>1, <2>1 DEF Powers
  <2>2. CASE k # 0
    <3>1. k - 1 \in Nat /\ k - 1 <= k
      BY <2>2
    <3>2. F(k)[k] = 2 * F(k)[k - 1]
      BY <1>1, <2>2 DEF Powers
    <3>3. F(k)[k - 1] = F(k - 1)[k - 1]
      BY <1>1, <3>1, PowersUnique
    <3> QED
      BY <2>2, <3>1, <3>2, <3>3
  <2> QED
    BY <2>1, <2>2
<1>3. P = [k \in Nat |-> IF k = 0 THEN 1 ELSE 2 * P[k - 1]]
  BY <1>2
<1> HIDE DEF P
<1> QED
  BY <1>3 DEF Pow2

\* A power of two is greater than its exponent.
LEMMA Pow2Grows == \A k \in Nat : Pow2[k] \in Nat /\ Pow2[k] > k
<1>1. /\ Pow2[0] = 1
      /\ \A k \in Nat \ {0} : Pow2[k] = 2 * Pow2[k - 1]
  BY Pow2Def
<1> DEFINE S == {k \in Nat : ~(Pow2[k] \in Nat /\ Pow2[k] > k)}
<1> SUFFICES ASSUME S # {} PROVE FALSE
  OBVIOUS
<1>2. PICK k \in S : \A j \in S : k <= j
  BY Least
<1>3. k # 0
  BY <1>1
<1>4. k - 1 \in Nat /\ k - 1 \notin S
  BY <1>2, <1>3
<1>5. Pow2[k - 1] \in Nat /\ Pow2[k - 1] > k - 1
  BY <1>4
<1>6. Pow2[k] = 2 * Pow2[k - 1]
  BY <1>1, <1>3
<1> QED
  BY <1>4, <1>5, <1>6

\* The loop ends with a capacity that is enough and not less than it was.
LEMMA DoubledEnough ==
  ASSUME NEW size \in Nat \ {0}, NEW need \in Nat
  PROVE  Doubled(size, need) \in Nat /\ Doubled(size, need) >= size
         /\ Doubled(size, need) >= need
<1> DEFINE S == {s \in {size * Pow2[k] : k \in 0 .. need} : s >= need}
<1>1. \A k \in 0 .. need : Pow2[k] \in Nat /\ Pow2[k] > k
  BY Pow2Grows
<1>2. \A p \in Nat : p > 0 => size * p \in Nat /\ size * p >= size /\ size * p >= p
  <2> SUFFICES ASSUME NEW p \in Nat, p > 0
               PROVE  size * p \in Nat /\ size * p >= size /\ size * p >= p
    OBVIOUS
  <2>1. PICK a \in Nat, b \in Nat : size = a + 1 /\ p = b + 1
    <3>1. size - 1 \in Nat /\ p - 1 \in Nat /\ size = (size - 1) + 1 /\ p = (p - 1) + 1
      OBVIOUS
    <3> QED
      BY <3>1
  <2>2. size * p = a * b + a + b + 1 /\ a * b \in Nat
    BY <2>1, SMT
  <2> DEFINE c == a * b
  <2>3. size * p = c + a + b + 1 /\ c \in Nat
    BY <2>2
  <2> HIDE DEF c
  <2> QED
    BY <2>1, <2>3
<1>3. \A s \in S : s \in Nat /\ s >= size /\ s >= need
  <2> SUFFICES ASSUME NEW k \in 0 .. need
               PROVE  size * Pow2[k] \in Nat /\ size * Pow2[k] >= size
    OBVIOUS
  <2>1. Pow2[k] \in Nat /\ Pow2[k] > 0
    BY <1>1
  <2> QED
    BY <1>2, <2>1
<1>4. size * Pow2[need] \in S
  <2>1. Pow2[need] \in Nat /\ Pow2[need] > need /\ Pow2[need] > 0 /\ need \in 0 .. need
    BY <1>1
  <2> DEFINE s == size * Pow2[need]
  <2>2. s \in Nat /\ s >= Pow2[need]
    BY <1>2, <2>1
  <2>3. s \in {size * Pow2[k] : k \in 0 .. need}
    BY <2>1
  <2> HIDE DEF s
  <2>4. s >= need
    BY <2>1, <2>2
  <2>5. s \in S
    BY <2>3, <2>4
  <2> QED
    BY <2>5 DEF s
<1>5. Doubled(size, need) = Min(S)
  BY DEF Doubled
<1> HIDE DEF S
<1>6. PICK m \in S : \A n \in S : m <= n
  <2>1. S \in SUBSET Nat /\ S # {}
    BY <1>3, <1>4
  <2> QED
    BY <2>1, Least
<1>7. Min(S) \in S
  BY <1>6 DEF Min
<1> QED
  BY <1>3, <1>5, <1>7
-----------------------------------------------------------------------------
(* Select.  The loop of _poll walks down the bits.                         *)

\* The place of an event's bit in the loop.
At(e) == 2 * e[1] + (IF e[2] = "READ" THEN 1 ELSE 0)

\* The masks and _fd2ev agree and _max_fd bounds them.  While the loop is under way
\* the events it has passed have been activated if they were ready, and those ahead
\* are ready exactly if their bit and their slot are still there.
PollInv ==
  /\ mask \in SUBSET Event /\ fd2ev = mask
  /\ able \in SUBSET Event
  /\ max_fd \in -1 .. MaxFd
  /\ \A e \in mask : e[1] <= max_fd
  /\ pos \in -1 .. 2 * MaxFd + 1
  /\ activated = {e \in able : At(e) > pos}
  /\ \A e \in Event : At(e) <= pos => (e \in able <=> e \in found /\ e \in fd2ev)

\* The loop's places and the events are in one to one correspondence.
LEMMA Places ==
  /\ \A p \in 0 .. 2 * MaxFd + 1 : Bit(p) \in Event /\ At(Bit(p)) = p
  /\ \A e \in Event : At(e) \in 0 .. 2 * MaxFd + 1 /\ Bit(At(e)) = e
<1>1. MaxFd \in Nat
  BY SelectAssumption
<1>2. ASSUME NEW p \in 0 .. 2 * MaxFd + 1
      PROVE  Bit(p) \in Event /\ At(Bit(p)) = p
  <2>1. p \div 2 \in 0 .. MaxFd /\ p % 2 \in {0, 1} /\ p = 2 * (p \div 2) + (p % 2)
    BY <1>1
  <2>2. Bit(p)[1] = p \div 2 /\ Bit(p)[2] = IF p % 2 = 1 THEN "READ" ELSE "WRITE"
    BY DEF Bit
  <2>3. Bit(p) \in Event
    BY <2>1 DEF Bit, Event, Fd, Kinds
  <2>4. CASE p % 2 = 1
    <3>1. At(Bit(p)) = 2 * (p \div 2) + 1
      BY <2>2, <2>4 DEF At
    <3> QED
      BY <2>1, <2>3, <2>4, <3>1
  <2>5. CASE p % 2 = 0
    <3>1. At(Bit(p)) = 2 * (p \div 2) + 0
      BY <2>2, <2>5 DEF At
    <3> QED
      BY <2>1, <2>3, <2>5, <3>1
  <2> QED
    BY <2>1, <2>3, <2>4, <2>5
<1>3. ASSUME NEW e \in Event
      PROVE  At(e) \in 0 .. 2 * MaxFd + 1 /\ Bit(At(e)) = e
  <2>1. PICK n \in 0 .. MaxFd, k \in {"READ", "WRITE"} : e = <<n, k>>
    BY DEF Event, Fd, Kinds
  <2>2. CASE k = "READ"
    <3>1. At(e) = 2 * n + 1
      BY <2>1, <2>2 DEF At
    <3>2. (2 * n + 1) \div 2 = n /\ (2 * n + 1) % 2 = 1
      BY <1>1
    <3> QED
      BY <1>1, <2>1, <2>2, <3>1, <3>2 DEF Bit
  <2>3. CASE k = "WRITE"
    <3>1. At(e) = 2 * n
      BY <2>1, <2>3 DEF At
    <3>2. (2 * n) \div 2 = n /\ (2 * n) % 2 = 0
      BY <1>1
    <3> QED
      BY <1>1, <2>1, <2>3, <3>1, <3>2 DEF Bit
  <2> QED
    BY <2>1, <2>2, <2>3
<1> QED
  BY <1>2, <1>3

\* A set of descriptors, -1 among them, has a greatest element.
LEMMA Greatest ==
  ASSUME NEW S \in SUBSET (-1 .. MaxFd), S # {}
  PROVE  Max(S) \in S /\ \A x \in S : x <= Max(S)
<1>1. MaxFd \in Nat
  BY SelectAssumption
<1> DEFINE D == {MaxFd - x : x \in S}
<1>2. D \in SUBSET Nat /\ D # {}
  <2>1. \A x \in S : MaxFd - x \in Nat
    BY <1>1
  <2> QED
    BY <2>1
<1>3. PICK d \in D : \A c \in D : ~(<<c, d>> \in OpToRel(<, Nat))
  BY <1>2, NatLessThanWellFounded, WFMin
<1>4. \A c \in D : d <= c
  <2> HIDE DEF D
  <2>1. \A c \in D : ~(c < d)
    BY <1>2, <1>3 DEF OpToRel
  <2>2. \A c \in D : c \in Nat /\ d \in Nat
    BY <1>2
  <2> QED
    BY <2>1, <2>2
<1>5. PICK y \in S : d = MaxFd - y
  BY <1>3
<1>6. \A x \in S : x <= y
  <2> SUFFICES ASSUME NEW x \in S PROVE x <= y
    OBVIOUS
  <2>1. d <= MaxFd - x
    BY <1>4
  <2> QED
    BY <1>1, <1>5, <2>1
<1> HIDE DEF D
<1> QED
  BY <1>6 DEF Max

\* What _remove leaves in _max_fd bounds the events that stay.
LEMMA HighestBounds ==
  ASSUME NEW T \in SUBSET Event
  PROVE  Highest(T) \in -1 .. MaxFd /\ \A e \in T : e[1] <= Highest(T)
<1> DEFINE S == {-1} \union {e[1] : e \in T}
<1>1. MaxFd \in Nat
  BY SelectAssumption
<1>2. S \in SUBSET (-1 .. MaxFd) /\ S # {}
  BY <1>1 DEF Event, Fd
<1>3. Highest(T) = Max(S)
  BY DEF Highest
<1>4. \A e \in T : e[1] \in S
  OBVIOUS
<1> HIDE DEF S
<1> QED
  BY <1>2, <1>3, <1>4, Greatest

\* The bytes that _prepare_select copies hold every descriptor up to _max_fd.
LEMMA BytesHold ==
  ASSUME NEW m \in Nat, NEW n \in Nat, n <= m
  PROVE  n < (m \div ByteBits + 1) * ByteBits
<1>1. ByteBits \in Nat /\ ByteBits > 0
  BY SelectAssumption
<1> DEFINE q == m \div ByteBits
           r == m % ByteBits
<1>2. q \in Int /\ r \in 0 .. ByteBits - 1 /\ m = ByteBits * q + r
  BY <1>1, SMT
<1> HIDE DEF q, r
<1>3. (q + 1) * ByteBits = ByteBits * q + ByteBits
  BY <1>1, <1>2, SMT
<1>4. n < (q + 1) * ByteBits
  <2> DEFINE b == ByteBits * q
  <2>1. b \in Int
    BY <1>1, <1>2, SMT
  <2>2. m = b + r /\ (q + 1) * ByteBits = b + ByteBits
    BY <1>2, <1>3
  <2> HIDE DEF b
  <2> QED
    BY <1>1, <1>2, <2>1, <2>2, SMT
<1> QED
  BY <1>4 DEF q

\* No bit is set at first.
LEMMA PollInitially == SelectInit => PollInv
BY SelectAssumption, Places DEF SelectInit, PollInv

\* An event is taken out of the masks.
LEMMA EraseBounds ==
  ASSUME PollInv, NEW e \in Event, Erase(e)
  PROVE  /\ mask' = mask \ {e} /\ fd2ev' = mask'
         /\ max_fd' \in -1 .. MaxFd
         /\ \A f \in mask' : f[1] <= max_fd'
<1>1. mask' = mask \ {e} /\ fd2ev' = mask'
  BY DEF Erase, PollInv
<1> DEFINE T == {f \in mask' : f[1] <= Max({max_fd, e[1]})}
<1>2. T \in SUBSET Event /\ max_fd' = Highest(T)
  BY <1>1 DEF Erase, PollInv
<1>3. \A f \in mask' : f[1] <= Max({max_fd, e[1]})
  <2>1. {max_fd, e[1]} \in SUBSET (-1 .. MaxFd) /\ {max_fd, e[1]} # {}
    BY SelectAssumption DEF PollInv, Event, Fd
  <2>2. max_fd <= Max({max_fd, e[1]}) /\ Max({max_fd, e[1]}) \in -1 .. MaxFd
    BY <2>1, Greatest
  <2>3. \A f \in mask' : f[1] <= max_fd /\ f[1] \in Int /\ max_fd \in Int
    BY <1>1, SelectAssumption DEF PollInv, Event, Fd
  <2> DEFINE M == Max({max_fd, e[1]})
  <2>4. M \in Int /\ max_fd <= M
    BY <2>2
  <2> HIDE DEF M
  <2>5. \A f \in mask' : f[1] <= M
    BY <2>3, <2>4
  <2> QED
    BY <2>5 DEF M
<1>4. \A f \in mask' : f \in T
  BY <1>3
<1> HIDE DEF T
<1> QED
  BY <1>1, <1>2, <1>4, HighestBounds

\* One bit of the loop: the event there is activated exactly if it is ready.
LEMMA ScanStep ==
  ASSUME PollInv, Scan
  PROVE  PollInv'
<1> DEFINE b == Bit(pos)
<1>1. pos \in 0 .. 2 * MaxFd + 1 /\ pos' = pos - 1 /\ found' = found /\ able' = able
  BY SelectAssumption DEF PollInv, Scan
<1>2. b \in Event /\ At(b) = pos
  BY <1>1, Places
<1>3. \A e \in Event : At(e) \in Int /\ (At(e) = pos => e = b)
  BY <1>1, Places
<1>4. Activates(b) <=> b \in able
  BY <1>1, <1>2 DEF PollInv, Activates
<1>5. activated' = {e \in able : At(e) > pos'}
  <2>1. activated' = IF b \in able THEN activated \union {b} ELSE activated
    BY <1>4 DEF Scan
  <2>2. \A e \in able : At(e) > pos' <=> At(e) > pos \/ e = b
    BY <1>1, <1>2, <1>3 DEF PollInv
  <2> QED
    BY <2>1, <2>2 DEF PollInv
<1>6. /\ mask' \in SUBSET mask /\ fd2ev' = mask'
      /\ max_fd' \in -1 .. MaxFd
      /\ \A e \in mask' : e[1] <= max_fd'
      /\ \A e \in mask : e # b => e \in mask'
  <2>1. CASE UNCHANGED <<mask, fd2ev, max_fd>>
    BY <2>1 DEF PollInv
  <2>2. CASE Erase(b)
    BY <1>2, <2>2, EraseBounds
  <2> QED
    BY <2>1, <2>2 DEF Scan
<1>7. \A e \in Event : At(e) <= pos' => At(e) <= pos /\ e # b
  BY <1>1, <1>2, <1>3
<1>8. \A e \in Event : At(e) <= pos' => (e \in able <=> e \in found /\ e \in fd2ev')
  BY <1>6, <1>7 DEF PollInv
<1>9. pos' \in -1 .. 2 * MaxFd + 1
  BY <1>1, SelectAssumption
<1> HIDE DEF b
<1> QED
  BY <1>1, <1>5, <1>6, <1>8, <1>9 DEF PollInv

\* The loop starts with what select() found ready.
LEMMA SelectReturns ==
  ASSUME PollInv, NEW s \in SUBSET mask, Poll(s)
  PROVE  PollInv'
<1>1. /\ max_fd \in 0 .. MaxFd /\ pos' = 2 * max_fd + 1
      /\ UNCHANGED <<mask, fd2ev, max_fd>> /\ able' = s /\ activated' = {}
  BY SelectAssumption DEF Poll, PollInv
<1>2. MaxFd \in Nat
  BY SelectAssumption
<1>3. \A e \in Event :
        e[1] \in 0 .. MaxFd /\ At(e) \in Int /\ At(e) \in {2 * e[1], 2 * e[1] + 1}
  BY <1>2, Places DEF At, Event, Fd
<1>4. \A e \in Event : At(e) <= pos' <=> e[1] <= max_fd
  BY <1>1, <1>2, <1>3
<1>5. \A e \in s : e \in Event /\ e \in fd2ev /\ e[1] <= max_fd
  BY DEF PollInv
<1>6. \A e \in s : e \in found'
  <2> SUFFICES ASSUME NEW e \in s PROVE e \in Pollee
    BY DEF Poll
  <2>1. e[1] < (max_fd \div ByteBits + 1) * ByteBits
    BY <1>1, <1>2, <1>3, <1>5, BytesHold
  <2> QED
    BY <1>1, <2>1 DEF Pollee
<1>7. \A e \in found' : e[1] <= max_fd => e \in s
  BY DEF Poll
<1>8. \A e \in Event : At(e) <= pos' => (e \in s <=> e \in found' /\ e \in fd2ev)
  BY <1>4, <1>5, <1>6, <1>7
<1>9. \A e \in s : ~(At(e) > pos')
  BY <1>1, <1>2, <1>3, <1>4, <1>5
<1>10. pos' \in -1 .. 2 * MaxFd + 1
  BY <1>1, <1>2
<1> QED
  BY <1>1, <1>8, <1>9, <1>10 DEF PollInv

\* Every operation of Select keeps the invariant of the loop.
LEMMA PollStep == PollInv /\ [SelectNext]_selectVars => PollInv'
<1> SUFFICES ASSUME PollInv, [SelectNext]_selectVars PROVE PollInv'
  OBVIOUS
<1>1. \A e \in Event : At(e) \in Nat /\ ~(At(e) <= -1)
  BY Places, SelectAssumption
<1>2. ASSUME pos = -1, pos' = -1, Forget, NEW x \in SUBSET Event, mask' = x, fd2ev' = x,
             max_fd' \in -1 .. MaxFd, \A f \in x : f[1] <= max_fd'
      PROVE  PollInv'
  BY <1>1, <1>2, SelectAssumption DEF PollInv, Forget
<1>3. ASSUME NEW e \in Event, Insert(e)
      PROVE  PollInv'
  <2>1. {max_fd, e[1]} \in SUBSET (-1 .. MaxFd) /\ {max_fd, e[1]} # {}
    BY SelectAssumption DEF PollInv, Event, Fd
  <2>2. max_fd' \in -1 .. MaxFd /\ max_fd <= max_fd' /\ e[1] <= max_fd'
    BY <1>3, <2>1, Greatest DEF Insert
  <2>3. \A f \in mask : f[1] <= max_fd /\ f[1] \in Int /\ max_fd \in Int
    BY SelectAssumption DEF PollInv, Event, Fd
  <2>4. \A f \in mask \union {e} : f[1] <= max_fd'
    BY <2>2, <2>3, SelectAssumption
  <2> QED
    BY <1>2, <1>3, <2>2, <2>4 DEF Insert, PollInv
<1>4. ASSUME NEW e \in Event, Remove(e)
      PROVE  PollInv'
  <2>1. mask \ {e} \in SUBSET Event
    BY DEF PollInv
  <2> QED
    BY <1>2, <1>4, <2>1, EraseBounds DEF Remove
<1>5. CASE Clear
  BY <1>2, <1>5, SelectAssumption DEF Clear
<1>6. CASE PollThrows
  BY <1>2, <1>6 DEF PollThrows, PollInv
<1>7. CASE UNCHANGED selectVars
  BY <1>7 DEF selectVars, PollInv
<1> QED
  BY <1>3, <1>4, <1>5, <1>6, <1>7, ScanStep, SelectReturns DEF SelectNext

\* The masks, _fd2ev and _max_fd agree, also while the loop of _poll has the handler
\* take events out of them.
THEOREM PollInductive == SelectSpec => []PollInv
BY PollInitially, PollStep, PTL DEF SelectSpec

\* A _poll that returns has activated the event of every device that is ready and of
\* no other, for any descriptors and any size of the masks.
THEOREM ReadyActivatedHolds == SelectSpec => []ReadyActivated
<1>1. PollInv => ReadyActivated
  <2>1. \A e \in Event : At(e) > -1
    BY Places, SelectAssumption
  <2> QED
    BY <2>1 DEF PollInv, ReadyActivated
<1> QED
  BY <1>1, PollInductive, PTL
-----------------------------------------------------------------------------
(* Select.  The capacities.                                                *)

\* The arrays hold the descriptors up to _max_fd and, in the loop of _poll, the one it
\* is at, though _max_fd goes down as the handler takes events out.
CapInv ==
  /\ cap \in [1 .. 2 -> Nat]
  /\ max_fd < cap[1] * ByteBits
  /\ pos # -1 => pos \div 2 < cap[1] * ByteBits /\ pos \div 2 < cap[2] * ByteBits

\* Products of sizes are sizes, and grow with their factors.
LEMMA Times ==
  ASSUME NEW a \in Nat, NEW b \in Nat, a <= b
  PROVE  /\ a * ByteBits \in Nat /\ b * ByteBits \in Nat
         /\ a * ByteBits <= b * ByteBits
<1>1. ByteBits \in Nat
  BY SelectAssumption
<1>2. PICK d \in Nat : b = a + d
  <2>1. b - a \in Nat /\ b = a + (b - a)
    OBVIOUS
  <2> QED
    BY <2>1
<1>3. /\ b * ByteBits = a * ByteBits + d * ByteBits
      /\ a * ByteBits \in Nat /\ d * ByteBits \in Nat
  BY <1>1, <1>2, SMT
<1> DEFINE x == a * ByteBits
           y == d * ByteBits
<1>4. b * ByteBits = x + y /\ x \in Nat /\ y \in Nat
  BY <1>3
<1> HIDE DEF x, y
<1>5. x + y \in Nat /\ x <= x + y
  BY <1>4
<1> QED
  BY <1>4, <1>5 DEF x

\* The bytes of num_masks masks hold the descriptors they are computed for.
LEMMA MasksHold ==
  ASSUME NEW fd \in Nat
  PROVE  /\ num_masks(fd + 1) * MaskBytes \in Nat
         /\ fd < (num_masks(fd + 1) * MaskBytes) * ByteBits
<1>1. /\ ByteBits \in Nat /\ ByteBits > 0
      /\ MaskBytes \in Nat /\ MaskBytes > 0
  BY SelectAssumption
<1> DEFINE d == MaskBytes * ByteBits
           m == num_masks(fd + 1)
<1>2. d \in Nat /\ d > 0
  BY <1>1, SMT
<1>3. m = ((fd + 1) + d - 1) \div d
  BY DEF num_masks
<1>4. (m * MaskBytes) * ByteBits = m * d /\ m * MaskBytes \in Nat
  <2> HIDE DEF d
  <2>1. m \in Nat
    BY <1>2, <1>3, SMT
  <2> HIDE DEF m
  <2> USE DEF d
  <2> QED
    BY <1>1, <2>1, SMT
<1> HIDE DEF d
<1>5. fd < m * d
  <2> DEFINE r == ((fd + 1) + d - 1) % d
  <2>1. m \in Int /\ r \in 0 .. d - 1 /\ (fd + 1) + d - 1 = d * m + r
    BY <1>2, <1>3, SMT
  <2> HIDE DEF m, r
  <2>2. m * d = d * m /\ d * m \in Int
    BY <1>2, <2>1, SMT
  <2> DEFINE p == d * m
  <2>3. m * d = p /\ p \in Int /\ (fd + 1) + d - 1 = p + r
    BY <2>1, <2>2
  <2> HIDE DEF p
  <2>4. fd < p
    BY <1>2, <2>1, <2>3
  <2> QED
    BY <2>3, <2>4
<1> QED
  BY <1>4, <1>5

\* The grown capacity holds the descriptor.
LEMMA GrownHolds ==
  ASSUME NEW c \in Nat, NEW fd \in Nat
  PROVE  Grown(c, fd) \in Nat /\ c <= Grown(c, fd) /\ fd < Grown(c, fd) * ByteBits
<1> DEFINE tgt == num_masks(fd + 1) * MaskBytes
           base == IF c = 0 THEN MaskBytes ELSE c
           g == Grown(c, fd)
<1>1. tgt \in Nat /\ fd < tgt * ByteBits
  BY MasksHold
<1>2. g = IF c >= tgt THEN c ELSE Doubled(base, tgt)
  BY DEF Grown
<1>3. base \in Nat \ {0} /\ c <= base
  BY SelectAssumption
<1> HIDE DEF tgt, base, g
<1>4. g \in Nat /\ c <= g /\ tgt <= g
  BY <1>1, <1>2, <1>3, DoubledEnough
<1>5. tgt * ByteBits \in Nat /\ g * ByteBits \in Nat /\ tgt * ByteBits <= g * ByteBits
  BY <1>1, <1>4, Times
<1> DEFINE x == tgt * ByteBits
           y == g * ByteBits
<1>6. fd < x /\ x \in Nat /\ y \in Nat /\ x <= y
  BY <1>1, <1>5
<1> HIDE DEF x, y
<1>7. fd < y
  BY <1>6
<1> QED
  BY <1>4, <1>7 DEF y, g

\* After _recap the arrays hold the descriptor and all up to _max_fd.
LEMMA RecapHolds ==
  ASSUME PollInv, CapInv, NEW fd \in Fd, Recap(fd)
  PROVE  /\ cap' \in [1 .. 2 -> Nat] /\ cap[1] <= cap'[1] /\ cap'[2] = cap[2]
         /\ fd < cap'[1] * ByteBits /\ max_fd < cap'[1] * ByteBits
         /\ fd <= max_fd => cap' = cap
<1>1. fd \in Nat /\ max_fd \in Int /\ cap[1] \in Nat /\ cap[2] \in Nat
  BY SelectAssumption DEF PollInv, CapInv, Fd
<1> DEFINE x == cap[1] * ByteBits
<1>2. x \in Nat /\ max_fd < x
  BY <1>1, Times DEF CapInv
<1>3. CASE max_fd >= fd
  <2>1. cap' = cap
    BY <1>3 DEF Recap
  <2>2. fd < x
    <3> HIDE DEF x
    <3> QED
      BY <1>1, <1>2, <1>3
  <2> QED
    BY <1>1, <1>2, <2>1, <2>2 DEF CapInv
<1>4. CASE max_fd < fd
  <2> DEFINE g == Grown(cap[1], fd)
             y == g * ByteBits
  <2>1. cap' = [cap EXCEPT ![1] = g]
    BY <1>1, <1>4 DEF Recap
  <2>2. g \in Nat /\ cap[1] <= g /\ fd < y
    BY <1>1, GrownHolds
  <2>3. y \in Nat
    BY <1>1, <2>2, Times
  <2> HIDE DEF g
  <2>4. cap' \in [1 .. 2 -> Nat] /\ cap'[1] = g /\ cap'[2] = cap[2]
    BY <2>1, <2>2 DEF CapInv
  <2> HIDE DEF y
  <2>5. max_fd < y
    BY <1>1, <1>4, <2>2, <2>3
  <2>6. ~(fd <= max_fd)
    BY <1>1, <1>4
  <2> QED
    BY <2>2, <2>4, <2>5, <2>6 DEF y
<1> QED
  BY <1>1, <1>3, <1>4

\* A larger array holds what a smaller one does.
LEMMA Lower ==
  ASSUME NEW x \in Int, NEW c \in Nat, NEW d \in Nat, x < c * ByteBits, c <= d
  PROVE  x < d * ByteBits
<1> DEFINE p == c * ByteBits
           q == d * ByteBits
<1>1. p \in Nat /\ q \in Nat /\ p <= q /\ x < p
  BY Times
<1> HIDE DEF p, q
<1>2. x < q
  BY <1>1
<1> QED
  BY <1>2 DEF q

\* Every operation of Select keeps the arrays large enough.
LEMMA CapStep == PollInv /\ CapInv /\ [SelectNext]_selectVars => CapInv'
<1> SUFFICES ASSUME PollInv, CapInv, [SelectNext]_selectVars PROVE CapInv'
  OBVIOUS
<1>1. /\ cap[1] \in Nat /\ cap[2] \in Nat /\ max_fd \in Int /\ MaxFd \in Nat
      /\ \A e \in Event : e[1] \in Fd /\ e[1] \in Int
  BY SelectAssumption DEF PollInv, CapInv, Event, Fd
<1>2. ASSUME NEW e \in Event, Erase(e)
      PROVE  /\ cap' \in [1 .. 2 -> Nat] /\ cap[1] <= cap'[1] /\ cap'[2] = cap[2]
             /\ max_fd' < cap'[1] * ByteBits
  <2> DEFINE M == Max({max_fd, e[1]})
             T == {f \in mask' : f[1] <= M}
  <2>1. /\ cap' \in [1 .. 2 -> Nat] /\ cap[1] <= cap'[1] /\ cap'[2] = cap[2]
        /\ e[1] < cap'[1] * ByteBits /\ max_fd < cap'[1] * ByteBits
    BY <1>1, <1>2, RecapHolds DEF Erase
  <2>2. {max_fd, e[1]} \in SUBSET (-1 .. MaxFd) /\ {max_fd, e[1]} # {}
    BY SelectAssumption DEF PollInv, Event, Fd
  <2>3. M \in {max_fd, e[1]}
    BY <2>2, Greatest
  <2>4. M < cap'[1] * ByteBits /\ M \in Int
    BY <1>1, <2>1, <2>3
  <2>5. cap'[1] * ByteBits \in Nat /\ -1 < cap'[1] * ByteBits
    <3>1. cap'[1] \in Nat
      BY <2>1
    <3> DEFINE y == cap'[1] * ByteBits
    <3>2. y \in Nat
      BY <3>1, Times
    <3> HIDE DEF y
    <3>3. -1 < y
      BY <3>2
    <3> QED
      BY <3>2, <3>3 DEF y
  <2>6. max_fd' = Highest(T) /\ T \in SUBSET Event
    BY <1>2 DEF Erase, PollInv
  <2> HIDE DEF M
  <2>7. Highest(T) = -1 \/ (\E f \in T : Highest(T) = f[1])
    <3> DEFINE S == {-1} \union {f[1] : f \in T}
    <3>1. S \in SUBSET (-1 .. MaxFd) /\ S # {} /\ Highest(T) = Max(S)
      BY <1>1, <2>6 DEF Highest, Event, Fd
    <3>2. Max(S) \in S
      <4> HIDE DEF S
      <4> QED
        BY <3>1, Greatest
    <3> QED
      BY <3>1, <3>2
  <2>8. max_fd' = -1 \/ (max_fd' <= M /\ max_fd' \in Int)
    BY <1>1, <2>6, <2>7
  <2> HIDE DEF T
  <2> DEFINE y == cap'[1] * ByteBits
  <2>9. y \in Nat /\ M < y
    BY <2>4, <2>5
  <2> HIDE DEF y
  <2>10. max_fd' < y
    BY <2>4, <2>8, <2>9
  <2> QED
    BY <2>1, <2>10 DEF y
<1>3. ASSUME NEW e \in Event, Insert(e)
      PROVE  CapInv'
  <2>1. {max_fd, e[1]} \in SUBSET (-1 .. MaxFd) /\ {max_fd, e[1]} # {}
    BY SelectAssumption DEF PollInv, Event, Fd
  <2>2. max_fd' \in {max_fd, e[1]}
    BY <1>3, <2>1, Greatest DEF Insert
  <2>3. /\ cap' \in [1 .. 2 -> Nat]
        /\ e[1] < cap'[1] * ByteBits /\ max_fd < cap'[1] * ByteBits
    BY <1>1, <1>3, RecapHolds DEF Insert
  <2>4. pos' = -1
    BY <1>3 DEF Insert
  <2> QED
    BY <2>2, <2>3, <2>4 DEF CapInv
<1>4. ASSUME NEW e \in Event, Remove(e)
      PROVE  CapInv'
  <2>1. pos' = -1
    BY <1>4 DEF Remove
  <2> QED
    BY <1>2, <1>4, <2>1 DEF Remove, CapInv
<1>5. CASE Clear
  <2>1. cap' = cap /\ max_fd' = -1 /\ pos' = -1
    BY <1>5 DEF Clear
  <2> DEFINE x == cap[1] * ByteBits
  <2>2. x \in Nat
    BY <1>1, Times
  <2> HIDE DEF x
  <2>3. -1 < x
    BY <2>2
  <2> QED
    BY <2>1, <2>3 DEF CapInv, x
<1>6. ASSUME cap' = [cap EXCEPT ![2] = Max({cap[1], cap[2]})]
      PROVE  cap' \in [1 .. 2 -> Nat] /\ cap'[1] = cap[1] /\ cap[1] <= cap'[2]
  <2>1. Max({cap[1], cap[2]}) \in Nat /\ cap[1] <= Max({cap[1], cap[2]})
    <3>1. CASE cap[1] <= cap[2]
      <4>1. \E x \in {cap[1], cap[2]} : \A y \in {cap[1], cap[2]} : y <= x
        BY <1>1, <3>1
      <4> QED
        BY <1>1, <4>1 DEF Max
    <3>2. CASE cap[2] <= cap[1]
      <4>1. \E x \in {cap[1], cap[2]} : \A y \in {cap[1], cap[2]} : y <= x
        BY <1>1, <3>2
      <4> QED
        BY <1>1, <4>1 DEF Max
    <3> QED
      BY <1>1, <3>1, <3>2
  <2> QED
    BY <1>6, <2>1 DEF CapInv
<1>7. CASE PollThrows
  BY <1>1, <1>6, <1>7 DEF PollThrows, CapInv
<1>8. ASSUME NEW s \in SUBSET mask, Poll(s)
      PROVE  CapInv'
  <2>1. cap' \in [1 .. 2 -> Nat] /\ cap'[1] = cap[1] /\ cap[1] <= cap'[2] /\ cap'[2] \in Nat
    BY <1>6, <1>8 DEF Poll
  <2>2. pos' = 2 * max_fd + 1 /\ max_fd' = max_fd
    BY <1>8 DEF Poll
  <2>3. pos' \div 2 = max_fd
    BY <1>1, <2>2
  <2>4. max_fd < cap[1] * ByteBits
    BY DEF CapInv
  <2>5. max_fd < cap'[2] * ByteBits
    BY <1>1, <2>1, <2>4, Lower
  <2> QED
    BY <2>1, <2>2, <2>3, <2>4, <2>5 DEF CapInv
<1>9. CASE Scan
  <2>1. pos \in Nat /\ pos' = pos - 1 /\ pos' \in Int
    BY <1>1, <1>9 DEF Scan, PollInv
  <2>2. /\ cap' \in [1 .. 2 -> Nat] /\ cap[1] <= cap'[1] /\ cap'[2] = cap[2]
        /\ max_fd' < cap'[1] * ByteBits
    <3>1. CASE UNCHANGED <<mask, fd2ev, max_fd, cap>>
      BY <1>1, <3>1 DEF CapInv
    <3>2. CASE Erase(Bit(pos))
      <4>1. Bit(pos) \in Event
        BY <1>1, <2>1, Places DEF PollInv
      <4> QED
        BY <1>2, <3>2, <4>1
    <3> QED
      BY <1>9, <3>1, <3>2 DEF Scan
  <2>3. CASE pos' = -1
    BY <2>2, <2>3 DEF CapInv
  <2>4. CASE pos' # -1
    <3>1. pos' \in Nat
      BY <2>1, <2>4
    <3>2. /\ pos \div 2 \in Int /\ pos' \div 2 \in Int
          /\ pos' \div 2 <= pos \div 2
      BY <2>1, <3>1
    <3> DEFINE u == pos \div 2
               v == pos' \div 2
    <3>3. /\ u < cap[1] * ByteBits /\ u < cap[2] * ByteBits
          /\ u \in Int /\ v \in Int /\ v <= u
      BY <2>1, <3>2 DEF CapInv
    <3> HIDE DEF u, v
    <3>4. u < cap'[1] * ByteBits /\ u < cap'[2] * ByteBits
      BY <1>1, <2>2, <3>3, Lower
    <3>5. v < cap'[1] * ByteBits /\ v < cap'[2] * ByteBits
      <4>1. cap'[1] * ByteBits \in Nat /\ cap'[2] * ByteBits \in Nat
        BY <2>2, Times
      <4> QED
        BY <3>3, <3>4, <4>1
    <3> QED
      BY <2>2, <3>5 DEF CapInv, v
  <2> QED
    BY <2>3, <2>4
<1>10. CASE UNCHANGED selectVars
  BY <1>10 DEF selectVars, CapInv
<1> QED
  BY <1>3, <1>4, <1>5, <1>7, <1>8, <1>9, <1>10 DEF SelectNext

\* _recap grows the arrays before a descriptor is used and the loop of _poll stays inside
\* the copies, for any sizes of bytes and masks.
THEOREM InBoundsHolds == SelectSpec => []InBounds
<1>1. SelectInit => CapInv
  <2>1. 0 * ByteBits = 0
    BY SelectAssumption
  <2> QED
    BY <2>1 DEF SelectInit, CapInv
<1>2. PollInv /\ CapInv => InBounds
  <2> SUFFICES ASSUME PollInv, CapInv PROVE InBounds
    OBVIOUS
  <2>1. Min({cap[1], cap[2]}) \in {cap[1], cap[2]}
    <3>1. cap[1] \in Nat /\ cap[2] \in Nat
      BY DEF CapInv
    <3>2. cap[1] <= cap[2] \/ cap[2] <= cap[1]
      BY <3>1
    <3>3. \E x \in {cap[1], cap[2]} : \A y \in {cap[1], cap[2]} : x <= y
      BY <3>1, <3>2
    <3> QED
      BY <3>3 DEF Min
  <2>2. Bit(pos)[1] = pos \div 2
    BY DEF Bit
  <2> QED
    BY <2>1, <2>2 DEF InBounds, CapInv
<1> QED
  BY <1>1, <1>2, CapStep, PollInductive, PTL DEF SelectSpec
-----------------------------------------------------------------------------
(* StreamBuffer.  The buffers.                                             *)

\* Anything that can be at a place of the memory.
AnyByte == [package : Int, at : Int, length : Int]

\* A buffer: its memory, and the live part within it.
Buffer(b) ==
  /\ b = [local |-> b.local, size |-> b.size, data |-> b.data, base |-> b.base, ptr |-> b.ptr]
  /\ b.size \in Nat \ {0} /\ b.data \in [0 .. b.size - 1 -> AnyByte]
  /\ b.base \in Nat /\ b.ptr \in Nat /\ b.base <= b.ptr /\ b.ptr <= b.size

\* The byte at place i of package p, for packages of the lengths q.
ByteOf(p, i, q) == Byte(p, i, IF i < Header THEN q[p] ELSE 0)

\* The byte after c.
After(c, q) ==
  IF c.at + 1 < q[c.package] THEN ByteOf(c.package, c.at + 1, q)
                             ELSE ByteOf(c.package + 1, 0, q)

\* c is a byte of one of the packages.
Genuine(c, q) ==
  c.package \in 1 .. Len(q) /\ c.at \in 0 .. q[c.package] - 1 /\ c = ByteOf(c.package, c.at, q)

\* The bytes of s are those of the packages after the first r, without a gap, and those
\* of all of them if the writer is there.
Flows(s, q, r, open) ==
  /\ s \in Seq(AnyByte)
  /\ \A k \in 1 .. Len(s) : Genuine(s[k], q)
  /\ \A k \in 1 .. Len(s) - 1 : s[k + 1] = After(s[k], q)
  /\ Len(s) > 0 => s[1] = ByteOf(r + 1, 0, q)
  /\ open => IF Len(s) = 0 THEN r = Len(q)
             ELSE s[Len(s)].package = Len(q) /\ s[Len(s)].at = q[Len(q)] - 1

\* What is on the way, from the next byte to be read to the last that was written.
Underway == (Live(in) \o pipe) \o Live(out)

\* Every package has its header.
Lengths(q) == q \in Seq(Nat) /\ \A p \in 1 .. Len(q) : q[p] >= Header

\* The inductive invariant of the stream.
StreamInv ==
  /\ Buffer(out) /\ Buffer(in) /\ pipe \in Seq(AnyByte)
  /\ Lengths(sent)
  /\ received \in Seq(Seq(AnyByte)) /\ ReceivedInOrder
  /\ Flows(Underway, sent, Len(received), ~closed)
  /\ ~reading => ~Complete(in)
  /\ broken => closed /\ pipe = <<>> /\ ~reading

-----------------------------------------------------------------------------
(* Buffers *)

\* The live bytes of a buffer.
LEMMA LiveIs ==
  ASSUME NEW b, Buffer(b)
  PROVE  /\ Live(b) \in Seq(AnyByte) /\ Len(Live(b)) = b.ptr - b.base
         /\ Avail(b) = b.ptr - b.base /\ Avail(b) \in Nat
         /\ \A k \in 1 .. b.ptr - b.base : Live(b)[k] = b.data[b.base + k - 1]
<1> DEFINE n == b.ptr - b.base
<1>1. n \in Nat /\ Avail(b) = n
  BY DEF Buffer, Avail
<1>2. \A k \in 1 .. n : b.data[b.base + k - 1] \in AnyByte
  BY DEF Buffer
<1>3. Live(b) = [k \in 1 .. n |-> b.data[b.base + k - 1]]
  BY <1>1 DEF Live
<1> HIDE DEF n
<1>4. Live(b) \in [1 .. n -> AnyByte]
  BY <1>2, <1>3
<1>5. Live(b) \in Seq(AnyByte) /\ Len(Live(b)) = n
  BY <1>1, <1>4
<1> QED
  BY <1>1, <1>3, <1>5 DEF n

\* A buffer whose live part is the sequence l.
Holds(b, l) == Buffer(b) /\ Live(b) = l

\* A buffer holds l if its memory agrees with l place by place.
LEMMA HoldsIf ==
  ASSUME NEW b, Buffer(b), NEW l \in Seq(AnyByte), Len(l) = b.ptr - b.base,
         \A k \in 1 .. Len(l) : b.data[b.base + k - 1] = l[k]
  PROVE  Holds(b, l)
<1>1. Live(b) \in Seq(AnyByte) /\ Len(Live(b)) = Len(l)
  BY LiveIs
<1>2. \A k \in 1 .. Len(l) : Live(b)[k] = l[k]
  BY LiveIs
<1>3. Live(b) = l
  BY <1>1, <1>2, SeqEqual
<1> QED
  BY <1>3 DEF Holds

\* Data that have been moved to the start of a chunk of some size.
LEMMA FilledHolds ==
  ASSUME NEW local, NEW size \in Nat \ {0}, NEW l \in Seq(AnyByte), Len(l) <= size
  PROVE  /\ Holds(Filled(local, size, l), l)
         /\ Filled(local, size, l).size = size /\ Filled(local, size, l).ptr = Len(l)
<1> DEFINE b == Filled(local, size, l)
<1>1. /\ b = [local |-> local, size |-> size, data |-> Memory(size, l),
             base |-> 0, ptr |-> Len(l)]
      /\ b.local = local /\ b.size = size /\ b.data = Memory(size, l) /\ b.base = 0
      /\ b.ptr = Len(l)
  BY DEF Filled
<1>2. Len(l) \in Nat /\ \A k \in 1 .. Len(l) : l[k] \in AnyByte
  OBVIOUS
<1>3. Junk \in AnyByte
  BY DEF Junk, Byte, AnyByte
<1>4. Memory(size, l) = [i \in 0 .. size - 1 |-> IF i < Len(l) THEN l[i + 1] ELSE Junk]
  BY DEF Memory
<1>5. \A i \in 0 .. size - 1 : i < Len(l) => i + 1 \in 1 .. Len(l)
  BY <1>2
<1>6. Memory(size, l) \in [0 .. size - 1 -> AnyByte]
  BY <1>2, <1>3, <1>4, <1>5
<1> HIDE DEF b
<1>7. Buffer(b)
  BY <1>1, <1>2, <1>6 DEF Buffer
<1>8. \A k \in 1 .. Len(l) : b.base + k - 1 \in 0 .. size - 1 /\ b.data[b.base + k - 1] = l[k]
  BY <1>1, <1>2, <1>4
<1>9. Len(l) = b.ptr - b.base
  BY <1>1, <1>2
<1> QED
  BY <1>1, <1>7, <1>8, <1>9, HoldsIf DEF b

\* A new buffer holds nothing.
LEMMA FreshHolds ==
  ASSUME Local \in Nat \ {0}
  PROVE  Holds(Fresh, <<>>)
<1>1. <<>> \in Seq(AnyByte) /\ Len(<<>>) = 0 /\ 0 <= Local
  BY EmptySeq
<1> QED
  BY <1>1, FilledHolds DEF Fresh

\* Bytes written at the put pointer of a buffer.
Put(b, l) ==
  [b EXCEPT !.data = [i \in DOMAIN @ |->
              IF i - b.ptr \in 0 .. Len(l) - 1 THEN l[i - b.ptr + 1] ELSE @[i]],
            !.ptr = @ + Len(l)]

\* If there is room for them, they follow what is live.
LEMMA PutHolds ==
  ASSUME NEW b, Buffer(b), NEW l \in Seq(AnyByte), b.ptr + Len(l) <= b.size
  PROVE  Holds(Put(b, l), Live(b) \o l)
<1> DEFINE c == Put(b, l)
           m == Len(l)
           base == b.base
           ptr == b.ptr
           size == b.size
           old == b.data
           data == [i \in 0 .. size - 1 |->
                      IF i - ptr \in 0 .. m - 1 THEN l[i - ptr + 1] ELSE old[i]]
<1>1. m \in Nat /\ \A k \in 1 .. m : l[k] \in AnyByte
  OBVIOUS
<1>2. c = [local |-> b.local, size |-> size, data |-> data, base |-> base, ptr |-> ptr + m]
  <2>1. DOMAIN b.data = 0 .. b.size - 1
    BY DEF Buffer
  <2>2. c = [b EXCEPT !.data = data, !.ptr = ptr + m]
    BY <2>1 DEF Put
  <2> HIDE DEF data, c, m
  <2> QED
    BY <2>2 DEF Buffer
<1>3. /\ c.size = size /\ c.base = base /\ c.ptr = ptr + m /\ c.data = data
      /\ c = [local |-> c.local, size |-> c.size, data |-> c.data, base |-> c.base,
              ptr |-> c.ptr]
  BY <1>2
<1>4. /\ size \in Nat \ {0} /\ old \in [0 .. size - 1 -> AnyByte]
      /\ base \in Nat /\ ptr \in Nat /\ base <= ptr /\ ptr + m <= size
  BY DEF Buffer
<1> DEFINE n == ptr - base
<1>5. /\ Live(b) \in Seq(AnyByte) /\ Len(Live(b)) = n
      /\ \A k \in 1 .. n : Live(b)[k] = old[base + k - 1]
  BY LiveIs
<1> DEFINE s == Live(b)
<1> HIDE DEF c, m, base, ptr, size, old, s
<1>6. data \in [0 .. size - 1 -> AnyByte]
  BY <1>1, <1>4
<1>7. Buffer(c)
  <2>1. ptr + m \in Nat /\ base <= ptr + m
    BY <1>1, <1>4
  <2> HIDE DEF data
  <2> QED
    BY <1>3, <1>4, <1>6, <2>1 DEF Buffer
<1>8. n \in Nat /\ (ptr + m) - base = n + m
  BY <1>1, <1>4
<1>9. ASSUME NEW k \in 1 .. n + m
      PROVE  data[base + k - 1] = IF k <= n THEN s[k] ELSE l[k - n]
  <2>1. base + k - 1 \in 0 .. size - 1
    BY <1>1, <1>4
  <2>2. CASE k <= n
    <3>1. ~((base + k - 1) - ptr \in 0 .. m - 1) /\ k \in 1 .. n
      BY <1>1, <1>4, <2>2
    <3>2. data[base + k - 1] = old[base + k - 1]
      BY <2>1, <3>1
    <3> HIDE DEF data, n
    <3> QED
      BY <1>5, <2>2, <3>1, <3>2 DEF s
  <2>3. CASE ~(k <= n)
    <3>1. (base + k - 1) - ptr \in 0 .. m - 1 /\ (base + k - 1) - ptr + 1 = k - n
      BY <1>1, <1>4, <2>3
    <3>2. data[base + k - 1] = l[k - n]
      BY <2>1, <3>1
    <3> HIDE DEF data, n
    <3> QED
      BY <2>3, <3>2
  <2> QED
    BY <2>2, <2>3
<1> HIDE DEF data, n
<1>10. /\ s \o l \in Seq(AnyByte) /\ Len(s \o l) = n + m
       /\ \A k \in 1 .. n + m : (s \o l)[k] = IF k <= n THEN s[k] ELSE l[k - n]
  <2>1. s \in Seq(AnyByte) /\ Len(s) = n
    BY <1>5 DEF s
  <2> QED
    BY <2>1, ConcatProperties DEF m
<1>11. /\ Len(s \o l) = c.ptr - c.base
       /\ \A k \in 1 .. Len(s \o l) : c.data[c.base + k - 1] = (s \o l)[k]
  <2> DEFINE t == s \o l
  <2>1. /\ Len(t) = n + m
        /\ \A k \in 1 .. n + m : t[k] = IF k <= n THEN s[k] ELSE l[k - n]
    BY <1>10
  <2> HIDE DEF t
  <2>2. Len(t) = c.ptr - c.base
    <3>1. c.ptr = ptr + m /\ c.base = base
      BY <1>3
    <3>2. c.ptr - c.base = (ptr + m) - base
      BY <3>1, Zenon
    <3>3. (ptr + m) - base = n + m
      BY <1>8
    <3> HIDE DEF n
    <3> QED
      BY <2>1, <3>2, <3>3, Zenon
  <2>3. \A k \in 1 .. n + m : data[base + k - 1] = t[k]
    BY <1>9, <2>1
  <2>4. c.data = data /\ c.base = base
    BY <1>3
  <2>5. \A k \in 1 .. Len(t) : c.data[c.base + k - 1] = t[k]
    BY <2>1, <2>3, <2>4, Zenon
  <2> QED
    BY <2>2, <2>5 DEF t
<1>12. Holds(c, s \o l)
  BY <1>7, <1>10, <1>11, HoldsIf
<1> QED
  BY <1>12 DEF c, s

\* _write makes room and loses nothing, whichever way it takes.
LEMMA SpaciousHolds ==
  ASSUME NEW b, Buffer(b), NEW count \in Nat
  PROVE  /\ Holds(Spacious(b, count), Live(b))
         /\ Spacious(b, count).ptr + count <= Spacious(b, count).size
<1>1. Live(b) \in Seq(AnyByte) /\ Len(Live(b)) = Avail(b) /\ Avail(b) \in Nat
  BY LiveIs
<1>2. b.size \in Nat \ {0} /\ b.ptr \in Nat /\ Avail(b) <= b.size
  BY LiveIs DEF Buffer
<1>3. CASE b.size >= b.ptr + count
  BY <1>2, <1>3 DEF Spacious, Holds
<1>4. CASE ~(b.size >= b.ptr + count) /\ b.size >= Avail(b) + count
  <2>1. Spacious(b, count) = Filled(b.local, b.size, Live(b))
    BY <1>4 DEF Spacious, Shifted
  <2> QED
    BY <1>1, <1>2, <1>4, <2>1, FilledHolds
<1>5. CASE ~(b.size >= b.ptr + count) /\ ~(b.size >= Avail(b) + count)
  <2> DEFINE s == Doubled(b.size, Avail(b) + count)
             heap == FALSE
  <2>1. Spacious(b, count) = Filled(heap, s, Live(b))
    BY <1>5 DEF Spacious, Regrown
  <2>2. s \in Nat /\ s >= b.size /\ s >= Avail(b) + count
    <3>1. Avail(b) + count \in Nat
      BY <1>1
    <3> QED
      BY <1>2, <3>1, DoubledEnough
  <2> HIDE DEF s, heap
  <2>3. s \in Nat \ {0} /\ Avail(b) <= s
    BY <1>1, <1>2, <2>2
  <2> QED
    BY <1>1, <2>1, <2>2, <2>3, FilledHolds
<1> QED
  BY <1>3, <1>4, <1>5

\* _write appends to what is live.
LEMMA WriteHolds ==
  ASSUME NEW b, Buffer(b), NEW l \in Seq(AnyByte)
  PROVE  Holds(Write(b, l), Live(b) \o l)
<1> DEFINE s == Spacious(b, Len(l))
<1>1. Len(l) \in Nat
  OBVIOUS
<1>2. Holds(s, Live(b)) /\ s.ptr + Len(l) <= s.size
  BY <1>1, SpaciousHolds
<1>3. Write(b, l) = Put(s, l)
  BY DEF Write, Put
<1> HIDE DEF s
<1>4. Holds(Write(b, l), Live(s) \o l)
  BY <1>2, <1>3, PutHolds DEF Holds
<1> QED
  BY <1>2, <1>4 DEF Holds

\* So does InputStreamBuffer::_sync.
LEMMA RoomyHolds ==
  ASSUME NEW b, Buffer(b)
  PROVE  Holds(Roomy(b), Live(b)) /\ Room(Roomy(b)) \in Nat
<1>1. Live(b) \in Seq(AnyByte) /\ Len(Live(b)) = Avail(b) /\ Avail(b) \in Nat
  BY LiveIs
<1>2. b.size \in Nat \ {0} /\ b.ptr \in Nat /\ Avail(b) <= b.size /\ b.ptr <= b.size
  BY LiveIs DEF Buffer
<1>3. CASE b.ptr < b.size
  BY <1>2, <1>3 DEF Roomy, Room, Holds
<1>4. CASE ~(b.ptr < b.size) /\ b.base > b.size \div 2
  <2>1. Roomy(b) = Filled(b.local, b.size, Live(b))
    BY <1>4 DEF Roomy, Shifted
  <2> QED
    BY <1>1, <1>2, <2>1, FilledHolds DEF Room
<1>5. CASE ~(b.ptr < b.size) /\ ~(b.base > b.size \div 2)
  <2> DEFINE s == 2 * b.size
             heap == FALSE
  <2>1. Roomy(b) = Filled(heap, s, Live(b))
    BY <1>5 DEF Roomy, Regrown
  <2>2. s \in Nat \ {0} /\ Avail(b) <= s
    BY <1>1, <1>2
  <2> HIDE DEF s, heap
  <2> QED
    BY <1>1, <2>1, <2>2, FilledHolds DEF Room
<1> QED
  BY <1>3, <1>4, <1>5
-----------------------------------------------------------------------------
(* Packages *)

\* s is the m bytes of package p from place i.
Run(s, p, i, m, n) ==
  /\ s \in Seq(AnyByte) /\ Len(s) = m
  /\ \A k \in 1 .. m : s[k] = Byte(p, i + (k - 1), n)

\* A run of a package's bytes.
LEMMA BytesAre ==
  ASSUME NEW p \in Int, NEW i \in Nat, NEW j \in Nat, NEW n \in Int, i <= j
  PROVE  Run(Bytes(p, i, j, n), p, i, j - i, n)
<1> DEFINE m == j - i
<1>1. m \in Nat
  OBVIOUS
<1>2. Bytes(p, i, j, n) = [k \in 1 .. m |-> Byte(p, i + k - 1, n)]
  BY DEF Bytes
<1>3. \A k \in 1 .. m : Byte(p, i + k - 1, n) \in AnyByte
  BY DEF Byte, AnyByte
<1> HIDE DEF m
<1>4. Bytes(p, i, j, n) \in [1 .. m -> AnyByte]
  BY <1>2, <1>3
<1>5. Bytes(p, i, j, n) \in Seq(AnyByte) /\ Len(Bytes(p, i, j, n)) = m
  BY <1>1, <1>4
<1>6. \A k \in 1 .. m : Bytes(p, i, j, n)[k] = Byte(p, i + (k - 1), n)
  BY <1>2
<1> QED
  BY <1>5, <1>6 DEF m, Run

\* u is s and t, one after the other.
Joined(u, s, t) ==
  /\ u \in Seq(AnyByte) /\ Len(u) = Len(s) + Len(t)
  /\ \A k \in 1 .. Len(s) + Len(t) : u[k] = IF k <= Len(s) THEN s[k] ELSE t[k - Len(s)]

\* What a concatenation is at each place.
LEMMA Join ==
  ASSUME NEW s \in Seq(AnyByte), NEW t \in Seq(AnyByte)
  PROVE  Joined(s \o t, s, t)
BY ConcatProperties DEF Joined

\* A package before its length is filled in.
Unfilled(p, n) == Bytes(p, 0, Header, -1) \o Bytes(p, Header, n, 0)

\* A package: its header, and then its items.
LEMMA PackageIs ==
  ASSUME Header \in Nat \ {0}, NEW p \in Int, NEW n \in Nat, n >= Header
  PROVE  /\ Package(p, n) \in Seq(AnyByte) /\ Len(Package(p, n)) = n
         /\ \A k \in 1 .. n :
              Package(p, n)[k] = Byte(p, k - 1, IF k <= Header THEN n ELSE 0)
<1> DEFINE h == Bytes(p, 0, Header, n)
           t == Bytes(p, Header, n, 0)
<1>1. /\ h \in Seq(AnyByte) /\ Len(h) = Header
      /\ \A k \in 1 .. Header : h[k] = Byte(p, k - 1, n)
  <2>1. Run(h, p, 0, Header - 0, n)
    BY BytesAre
  <2> HIDE DEF h
  <2> QED
    BY <2>1 DEF Run
<1>2. /\ t \in Seq(AnyByte) /\ Len(t) = n - Header
      /\ \A k \in 1 .. n - Header : t[k] = Byte(p, Header + (k - 1), 0)
  <2>1. Run(t, p, Header, n - Header, 0)
    BY BytesAre
  <2> HIDE DEF t
  <2> QED
    BY <2>1 DEF Run
<1>3. Package(p, n) = h \o t
  BY DEF Package
<1> HIDE DEF h, t
<1>4. /\ h \o t \in Seq(AnyByte) /\ Len(h \o t) = Header + (n - Header)
      /\ \A k \in 1 .. Header + (n - Header) :
           (h \o t)[k] = IF k <= Header THEN h[k] ELSE t[k - Header]
  <2>1. Joined(h \o t, h, t)
    BY <1>1, <1>2, Join
  <2> QED
    BY <1>1, <1>2, <2>1 DEF Joined
<1>5. ASSUME NEW k \in 1 .. n
      PROVE  (h \o t)[k] = Byte(p, k - 1, IF k <= Header THEN n ELSE 0)
  <2>1. (h \o t)[k] = IF k <= Header THEN h[k] ELSE t[k - Header]
    BY <1>4
  <2>2. CASE k <= Header
    BY <1>1, <2>1, <2>2
  <2>3. CASE ~(k <= Header)
    <3>1. k - Header \in 1 .. n - Header /\ Header + ((k - Header) - 1) = k - 1
      BY <2>3
    <3> QED
      BY <1>2, <2>1, <2>3, <3>1
  <2> QED
    BY <2>2, <2>3
<1> QED
  BY <1>3, <1>4, <1>5

\* The same before the length is filled in.
LEMMA UnfilledIs ==
  ASSUME Header \in Nat \ {0}, NEW p \in Int, NEW n \in Nat, n >= Header
  PROVE  /\ Unfilled(p, n) \in Seq(AnyByte) /\ Len(Unfilled(p, n)) = n
         /\ \A k \in 1 .. n : k > Header => Unfilled(p, n)[k] = Byte(p, k - 1, 0)
<1> DEFINE h == Bytes(p, 0, Header, -1)
           t == Bytes(p, Header, n, 0)
<1>1. h \in Seq(AnyByte) /\ Len(h) = Header
  <2>1. Run(h, p, 0, Header - 0, -1)
    BY BytesAre
  <2> HIDE DEF h
  <2> QED
    BY <2>1 DEF Run
<1>2. /\ t \in Seq(AnyByte) /\ Len(t) = n - Header
      /\ \A k \in 1 .. n - Header : t[k] = Byte(p, Header + (k - 1), 0)
  <2>1. Run(t, p, Header, n - Header, 0)
    BY BytesAre
  <2> HIDE DEF t
  <2> QED
    BY <2>1 DEF Run
<1>3. Unfilled(p, n) = h \o t
  BY DEF Unfilled
<1> HIDE DEF h, t
<1>4. /\ h \o t \in Seq(AnyByte) /\ Len(h \o t) = Header + (n - Header)
      /\ \A k \in 1 .. Header + (n - Header) :
           (h \o t)[k] = IF k <= Header THEN h[k] ELSE t[k - Header]
  <2>1. Joined(h \o t, h, t)
    BY <1>1, <1>2, Join
  <2> QED
    BY <1>1, <1>2, <2>1 DEF Joined
<1>5. ASSUME NEW k \in 1 .. n, k > Header
      PROVE  (h \o t)[k] = Byte(p, k - 1, 0)
  <2>1. (h \o t)[k] = t[k - Header]
    BY <1>4, <1>5
  <2>2. k - Header \in 1 .. n - Header /\ Header + ((k - Header) - 1) = k - 1
    BY <1>5
  <2> QED
    BY <1>2, <2>1, <2>2
<1> QED
  BY <1>3, <1>4, <1>5

\* The item after those of the first k bytes.
LEMMA UnfilledNext ==
  ASSUME Header \in Nat \ {0}, NEW p \in Int, NEW k \in Nat, k > Header
  PROVE  Unfilled(p, k) = Unfilled(p, k - 1) \o <<Byte(p, k - 1, 0)>>
<1> DEFINE h == Bytes(p, 0, Header, -1)
           s == Bytes(p, Header, k - 1, 0)
           t == Bytes(p, Header, k, 0)
           c == Byte(p, k - 1, 0)
<1>1. h \in Seq(AnyByte)
  BY BytesAre DEF Run
<1>2. /\ s \in Seq(AnyByte) /\ Len(s) = (k - 1) - Header
      /\ \A i \in 1 .. (k - 1) - Header : s[i] = Byte(p, Header + (i - 1), 0)
  <2>1. k - 1 \in Nat /\ Header <= k - 1
    OBVIOUS
  <2>2. Run(s, p, Header, (k - 1) - Header, 0)
    BY <2>1, BytesAre
  <2> HIDE DEF s
  <2> QED
    BY <2>2 DEF Run
<1>3. /\ t \in Seq(AnyByte) /\ Len(t) = k - Header
      /\ \A i \in 1 .. k - Header : t[i] = Byte(p, Header + (i - 1), 0)
  <2>1. Run(t, p, Header, k - Header, 0)
    BY BytesAre
  <2> HIDE DEF t
  <2> QED
    BY <2>1 DEF Run
<1>4. c \in AnyByte /\ <<c>> \in Seq(AnyByte) /\ Len(<<c>>) = 1 /\ <<c>>[1] = c
  BY DEF Byte, AnyByte
<1>5. k - 1 = Header + ((k - Header) - 1) /\ k - Header \in 1 .. k - Header
  OBVIOUS
<1>6. t[k - Header] = c
  BY <1>3, <1>5
<1> HIDE DEF h, s, t, c
<1>7. /\ s \o <<c>> \in Seq(AnyByte) /\ Len(s \o <<c>>) = ((k - 1) - Header) + 1
      /\ \A i \in 1 .. ((k - 1) - Header) + 1 :
           (s \o <<c>>)[i] = IF i <= (k - 1) - Header THEN s[i] ELSE <<c>>[i - ((k - 1) - Header)]
  BY <1>2, <1>4, ConcatProperties
<1>8. \A i \in 1 .. k - Header : (s \o <<c>>)[i] = t[i]
  <2> SUFFICES ASSUME NEW i \in 1 .. k - Header PROVE (s \o <<c>>)[i] = t[i]
    OBVIOUS
  <2>1. CASE i <= (k - 1) - Header
    <3>1. i \in 1 .. ((k - 1) - Header) + 1 /\ i \in 1 .. (k - 1) - Header
      BY <2>1
    <3> QED
      BY <1>2, <1>3, <1>7, <2>1, <3>1
  <2>2. CASE ~(i <= (k - 1) - Header)
    <3>1. i \in 1 .. ((k - 1) - Header) + 1 /\ i = k - Header /\ i - ((k - 1) - Header) = 1
      BY <2>2
    <3> QED
      BY <1>4, <1>6, <1>7, <2>2, <3>1
  <2> QED
    BY <2>1, <2>2
<1>9. s \o <<c>> = t
  <2>1. Len(s \o <<c>>) = Len(t) /\ Len(t) = k - Header
    BY <1>3, <1>7
  <2> QED
    BY <1>3, <1>7, <1>8, <2>1, SeqEqual
<1>10. (h \o s) \o <<c>> = h \o (s \o <<c>>)
  BY <1>1, <1>2, <1>4, ConcatAssociative
<1> QED
  BY <1>9, <1>10 DEF Unfilled, h, s, t, c

\* The calls of _write with which the archive puts the first k bytes of a package.
Writes(f, b, p, n) ==
  f = [k \in Header .. n |->
         IF k = Header THEN Write(b, Bytes(p, 0, Header, -1))
                       ELSE Write(f[k - 1], <<Byte(p, k - 1, 0)>>)]

\* The archive's writes, one after the other, are a function.
LEMMA WritesExist ==
  ASSUME Header \in Nat \ {0}, NEW b, NEW p, NEW N \in Nat, N >= Header
  PROVE  \E f : Writes(f, b, p, N)
<1> DEFINE S == {n \in Nat : n >= Header /\ ~\E f : Writes(f, b, p, n)}
<1> SUFFICES ASSUME S # {} PROVE FALSE
  OBVIOUS
<1>1. PICK m \in S : \A n \in S : m <= n
  BY Least
<1> DEFINE w == Write(b, Bytes(p, 0, Header, -1))
           at(g) == IF m = Header THEN w ELSE Write(g[m - 1], <<Byte(p, m - 1, 0)>>)
<1>2. ASSUME NEW g, \A k \in Header .. m - 1 :
               g[k] = IF k = Header THEN w ELSE Write(g[k - 1], <<Byte(p, k - 1, 0)>>)
      PROVE  FALSE
  <2> DEFINE f == [k \in Header .. m |-> IF k = m THEN at(g) ELSE g[k]]
  <2>1. ASSUME NEW k \in Header .. m
        PROVE  f[k] = IF k = Header THEN w ELSE Write(f[k - 1], <<Byte(p, k - 1, 0)>>)
    <3>1. k # Header => k - 1 \in Header .. m - 1 /\ f[k - 1] = g[k - 1]
      BY <2>1
    <3>2. CASE k = m
      BY <3>1, <3>2
    <3>3. CASE k # m
      <4>1. k \in Header .. m - 1 /\ f[k] = g[k]
        BY <3>3
      <4> QED
        BY <1>2, <3>1, <4>1
    <3> QED
      BY <3>2, <3>3
  <2>2. f = [k \in Header .. m |->
               IF k = Header THEN w ELSE Write(f[k - 1], <<Byte(p, k - 1, 0)>>)]
    BY <2>1
  <2> HIDE DEF f
  <2> QED
    BY <2>2 DEF Writes
<1>3. CASE m = Header
  BY <1>2, <1>3
<1>4. CASE m # Header
  <2>1. m - 1 \in Nat /\ m - 1 >= Header /\ m - 1 \notin S
    BY <1>1, <1>4
  <2>2. PICK g : Writes(g, b, p, m - 1)
    BY <2>1
  <2> QED
    BY <1>2, <2>2 DEF Writes
<1> QED
  BY <1>3, <1>4

\* The archive appends a package without its length.
LEMMA ArchivedHolds ==
  ASSUME Header \in Nat \ {0}, NEW b, Buffer(b), NEW p \in Int, NEW n \in Nat, n >= Header
  PROVE  Holds(Archived(b, p, n), Live(b) \o Unfilled(p, n))
<1> DEFINE f == CHOOSE g : Writes(g, b, p, n)
<1>1. Archived(b, p, n) = f[n]
  BY DEF Archived, Writes
<1>2. Writes(f, b, p, n)
  BY WritesExist
<1> HIDE DEF f
<1> DEFINE S == {k \in Nat : k \in Header .. n /\ ~Holds(f[k], Live(b) \o Unfilled(p, k))}
<1> SUFFICES ASSUME S # {} PROVE FALSE
  BY <1>1
<1>3. PICK k \in S : \A j \in S : k <= j
  BY Least
<1>4. Live(b) \in Seq(AnyByte)
  BY LiveIs
<1>5. CASE k = Header
  <2> DEFINE h == Bytes(p, 0, Header, -1)
  <2>1. f[k] = Write(b, h)
    BY <1>2, <1>5 DEF Writes
  <2>2. h \in Seq(AnyByte)
    BY BytesAre DEF Run
  <2>3. Bytes(p, Header, Header, 0) = <<>>
    <3>1. Run(Bytes(p, Header, Header, 0), p, Header, Header - Header, 0)
      BY BytesAre
    <3> QED
      BY <3>1, EmptySeq DEF Run
  <2> HIDE DEF h
  <2>4. h \o <<>> = h
    BY <2>2, ConcatEmptySeq
  <2>5. Unfilled(p, k) = h
    BY <1>5, <2>3, <2>4 DEF Unfilled, h
  <2> QED
    BY <2>1, <2>2, <2>5, WriteHolds
<1>6. CASE k # Header
  <2> DEFINE c == Byte(p, k - 1, 0)
             u == Unfilled(p, k - 1)
  <2>1. k - 1 \in Header .. n /\ k - 1 \in Nat /\ k - 1 \notin S /\ k \in Header .. n
        /\ k > Header
    BY <1>3, <1>6
  <2>2. Holds(f[k - 1], Live(b) \o u)
    BY <2>1
  <2>3. f[k] = Write(f[k - 1], <<c>>)
    BY <1>2, <1>6, <2>1 DEF Writes
  <2>4. <<c>> \in Seq(AnyByte)
    BY DEF Byte, AnyByte
  <2>5. u \in Seq(AnyByte)
    BY <2>1, UnfilledIs
  <2>6. Unfilled(p, k) = u \o <<c>>
    BY <2>1, UnfilledNext
  <2> HIDE DEF c, u
  <2>7. Holds(f[k], (Live(b) \o u) \o <<c>>)
    BY <2>2, <2>3, <2>4, WriteHolds DEF Holds
  <2>8. (Live(b) \o u) \o <<c>> = Live(b) \o Unfilled(p, k)
    BY <1>4, <2>4, <2>5, <2>6, ConcatAssociative
  <2> QED
    BY <2>7, <2>8
<1> QED
  BY <1>5, <1>6

\* The packager finds the header n bytes back.
LEMMA PatchedHolds ==
  ASSUME Header \in Nat \ {0}, NEW a, NEW l \in Seq(AnyByte), NEW p \in Int,
         NEW n \in Nat, n >= Header, Holds(a, l \o Unfilled(p, n))
  PROVE  Holds(Patched(a, p, n), l \o Package(p, n))
<1> DEFINE u == Unfilled(p, n)
           w == Package(p, n)
           m == Len(l)
           base == a.base
           ptr == a.ptr
           size == a.size
           old == a.data
           d == [i \in 0 .. size - 1 |->
                   IF i - (ptr - n) \in 0 .. Header - 1
                     THEN Byte(p, i - (ptr - n), n) ELSE old[i]]
           c == Patched(a, p, n)
<1>1. /\ u \in Seq(AnyByte) /\ Len(u) = n
      /\ \A k \in 1 .. n : k > Header => u[k] = Byte(p, k - 1, 0)
  BY UnfilledIs
<1>2. /\ w \in Seq(AnyByte) /\ Len(w) = n
      /\ \A k \in 1 .. n : w[k] = Byte(p, k - 1, IF k <= Header THEN n ELSE 0)
  BY PackageIs
<1>3. Buffer(a) /\ Live(a) = l \o u
  BY DEF Holds
<1>4. /\ size \in Nat \ {0} /\ old \in [0 .. size - 1 -> AnyByte]
      /\ base \in Nat /\ ptr \in Nat /\ base <= ptr /\ ptr <= size
  BY <1>3 DEF Buffer
<1>5. m \in Nat
  OBVIOUS
<1>6. c = [local |-> a.local, size |-> size, data |-> d, base |-> base, ptr |-> ptr]
  <2>1. DOMAIN old = 0 .. size - 1
    BY <1>4
  <2>2. c = [a EXCEPT !.data = d]
    BY <2>1 DEF Patched
  <2> HIDE DEF d, c
  <2> QED
    BY <1>3, <2>2 DEF Buffer
<1>7. /\ c.size = size /\ c.data = d /\ c.base = base /\ c.ptr = ptr
      /\ c = [local |-> c.local, size |-> c.size, data |-> c.data, base |-> c.base,
              ptr |-> c.ptr]
  BY <1>6
<1>8. /\ Len(Live(a)) = ptr - base
      /\ \A k \in 1 .. ptr - base : Live(a)[k] = old[base + k - 1]
  BY <1>3, LiveIs
<1> HIDE DEF u, w, base, ptr, size, old, c
<1>9. /\ ptr - base = m + n
      /\ \A k \in 1 .. m + n : old[base + k - 1] = IF k <= m THEN l[k] ELSE u[k - m]
  <2>1. Joined(l \o u, l, u)
    BY <1>1, Join
  <2> QED
    BY <1>1, <1>3, <1>8, <2>1 DEF Joined
<1>10. /\ l \o w \in Seq(AnyByte) /\ Len(l \o w) = m + n
       /\ \A k \in 1 .. m + n : (l \o w)[k] = IF k <= m THEN l[k] ELSE w[k - m]
  <2>1. Joined(l \o w, l, w)
    BY <1>2, Join
  <2> QED
    BY <1>2, <2>1 DEF Joined
<1> HIDE DEF m
<1>11. d \in [0 .. size - 1 -> AnyByte]
  <2>1. \A i \in 0 .. size - 1 : Byte(p, i - (ptr - n), n) \in AnyByte
    BY <1>4 DEF Byte, AnyByte
  <2> QED
    BY <1>4, <2>1
<1>12. ASSUME NEW k \in 1 .. m + n
       PROVE  d[base + k - 1] = (l \o w)[k]
  <2> DEFINE i == base + k - 1
  <2>1. i \in 0 .. size - 1 /\ i - (ptr - n) = (k - m) - 1
    BY <1>4, <1>5, <1>9
  <2>2. d[i] = IF (k - m) - 1 \in 0 .. Header - 1 THEN Byte(p, (k - m) - 1, n) ELSE old[i]
    BY <2>1
  <2> HIDE DEF d
  <2>3. CASE k <= m
    <3>1. ~((k - m) - 1 \in 0 .. Header - 1)
      BY <1>5, <2>3
    <3> QED
      BY <1>9, <1>10, <2>2, <2>3, <3>1
  <2>4. CASE k > m /\ k - m <= Header
    <3>1. (k - m) - 1 \in 0 .. Header - 1 /\ k - m \in 1 .. n /\ ~(k <= m)
      BY <1>5, <2>4
    <3> QED
      BY <1>2, <1>10, <2>2, <2>4, <3>1
  <2>5. CASE k > m /\ ~(k - m <= Header)
    <3>1. /\ ~((k - m) - 1 \in 0 .. Header - 1) /\ k - m \in 1 .. n /\ ~(k <= m)
          /\ k - m > Header
      BY <1>5, <2>5
    <3> QED
      BY <1>1, <1>2, <1>9, <1>10, <2>2, <2>5, <3>1
  <2>6. k <= m \/ (k > m /\ k - m <= Header) \/ (k > m /\ ~(k - m <= Header))
    BY <1>5
  <2> QED
    BY <2>3, <2>4, <2>5, <2>6, Zenon
<1> HIDE DEF d
<1>13. Buffer(c)
  BY <1>4, <1>7, <1>11 DEF Buffer
<1>14. /\ Len(l \o w) = c.ptr - c.base
       /\ \A k \in 1 .. Len(l \o w) : c.data[c.base + k - 1] = (l \o w)[k]
  <2>1. c.data = d /\ c.base = base /\ c.ptr = ptr
    BY <1>7
  <2>2. c.ptr - c.base = m + n
    BY <1>9, <2>1, Zenon
  <2> DEFINE v == l \o w
  <2>3. Len(v) = m + n /\ \A k \in 1 .. m + n : d[base + k - 1] = v[k]
    BY <1>10, <1>12
  <2> HIDE DEF v
  <2>4. \A k \in 1 .. Len(v) : c.data[c.base + k - 1] = v[k]
    BY <2>1, <2>3, Zenon
  <2> QED
    BY <2>2, <2>3, <2>4 DEF v
<1>15. Holds(c, l \o w)
  BY <1>10, <1>13, <1>14, HoldsIf
<1> QED
  BY <1>15 DEF c, w
-----------------------------------------------------------------------------
(* Reading.  What the packager sees is what is live.                       *)

\* The first bytes of l read as a length.
LengthOf(l) ==
  IF \A k \in 0 .. Header - 1 : l[k + 1] = [l[1] EXCEPT !.at = k] THEN l[1].length ELSE -1

\* The length that the packager reads depends on the live bytes only.
LEMMA LengthIs ==
  ASSUME Header \in Nat \ {0}, NEW b, NEW l, Holds(b, l), Len(l) >= Header
  PROVE  Length(b) = LengthOf(l)
<1>1. /\ Len(l) = b.ptr - b.base /\ b.base \in Nat /\ b.ptr \in Nat
      /\ \A k \in 1 .. b.ptr - b.base : l[k] = b.data[b.base + k - 1]
  BY LiveIs DEF Holds, Buffer
<1>2. \A k \in 0 .. Header - 1 : b.data[b.base + k] = l[k + 1]
  <2> SUFFICES ASSUME NEW k \in 0 .. Header - 1 PROVE b.data[b.base + k] = l[k + 1]
    OBVIOUS
  <2>1. k + 1 \in 1 .. b.ptr - b.base /\ b.base + (k + 1) - 1 = b.base + k
    BY <1>1
  <2> QED
    BY <1>1, <2>1
<1>3. 0 \in 0 .. Header - 1 /\ b.base + 0 = b.base /\ 0 + 1 = 1
  BY <1>1
<1>4. b.data[b.base] = l[1]
  BY <1>2, <1>3
<1> QED
  BY <1>2, <1>4, Zenon DEF Length, LengthOf

\* Whether a package is complete depends on the live bytes only.
LEMMA CompleteIs ==
  ASSUME Header \in Nat \ {0}, NEW b, NEW l, Holds(b, l)
  PROVE  Complete(b) <=> Len(l) >= Header /\ Len(l) >= LengthOf(l)
<1>1. Avail(b) = Len(l) /\ Len(l) \in Nat
  BY LiveIs DEF Holds
<1> QED
  BY <1>1, LengthIs DEF Complete
-----------------------------------------------------------------------------
(* The stream *)

\* The fields of a byte.
LEMMA ByteFields ==
  ASSUME NEW p, NEW i, NEW q
  PROVE  ByteOf(p, i, q).package = p /\ ByteOf(p, i, q).at = i
         /\ ByteOf(p, i, q).length = IF i < Header THEN q[p] ELSE 0
BY DEF ByteOf, Byte

\* The first bytes on the way are those of the next package, as far as they go.
LEMMA HeadOf ==
  ASSUME Header \in Nat \ {0}, NEW q, Lengths(q), NEW r \in Nat, NEW s, NEW open,
         Flows(s, q, r, open), Len(s) > 0
  PROVE  /\ r + 1 \in 1 .. Len(q)
         /\ \A k \in 1 .. q[r + 1] : k <= Len(s) => s[k] = ByteOf(r + 1, k - 1, q)
<1>1. Len(s) \in Nat /\ 1 \in 1 .. Len(s)
  BY DEF Flows
<1>2. s[1] = ByteOf(r + 1, 0, q) /\ s[1].package = r + 1
  BY ByteFields DEF Flows
<1>3. r + 1 \in 1 .. Len(q)
  BY <1>1, <1>2 DEF Flows, Genuine
<1>4. q[r + 1] \in Nat
  BY <1>3 DEF Lengths
<1> DEFINE S == {k \in Nat : k \in 1 .. q[r + 1] /\ k <= Len(s) /\ s[k] # ByteOf(r + 1, k - 1, q)}
<1> SUFFICES ASSUME S # {} PROVE FALSE
  BY <1>3, <1>4
<1>5. PICK k \in S : \A j \in S : k <= j
  BY Least
<1>6. k # 1
  BY <1>2
<1>7. k - 1 \in Nat /\ k - 1 \in 1 .. q[r + 1] /\ k - 1 <= Len(s) /\ k - 1 \notin S
      /\ k - 1 \in 1 .. Len(s) - 1 /\ (k - 1) + 1 = k /\ ((k - 1) - 1) + 1 = k - 1
      /\ k - 1 < q[r + 1]
  BY <1>1, <1>4, <1>5, <1>6
<1>8. s[k - 1] = ByteOf(r + 1, (k - 1) - 1, q)
  BY <1>7
<1>9. s[k] = After(s[k - 1], q)
  BY <1>7 DEF Flows
<1>10. After(s[k - 1], q) = ByteOf(r + 1, k - 1, q)
  BY <1>7, <1>8, ByteFields DEF After
<1> QED
  BY <1>9, <1>10

\* What the writer leaves of the stream when it goes.
LEMMA FlowCut ==
  ASSUME NEW q, NEW r, NEW s, NEW open, Flows(s, q, r, open), NEW still, ~still,
         NEW t \in Seq(AnyByte), Len(t) <= Len(s), \A k \in 1 .. Len(t) : t[k] = s[k]
  PROVE  Flows(t, q, r, still)
<1>1. Len(s) \in Nat /\ Len(t) \in Nat
  BY DEF Flows
<1>2. \A k \in 1 .. Len(t) : Genuine(t[k], q)
  BY <1>1 DEF Flows
<1>3. \A k \in 1 .. Len(t) - 1 : t[k + 1] = After(t[k], q)
  <2> SUFFICES ASSUME NEW k \in 1 .. Len(t) - 1 PROVE t[k + 1] = After(t[k], q)
    OBVIOUS
  <2>1. k \in 1 .. Len(s) - 1 /\ k \in 1 .. Len(t) /\ k + 1 \in 1 .. Len(t)
    BY <1>1
  <2>2. t[k] = s[k] /\ t[k + 1] = s[k + 1] /\ s[k + 1] = After(s[k], q)
    BY <2>1 DEF Flows
  <2> QED
    BY <2>2
<1>4. Len(t) > 0 => t[1] = ByteOf(r + 1, 0, q)
  <2> SUFFICES ASSUME Len(t) > 0 PROVE t[1] = ByteOf(r + 1, 0, q)
    OBVIOUS
  <2>1. 1 \in 1 .. Len(t) /\ Len(s) > 0
    BY <1>1
  <2> QED
    BY <2>1 DEF Flows
<1> QED
  BY <1>2, <1>3, <1>4 DEF Flows

\* A package is taken off the front.
LEMMA FlowTake ==
  ASSUME Header \in Nat \ {0}, NEW q, Lengths(q), NEW r \in Nat, NEW s, NEW open,
         Flows(s, q, r, open), Len(s) > 0, q[r + 1] <= Len(s),
         NEW t \in Seq(AnyByte), Len(t) = Len(s) - q[r + 1],
         \A k \in 1 .. Len(t) : t[k] = s[q[r + 1] + k]
  PROVE  Flows(t, q, r + 1, open) /\ r + 1 <= Len(q)
<1> DEFINE n == q[r + 1]
<1>1. /\ r + 1 \in 1 .. Len(q)
      /\ \A k \in 1 .. n : k <= Len(s) => s[k] = ByteOf(r + 1, k - 1, q)
  BY HeadOf
<1>2. n \in Nat /\ n >= Header /\ Len(s) \in Nat /\ Len(t) \in Nat /\ Len(q) \in Nat
  BY <1>1 DEF Lengths, Flows
<1>3. Len(t) = Len(s) - n /\ n <= Len(s) /\ \A k \in 1 .. Len(t) : t[k] = s[n + k]
  OBVIOUS
<1> HIDE DEF n
<1>4. s[n] = ByteOf(r + 1, n - 1, q) /\ n \in 1 .. Len(s)
  BY <1>1, <1>2, <1>3
<1>5. /\ s[n].package = r + 1 /\ s[n].at = n - 1
      /\ s[n].at + 1 = n
  BY <1>2, <1>4, ByteFields
<1>6. \A k \in 1 .. Len(t) : n + k \in 1 .. Len(s) /\ Genuine(t[k], q)
  BY <1>2, <1>3 DEF Flows
<1>7. \A k \in 1 .. Len(t) - 1 : t[k + 1] = After(t[k], q)
  <2> SUFFICES ASSUME NEW k \in 1 .. Len(t) - 1 PROVE t[k + 1] = After(t[k], q)
    OBVIOUS
  <2>1. /\ n + k \in 1 .. Len(s) - 1 /\ k \in 1 .. Len(t) /\ k + 1 \in 1 .. Len(t)
        /\ n + (k + 1) = (n + k) + 1
    BY <1>2, <1>3
  <2>2. t[k] = s[n + k] /\ t[k + 1] = s[(n + k) + 1]
    BY <1>3, <2>1
  <2>3. s[(n + k) + 1] = After(s[n + k], q)
    BY <2>1 DEF Flows
  <2> QED
    BY <2>2, <2>3
<1>8. Len(t) > 0 => t[1] = ByteOf((r + 1) + 1, 0, q)
  <2> SUFFICES ASSUME Len(t) > 0 PROVE t[1] = ByteOf((r + 1) + 1, 0, q)
    OBVIOUS
  <2>1. n \in 1 .. Len(s) - 1 /\ 1 \in 1 .. Len(t)
    BY <1>2, <1>3
  <2>2. t[1] = s[n + 1] /\ s[n + 1] = After(s[n], q)
    BY <1>3, <2>1 DEF Flows
  <2>3. ~(s[n].at + 1 < q[s[n].package])
    BY <1>2, <1>5 DEF n
  <2> QED
    BY <1>5, <2>2, <2>3 DEF After
<1>9. open => IF Len(t) = 0 THEN r + 1 = Len(q)
              ELSE t[Len(t)].package = Len(q) /\ t[Len(t)].at = q[Len(q)] - 1
  <2> SUFFICES ASSUME open
               PROVE  IF Len(t) = 0 THEN r + 1 = Len(q)
                      ELSE t[Len(t)].package = Len(q) /\ t[Len(t)].at = q[Len(q)] - 1
    OBVIOUS
  <2>1. s[Len(s)].package = Len(q) /\ s[Len(s)].at = q[Len(q)] - 1
    BY DEF Flows
  <2>2. CASE Len(t) = 0
    <3>1. n = Len(s)
      BY <1>2, <1>3, <2>2
    <3> QED
      BY <1>5, <2>1, <2>2, <3>1
  <2>3. CASE Len(t) # 0
    <3>1. Len(t) \in 1 .. Len(t) /\ n + Len(t) = Len(s)
      BY <1>2, <1>3, <2>3
    <3>2. t[Len(t)] = s[Len(s)]
      BY <1>3, <3>1
    <3> QED
      BY <2>1, <2>3, <3>2
  <2> QED
    BY <2>2, <2>3
<1> QED
  BY <1>1, <1>2, <1>6, <1>7, <1>8, <1>9 DEF Flows

\* A package is put at the end.
LEMMA FlowPut ==
  ASSUME Header \in Nat \ {0}, NEW q, Lengths(q), NEW r \in Nat, NEW s, NEW open,
         Flows(s, q, r, open), open, NEW n \in Nat, n >= Header
  PROVE  /\ Flows(s \o Package(Len(q) + 1, n), Append(q, n), r, open)
         /\ Lengths(Append(q, n))
<1> DEFINE N == Len(q)
           P == N + 1
           q2 == Append(q, n)
           w == Package(P, n)
           v == s \o w
           M == Len(s)
<1>1. N \in Nat /\ M \in Nat /\ s \in Seq(AnyByte) /\ P \in Nat
  BY DEF Lengths, Flows
<1>2. q2 \in Seq(Nat) /\ Len(q2) = P /\ q2[P] = n /\ \A p \in 1 .. N : q2[p] = q[p] /\ p # P
  BY DEF Lengths
<1>3. Lengths(q2)
  <2> HIDE DEF q2
  <2> SUFFICES ASSUME NEW p \in 1 .. P PROVE q2[p] >= Header
    BY <1>2 DEF Lengths
  <2>1. CASE p = P
    BY <1>2, <2>1
  <2>2. CASE p # P
    <3>1. p \in 1 .. N
      BY <1>1, <2>2
    <3> QED
      BY <1>2, <3>1 DEF Lengths
  <2> QED
    BY <2>1, <2>2
<1>4. /\ w \in Seq(AnyByte) /\ Len(w) = n
      /\ \A k \in 1 .. n : w[k] = Byte(P, k - 1, IF k <= Header THEN n ELSE 0)
  BY <1>1, PackageIs
<1>5. \A p \in 1 .. N : \A i : ByteOf(p, i, q2) = ByteOf(p, i, q)
  BY <1>2 DEF ByteOf
<1> HIDE DEF q2, w, N
<1>6. \A k \in 1 .. n : w[k] = ByteOf(P, k - 1, q2)
  <2> SUFFICES ASSUME NEW k \in 1 .. n PROVE w[k] = ByteOf(P, k - 1, q2)
    OBVIOUS
  <2>1. k <= Header <=> k - 1 < Header
    OBVIOUS
  <2>2. w[k] = Byte(P, k - 1, IF k - 1 < Header THEN n ELSE 0)
    BY <1>4, <2>1
  <2> QED
    BY <1>2, <2>2, Zenon DEF ByteOf
<1>7. /\ v \in Seq(AnyByte) /\ Len(v) = M + n
      /\ \A k \in 1 .. M + n : v[k] = IF k <= M THEN s[k] ELSE w[k - M]
  <2>1. Joined(s \o w, s, w)
    BY <1>1, <1>4, Join
  <2> QED
    BY <1>4, <2>1 DEF Joined
<1> HIDE DEF v, P
<1>8. \A k \in 1 .. M : v[k] = s[k] /\ Genuine(s[k], q)
  BY <1>1, <1>7 DEF Flows
<1>9. \A j \in 1 .. n : v[M + j] = ByteOf(P, j - 1, q2)
  <2> SUFFICES ASSUME NEW j \in 1 .. n PROVE v[M + j] = ByteOf(P, j - 1, q2)
    OBVIOUS
  <2>1. M + j \in 1 .. M + n /\ ~(M + j <= M) /\ (M + j) - M = j
    BY <1>1
  <2> QED
    BY <1>6, <1>7, <2>1
<1>10. P \in 1 .. P /\ P = N + 1
  BY <1>1 DEF P
<1>11. \A k \in 1 .. M + n : k \in 1 .. M \/ (\E j \in 1 .. n : k = M + j)
  <2> SUFFICES ASSUME NEW k \in 1 .. M + n, k \notin 1 .. M PROVE \E j \in 1 .. n : k = M + j
    OBVIOUS
  <2>1. k - M \in 1 .. n /\ k = M + (k - M)
    BY <1>1
  <2> QED
    BY <2>1
<1>12. \A k \in 1 .. M + n : Genuine(v[k], q2)
  <2> SUFFICES ASSUME NEW k \in 1 .. M + n PROVE Genuine(v[k], q2)
    OBVIOUS
  <2>1. CASE k \in 1 .. M
    <3>1. /\ v[k].package \in 1 .. N /\ v[k].at \in 0 .. q[v[k].package] - 1
          /\ v[k] = ByteOf(v[k].package, v[k].at, q)
      BY <1>8, <2>1 DEF Genuine, N
    <3>2. v[k].package \in 1 .. P
      BY <1>1, <1>10, <3>1
    <3> QED
      BY <1>2, <1>5, <3>1, <3>2 DEF Genuine
  <2>2. ASSUME NEW j \in 1 .. n, k = M + j PROVE Genuine(v[k], q2)
    <3>1. v[k] = ByteOf(P, j - 1, q2) /\ j - 1 \in 0 .. n - 1
      BY <1>9, <2>2
    <3>2. v[k].package = P /\ v[k].at = j - 1
      BY <3>1, ByteFields
    <3> QED
      BY <1>2, <1>10, <3>1, <3>2 DEF Genuine
  <2> QED
    BY <1>11, <2>1, <2>2
<1>13. ASSUME NEW k \in 1 .. (M + n) - 1
       PROVE  v[k + 1] = After(v[k], q2)
  <2>1. CASE k \in 1 .. M - 1
    <3>1. k \in 1 .. M /\ k + 1 \in 1 .. M
      BY <1>1, <2>1
    <3>2. v[k] = s[k] /\ v[k + 1] = s[k + 1] /\ Genuine(s[k], q) /\ Genuine(s[k + 1], q)
      BY <1>8, <3>1
    <3>3. s[k + 1] = After(s[k], q)
      BY <2>1 DEF Flows
    <3>4. s[k].package \in 1 .. N
      BY <3>2 DEF Genuine, N
    <3>5. CASE s[k].at + 1 < q[s[k].package]
      <4>1. s[k].at + 1 < q2[s[k].package]
        BY <1>2, <3>4, <3>5
      <4>2. ByteOf(s[k].package, s[k].at + 1, q2) = ByteOf(s[k].package, s[k].at + 1, q)
        BY <1>5, <3>4
      <4> QED
        BY <3>2, <3>3, <3>5, <4>1, <4>2 DEF After
    <3>6. CASE ~(s[k].at + 1 < q[s[k].package])
      <4>1. ~(s[k].at + 1 < q2[s[k].package])
        BY <1>2, <3>4, <3>6
      <4>2. s[k + 1] = ByteOf(s[k].package + 1, 0, q)
        BY <3>3, <3>6 DEF After
      <4>3. s[k].package + 1 \in 1 .. N
        <5>1. s[k + 1].package = s[k].package + 1
          BY <4>2, ByteFields
        <5> QED
          BY <3>2, <5>1 DEF Genuine, N
      <4>4. s[k + 1] = ByteOf(s[k].package + 1, 0, q2)
        BY <1>5, <4>2, <4>3
      <4> QED
        BY <3>2, <4>1, <4>4 DEF After
    <3> QED
      BY <3>5, <3>6
  <2>2. CASE k = M
    <3>1. M \in 1 .. M /\ 1 \in 1 .. n
      BY <1>1, <2>2
    <3>2. v[k] = s[M] /\ v[k + 1] = ByteOf(P, 0, q2)
      BY <1>8, <1>9, <2>2, <3>1
    <3>3. s[M].package = N /\ s[M].at = q[N] - 1 /\ N \in 1 .. N
      <4>1. s[M].package = N /\ s[M].at = q[N] - 1
        BY <1>1, <3>1 DEF Flows, N
      <4>2. s[M].package \in 1 .. N
        BY <1>8, <3>1 DEF Genuine, N
      <4> QED
        BY <4>1, <4>2
    <3>4. q[N] \in Nat /\ q2[N] = q[N]
      BY <1>2, <3>3 DEF Lengths, N
    <3>5. ~(s[M].at + 1 < q2[s[M].package])
      BY <3>3, <3>4
    <3> QED
      BY <1>10, <3>2, <3>3, <3>5 DEF After
  <2>3. CASE k > M
    <3> DEFINE j == k - M
    <3>1. j \in 1 .. n /\ j + 1 \in 1 .. n /\ k = M + j /\ k + 1 = M + (j + 1)
          /\ (j + 1) - 1 = j /\ (j - 1) + 1 = j /\ j < n
      BY <1>1, <2>3
    <3>2. v[k] = ByteOf(P, j - 1, q2) /\ v[k + 1] = ByteOf(P, (j + 1) - 1, q2)
      BY <1>9, <3>1
    <3>3. v[k].package = P /\ v[k].at = j - 1
      BY <3>2, ByteFields
    <3> HIDE DEF j
    <3>4. v[k].at + 1 < q2[v[k].package]
      BY <1>2, <3>1, <3>3
    <3> QED
      BY <3>1, <3>2, <3>3, <3>4 DEF After
  <2> QED
    BY <1>1, <2>1, <2>2, <2>3
<1>14. v[1] = ByteOf(r + 1, 0, q2)
  <2>1. CASE M = 0
    <3>1. r = N /\ 1 \in 1 .. n /\ M + 1 = 1
      BY <1>1, <2>1 DEF Flows, N
    <3> QED
      BY <1>9, <1>10, <3>1
  <2>2. CASE M # 0
    <3>1. M > 0 /\ 1 \in 1 .. M
      BY <1>1, <2>2
    <3>2. s[1] = ByteOf(r + 1, 0, q) /\ v[1] = s[1] /\ s[1].package \in 1 .. N
      BY <1>8, <3>1 DEF Flows, Genuine, N
    <3>3. r + 1 \in 1 .. N
      BY <3>2, ByteFields
    <3> QED
      BY <1>5, <3>2, <3>3
  <2> QED
    BY <2>1, <2>2
<1>15. v[M + n].package = P /\ v[M + n].at = n - 1
  <2>1. n \in 1 .. n
    OBVIOUS
  <2>2. v[M + n] = ByteOf(P, n - 1, q2)
    BY <1>9, <2>1
  <2> QED
    BY <2>2, ByteFields
<1>16. M + n # 0
  BY <1>1
<1>17. Flows(v, q2, r, open)
  BY <1>2, <1>7, <1>12, <1>13, <1>14, <1>15, <1>16 DEF Flows
<1> QED
  BY <1>3, <1>17 DEF v, w, q2, P, N
-----------------------------------------------------------------------------
(* The steps of writer, device and reader *)

\* x and y are l cut after k bytes.
Cut(l, k, x, y) ==
  /\ x \in Seq(AnyByte) /\ y \in Seq(AnyByte) /\ Len(x) = k /\ Len(y) = Len(l) - k
  /\ x \o y = l

\* A sequence is its beginning and its rest.
LEMMA Cuts ==
  ASSUME NEW l \in Seq(AnyByte), NEW k \in 0 .. Len(l)
  PROVE  Cut(l, k, SubSeq(l, 1, k), SubSeq(l, k + 1, Len(l)))
<1> DEFINE x == SubSeq(l, 1, k)
           y == SubSeq(l, k + 1, Len(l))
           n == Len(l)
<1>1. n \in Nat /\ k \in Nat /\ k <= n /\ \A i \in 1 .. n : l[i] \in AnyByte
  OBVIOUS
<1>2. x \in Seq(AnyByte) /\ Len(x) = k /\ \A i \in 1 .. k : x[i] = l[i]
  OBVIOUS
<1>3. y \in Seq(AnyByte) /\ Len(y) = n - k /\ \A i \in 1 .. n - k : y[i] = l[k + i]
  OBVIOUS
<1> HIDE DEF x, y
<1>4. Joined(x \o y, x, y)
  BY <1>2, <1>3, Join
<1>5. Len(x \o y) = n
  BY <1>1, <1>2, <1>3, <1>4 DEF Joined
<1>6. ASSUME NEW i \in 1 .. n PROVE (x \o y)[i] = l[i]
  <2>1. i \in 1 .. Len(x) + Len(y)
    BY <1>1, <1>2, <1>3
  <2>2. (x \o y)[i] = IF i <= k THEN x[i] ELSE y[i - k]
    BY <1>2, <1>4, <2>1 DEF Joined
  <2>3. CASE i <= k
    BY <1>1, <1>2, <2>2, <2>3
  <2>4. CASE ~(i <= k)
    <3>1. i - k \in 1 .. n - k /\ k + (i - k) = i
      BY <1>1, <2>4
    <3> QED
      BY <1>3, <2>2, <2>4, <3>1
  <2> QED
    BY <2>3, <2>4
<1>7. x \o y = l
  <2>1. x \o y \in Seq(AnyByte)
    BY <1>4 DEF Joined
  <2> QED
    BY <1>5, <1>6, <2>1, SeqEqual
<1> QED
  BY <1>2, <1>3, <1>7 DEF Cut, x, y

\* A buffer whose first k live bytes have been taken.
LEMMA DropHolds ==
  ASSUME NEW b, NEW l \in Seq(AnyByte), Holds(b, l), NEW k \in 0 .. Len(l)
  PROVE  Holds([b EXCEPT !.base = @ + k], SubSeq(l, k + 1, Len(l)))
<1> DEFINE c == [b EXCEPT !.base = @ + k]
           y == SubSeq(l, k + 1, Len(l))
           base == b.base
           ptr == b.ptr
           data == b.data
<1>1. c = [local |-> b.local, size |-> b.size, data |-> data, base |-> base + k, ptr |-> ptr]
  BY DEF Holds, Buffer
<1>2. /\ c.base = base + k /\ c.ptr = ptr /\ c.size = b.size /\ c.data = data
      /\ c = [local |-> c.local, size |-> c.size, data |-> c.data, base |-> c.base,
              ptr |-> c.ptr]
  BY <1>1
<1>3. /\ Len(l) = ptr - base
      /\ \A j \in 1 .. ptr - base : l[j] = data[base + j - 1]
  BY LiveIs DEF Holds
<1>4. /\ b.size \in Nat \ {0} /\ data \in [0 .. b.size - 1 -> AnyByte]
      /\ base \in Nat /\ ptr \in Nat /\ base <= ptr /\ ptr <= b.size
  BY DEF Holds, Buffer
<1>5. y \in Seq(AnyByte) /\ Len(y) = Len(l) - k /\ \A i \in 1 .. Len(l) - k : y[i] = l[k + i]
  OBVIOUS
<1> HIDE DEF c, y, base, ptr, data
<1>6. base + k \in Nat /\ base + k <= ptr
  BY <1>3, <1>4
<1>7. Buffer(c)
  BY <1>2, <1>4, <1>6 DEF Buffer
<1>8. Len(y) = ptr - (base + k)
  BY <1>3, <1>4, <1>5
<1>9. \A i \in 1 .. Len(y) : data[(base + k) + i - 1] = y[i]
  <2> SUFFICES ASSUME NEW i \in 1 .. Len(y) PROVE data[(base + k) + i - 1] = y[i]
    OBVIOUS
  <2>1. i \in 1 .. Len(l) - k /\ k + i \in 1 .. ptr - base
        /\ base + (k + i) - 1 = (base + k) + i - 1
    BY <1>3, <1>4, <1>5, <1>8
  <2> QED
    BY <1>3, <1>5, <2>1
<1>10. Len(y) = c.ptr - c.base /\ \A i \in 1 .. Len(y) : c.data[c.base + i - 1] = y[i]
  <2>1. c.base = base + k /\ c.ptr = ptr /\ c.data = data
    BY <1>2
  <2> QED
    BY <1>8, <1>9, <2>1, Zenon
<1>11. Holds(c, y)
  BY <1>5, <1>7, <1>10, HoldsIf
<1> QED
  BY <1>11 DEF c, y

\* The lesser of two numbers is at most either.
LEMMA MinBelow ==
  ASSUME NEW x \in Int, NEW y \in Int
  PROVE  Min({x, y}) <= x /\ Min({x, y}) <= y /\ Min({x, y}) \in Int
<1>1. \E m \in {x, y} : \A z \in {x, y} : m <= z
  BY x <= y \/ y <= x
<1> QED
  BY <1>1 DEF Min

\* Concatenation is associative.
LEMMA Associate ==
  ASSUME NEW s \in Seq(AnyByte), NEW t \in Seq(AnyByte), NEW u \in Seq(AnyByte)
  PROVE  (s \o t) \o u = s \o (t \o u)
BY ConcatAssociative

\* The empty sequence.
LEMMA EmptyIs == <<>> \in Seq(AnyByte) /\ Len(<<>>) = 0
  OBVIOUS

\* What is live before a step.
LEMMA LiveNow ==
  ASSUME StreamInv
  PROVE  /\ Holds(out, Live(out)) /\ Live(out) \in Seq(AnyByte)
         /\ Avail(out) = Len(Live(out)) /\ Len(Live(out)) \in Nat
         /\ Holds(in, Live(in)) /\ Live(in) \in Seq(AnyByte)
         /\ Avail(in) = Len(Live(in)) /\ Len(Live(in)) \in Nat
         /\ pipe \in Seq(AnyByte) /\ Len(pipe) \in Nat
         /\ Len(sent) \in Nat /\ Len(received) \in Nat
<1>1. Buffer(out) /\ Buffer(in) /\ pipe \in Seq(AnyByte)
  BY DEF StreamInv
<1>2. sent \in Seq(Nat) /\ received \in Seq(Seq(AnyByte))
  BY DEF StreamInv, Lengths
<1>3. Holds(out, Live(out)) /\ Holds(in, Live(in))
  BY <1>1 DEF Holds
<1> QED
  BY <1>1, <1>2, <1>3, LiveIs

\* The invariant after a step, from what the buffers then hold.
LEMMA LiveThen ==
  ASSUME NEW lo, NEW li, Holds(out', lo), Holds(in', li), pipe' \in Seq(AnyByte),
         Lengths(sent'), received' \in Seq(Seq(AnyByte)), ReceivedInOrder',
         Flows((li \o pipe') \o lo, sent', Len(received'), ~closed'),
         reading' \/ ~(Len(li) >= Header /\ Len(li) >= LengthOf(li)),
         broken' => closed' /\ pipe' = <<>> /\ ~reading'
  PROVE  StreamInv'
<1>1. Buffer(out') /\ Buffer(in') /\ Live(out') = lo /\ Live(in') = li
  BY DEF Holds
<1>2. Underway' = (li \o pipe') \o lo
  BY <1>1 DEF Underway
<1>3. ~reading' => ~Complete(in')
  BY CompleteIs, StreamBufferAssumption
<1>4. Flows(Underway', sent', Len(received'), ~closed')
  BY <1>2
<1> QED
  BY <1>1, <1>3, <1>4 DEF StreamInv

\* Nothing is on the way at first.
LEMMA StreamInit ==
  ASSUME Init
  PROVE  StreamInv
<1>1. Holds(Fresh, <<>>)
  BY FreshHolds, StreamBufferAssumption
<1>2. out = Fresh /\ in = Fresh /\ pipe = <<>> /\ sent = <<>> /\ received = <<>>
      /\ closed = FALSE /\ broken = FALSE /\ reading = FALSE
  BY DEF Init
<1>3. Buffer(out) /\ Buffer(in) /\ Live(out) = <<>> /\ Live(in) = <<>>
  BY <1>1, <1>2 DEF Holds
<1>4. Underway = <<>>
  BY <1>2, <1>3 DEF Underway
<1>5. Flows(<<>>, <<>>, 0, TRUE)
  BY DEF Flows
<1>6. ~Complete(in)
  <2>1. Avail(in) = 0
    BY <1>3, LiveIs, EmptyIs
  <2> QED
    BY <2>1, StreamBufferAssumption DEF Complete
<1>7. Lengths(<<>>)
  BY DEF Lengths
<1>8. received \in Seq(Seq(AnyByte)) /\ ReceivedInOrder
  BY <1>2 DEF ReceivedInOrder
<1>9. Flows(Underway, sent, Len(received), ~closed)
  <2>1. Len(received) = 0 /\ sent = <<>> /\ (~closed) = TRUE
    BY <1>2
  <2> QED
    BY <1>4, <1>5, <2>1, Zenon
<1> QED
  BY <1>2, <1>3, <1>6, <1>7, <1>8, <1>9, EmptyIs DEF StreamInv

\* A package follows what the writer has buffered.
LEMMA SendStep ==
  ASSUME StreamInv, NEW m \in Payload, Send(Header + m)
  PROVE  StreamInv'
<1> DEFINE n == Header + m
           p == Len(sent) + 1
           lo == Live(out)
           li == Live(in)
           w == Package(p, n)
<1>1. n \in Nat /\ n >= Header /\ Header \in Nat \ {0} /\ p \in Int /\ p \in Nat
  BY LiveNow, StreamBufferAssumption
<1>2. /\ ~closed /\ sent' = Append(sent, n) /\ out' = Patched(Archived(out, p, n), p, n)
      /\ pipe' = pipe /\ in' = in /\ received' = received /\ reading' = reading
      /\ closed' = closed /\ broken' = broken
  BY DEF Send
<1>3. Buffer(out) /\ Lengths(sent) /\ Flows(Underway, sent, Len(received), ~closed)
      /\ Underway = (li \o pipe) \o lo
  BY DEF StreamInv, Underway
<1> HIDE DEF n
<1>4. Holds(Archived(out, p, n), lo \o Unfilled(p, n))
  BY <1>1, <1>3, ArchivedHolds
<1>5. Holds(out', lo \o w)
  BY <1>1, <1>2, <1>4, LiveNow, PatchedHolds
<1>6. w \in Seq(AnyByte)
  BY <1>1, PackageIs
<1> HIDE DEF lo, li
<1>7. lo \in Seq(AnyByte) /\ li \in Seq(AnyByte) /\ pipe \in Seq(AnyByte) /\ Holds(in, li)
  BY LiveNow DEF lo, li
<1>8. li \o pipe \in Seq(AnyByte)
  BY <1>7
<1>9. ((li \o pipe) \o lo) \o w = (li \o pipe) \o (lo \o w)
  BY <1>6, <1>7, <1>8, Associate, Zenon
<1>10. /\ Flows(Underway \o w, Append(sent, n), Len(received), ~closed)
       /\ Lengths(Append(sent, n))
  BY <1>1, <1>2, <1>3, FlowPut, LiveNow
<1>11. Flows((li \o pipe) \o (lo \o w), sent', Len(received'), ~closed')
  BY <1>2, <1>3, <1>9, <1>10, Zenon
<1>12. received' \in Seq(Seq(AnyByte)) /\ ReceivedInOrder'
  <2>1. received \in Seq(Seq(AnyByte)) /\ ReceivedInOrder /\ sent \in Seq(Nat) /\ n \in Nat
    BY <1>1 DEF StreamInv, Lengths
  <2>2. Len(sent') = Len(sent) + 1 /\ \A i \in 1 .. Len(sent) : sent'[i] = sent[i]
    BY <1>2, <2>1
  <2>3. DOMAIN received = 1 .. Len(received) /\ Len(received) \in Nat /\ Len(sent) \in Nat
    BY <2>1
  <2>4. Len(received) <= Len(sent)
    BY <2>1 DEF ReceivedInOrder
  <2>5. \A i \in DOMAIN received : sent'[i] = sent[i]
    BY <2>2, <2>3, <2>4
  <2>6. \A i \in DOMAIN received : received[i] = Package(i, sent'[i])
    BY <2>1, <2>5, Zenon DEF ReceivedInOrder
  <2>7. Len(received') <= Len(sent')
    BY <1>2, <2>2, <2>3, <2>4
  <2> QED
    BY <1>2, <2>1, <2>6, <2>7 DEF ReceivedInOrder
<1>13. reading' \/ ~(Len(li) >= Header /\ Len(li) >= LengthOf(li))
  BY <1>1, <1>2, <1>7, CompleteIs DEF StreamInv
<1>14. broken' => closed' /\ pipe' = <<>> /\ ~reading'
  BY <1>2 DEF StreamInv
<1>15. Lengths(sent') /\ pipe' \in Seq(AnyByte) /\ Holds(in', li)
  BY <1>2, <1>7, <1>10
<1>16. Flows((li \o pipe') \o (lo \o w), sent', Len(received'), ~closed')
  BY <1>2, <1>11
<1> QED
  BY <1>5, <1>12, <1>13, <1>14, <1>15, <1>16, LiveThen

\* What the device takes from the writer is on the way as before.
LEMMA SyncOutStep ==
  ASSUME StreamInv, NEW k, SyncOut(k)
  PROVE  StreamInv'
<1> DEFINE lo == Live(out)
           li == Live(in)
           x == SubSeq(lo, 1, k)
           y == SubSeq(lo, k + 1, Len(lo))
<1>1. /\ pipe' = pipe \o x /\ out' = [out EXCEPT !.base = @ + k]
      /\ sent' = sent /\ in' = in /\ received' = received /\ reading' = reading
      /\ closed' = closed /\ broken' = broken /\ ~closed
      /\ k \in 1 .. Min({Avail(out), PipeSize - Len(pipe)})
  BY DEF SyncOut
<1> HIDE DEF lo, li
<1>2. /\ lo \in Seq(AnyByte) /\ li \in Seq(AnyByte) /\ pipe \in Seq(AnyByte)
      /\ Holds(in, li) /\ Holds(out, lo) /\ Avail(out) = Len(lo) /\ Len(lo) \in Nat
      /\ Len(pipe) \in Nat
  BY LiveNow DEF lo, li
<1>3. k \in 0 .. Len(lo)
  <2>1. PipeSize - Len(pipe) \in Int
    BY <1>2, StreamBufferAssumption
  <2>2. Min({Len(lo), PipeSize - Len(pipe)}) <= Len(lo)
        /\ Min({Len(lo), PipeSize - Len(pipe)}) \in Int
    BY <1>2, <2>1, MinBelow, Len(lo) \in Int, Zenon
  <2> HIDE DEF lo
  <2> QED
    BY <1>1, <1>2, <2>2
<1>4. Cut(lo, k, x, y)
  BY <1>2, <1>3, Cuts
<1>5. Holds(out', y)
  BY <1>1, <1>2, <1>3, DropHolds
<1> HIDE DEF x, y
<1>6. x \in Seq(AnyByte) /\ y \in Seq(AnyByte) /\ x \o y = lo
  BY <1>4 DEF Cut
<1>7. li \o pipe \in Seq(AnyByte) /\ pipe' \in Seq(AnyByte)
  BY <1>1, <1>2, <1>6
<1>8. (li \o pipe') \o y = (li \o pipe) \o lo
  <2>1. li \o (pipe \o x) = (li \o pipe) \o x
    BY <1>2, <1>6, Associate, Zenon
  <2>2. ((li \o pipe) \o x) \o y = (li \o pipe) \o (x \o y)
    BY <1>6, <1>7, Associate, Zenon
  <2> QED
    BY <1>1, <1>6, <2>1, <2>2, Zenon
<1>9. Flows((li \o pipe) \o lo, sent, Len(received), ~closed)
  BY DEF StreamInv, Underway, lo, li
<1>10. Flows((li \o pipe') \o y, sent', Len(received'), ~closed')
  BY <1>1, <1>8, <1>9, Zenon
<1>11. received' \in Seq(Seq(AnyByte)) /\ ReceivedInOrder' /\ Lengths(sent')
  BY <1>1 DEF StreamInv, ReceivedInOrder
<1>12. reading' \/ ~(Len(li) >= Header /\ Len(li) >= LengthOf(li))
  BY <1>1, <1>2, CompleteIs, StreamBufferAssumption DEF StreamInv
<1>13. broken' => closed' /\ pipe' = <<>> /\ ~reading'
  BY <1>1 DEF StreamInv
<1>14. Holds(in', li)
  BY <1>1, <1>2
<1> QED
  BY <1>5, <1>7, <1>10, <1>11, <1>12, <1>13, <1>14, LiveThen

\* The last flush may lose the end of the stream.
LEMMA DestroyStep ==
  ASSUME StreamInv, NEW k, Destroy(k)
  PROVE  StreamInv'
<1> DEFINE lo == Live(out)
           li == Live(in)
           x == SubSeq(lo, 1, k)
           y == SubSeq(lo, k + 1, Len(lo))
           u == (li \o pipe') \o <<>>
<1>1. /\ pipe' = pipe \o x /\ out' = Fresh
      /\ sent' = sent /\ in' = in /\ received' = received /\ reading' = reading
      /\ closed' = TRUE /\ broken' = broken /\ ~closed
      /\ k \in 0 .. Min({Avail(out), PipeSize - Len(pipe)})
  BY DEF Destroy
<1> HIDE DEF lo, li
<1>2. /\ lo \in Seq(AnyByte) /\ li \in Seq(AnyByte) /\ pipe \in Seq(AnyByte)
      /\ Holds(in, li) /\ Avail(out) = Len(lo) /\ Len(lo) \in Nat /\ Len(pipe) \in Nat
  BY LiveNow DEF lo, li
<1>3. k \in 0 .. Len(lo)
  <2>1. PipeSize - Len(pipe) \in Int
    BY <1>2, StreamBufferAssumption
  <2>2. Min({Len(lo), PipeSize - Len(pipe)}) <= Len(lo)
        /\ Min({Len(lo), PipeSize - Len(pipe)}) \in Int
    BY <1>2, <2>1, MinBelow, Len(lo) \in Int, Zenon
  <2> QED
    BY <1>1, <1>2, <2>2
<1>4. Cut(lo, k, x, y)
  BY <1>2, <1>3, Cuts
<1> HIDE DEF x, y
<1>5. x \in Seq(AnyByte) /\ y \in Seq(AnyByte) /\ x \o y = lo
  BY <1>4 DEF Cut
<1>6. Holds(out', <<>>)
  BY <1>1, FreshHolds, StreamBufferAssumption
<1>7. li \o pipe \in Seq(AnyByte) /\ pipe' \in Seq(AnyByte)
  BY <1>1, <1>2, <1>5
<1>8. (li \o pipe') \o y = (li \o pipe) \o lo
  <2>1. li \o (pipe \o x) = (li \o pipe) \o x
    BY <1>2, <1>5, Associate, Zenon
  <2>2. ((li \o pipe) \o x) \o y = (li \o pipe) \o (x \o y)
    BY <1>5, <1>7, Associate, Zenon
  <2> QED
    BY <1>1, <1>5, <2>1, <2>2, Zenon
<1>9. Flows((li \o pipe') \o y, sent, Len(received), ~closed)
  BY <1>8 DEF StreamInv, Underway, lo, li
<1>10. Flows(u, sent, Len(received), ~closed')
  <2>1. u = li \o pipe' /\ li \o pipe' \in Seq(AnyByte)
    BY <1>2, <1>7
  <2> DEFINE v == li \o pipe'
  <2> HIDE DEF v, u
  <2>2. v \in Seq(AnyByte) /\ Joined(v \o y, v, y) /\ Len(v) \in Nat /\ Len(y) \in Nat
    <3>1. v \in Seq(AnyByte)
      BY <2>1 DEF v
    <3> QED
      BY <1>5, <3>1, Join
  <2>3. Len(v) <= Len(v \o y) /\ \A j \in 1 .. Len(v) : v[j] = (v \o y)[j]
    BY <2>2 DEF Joined
  <2>4. Flows(v \o y, sent, Len(received), ~closed)
    BY <1>9 DEF v
  <2>5. ~(~closed')
    BY <1>1
  <2> QED
    BY <2>1, <2>2, <2>3, <2>4, <2>5, FlowCut DEF v
<1>11. received' \in Seq(Seq(AnyByte)) /\ ReceivedInOrder' /\ Lengths(sent')
  BY <1>1 DEF StreamInv, ReceivedInOrder
<1>12. reading' \/ ~(Len(li) >= Header /\ Len(li) >= LengthOf(li))
  BY <1>1, <1>2, CompleteIs, StreamBufferAssumption DEF StreamInv
<1>13. broken' => closed' /\ pipe' = <<>> /\ ~reading'
  BY <1>1 DEF StreamInv
<1>14. Holds(in', li) /\ Flows((li \o pipe') \o <<>>, sent', Len(received'), ~closed')
  BY <1>1, <1>2, <1>10
<1> QED
  BY <1>6, <1>7, <1>11, <1>12, <1>13, <1>14, LiveThen

\* The parts of the invariant that a step of the reader's buffers alone keeps.
LEMMA KeptApart ==
  ASSUME StreamInv, UNCHANGED <<sent, received, closed, broken>>
  PROVE  /\ Lengths(sent') /\ received' \in Seq(Seq(AnyByte)) /\ ReceivedInOrder'
         /\ Flows((Live(in) \o pipe) \o Live(out), sent', Len(received'), ~closed')
BY DEF StreamInv, ReceivedInOrder, Underway

\* What the reader takes from the device is on the way as before.
LEMMA SyncInStep ==
  ASSUME StreamInv, NEW k, SyncIn(k)
  PROVE  StreamInv'
<1> DEFINE lo == Live(out)
           li == Live(in)
           b == Roomy(in)
           x == SubSeq(pipe, 1, k)
           y == SubSeq(pipe, k + 1, Len(pipe))
<1>1. /\ pipe' = y /\ out' = out
      /\ sent' = sent /\ received' = received /\ reading' = TRUE
      /\ closed' = closed /\ broken' = broken /\ ~broken
      /\ k \in 0 .. Min({Room(b), Len(pipe)})
      /\ in' = [b EXCEPT
                  !.data = [i \in DOMAIN @ |->
                              IF i - b.ptr \in 0 .. k - 1 THEN pipe[i - b.ptr + 1] ELSE @[i]],
                  !.ptr = @ + k]
  BY DEF SyncIn
<1> HIDE DEF lo, li, b
<1>2. /\ lo \in Seq(AnyByte) /\ li \in Seq(AnyByte) /\ pipe \in Seq(AnyByte)
      /\ Holds(out, lo) /\ Len(pipe) \in Nat
  BY LiveNow DEF lo, li
<1>3. Holds(b, li) /\ Room(b) \in Nat
  BY RoomyHolds DEF StreamInv, b, li
<1>4. k \in 0 .. Len(pipe) /\ k \in 0 .. Room(b)
  <2>1. /\ Min({Room(b), Len(pipe)}) <= Len(pipe) /\ Min({Room(b), Len(pipe)}) \in Int
        /\ Min({Room(b), Len(pipe)}) <= Room(b)
    BY <1>2, <1>3, Room(b) \in Int, Len(pipe) \in Int, MinBelow, Zenon
  <2> QED
    BY <1>1, <1>2, <1>3, <2>1
<1>5. Cut(pipe, k, x, y)
  BY <1>2, <1>4, Cuts
<1>6. x \in Seq(AnyByte) /\ y \in Seq(AnyByte) /\ x \o y = pipe /\ Len(x) = k
  BY <1>5 DEF Cut
<1>7. \A j \in 1 .. k : x[j] = pipe[j]
  BY <1>2, <1>4
<1> HIDE DEF x, y
<1>8. in' = Put(b, x)
  <2>1. Buffer(b) /\ b.ptr \in Nat
    BY <1>3 DEF Holds, Buffer
  <2>2. \A i \in DOMAIN b.data :
          (IF i - b.ptr \in 0 .. k - 1 THEN pipe[i - b.ptr + 1] ELSE b.data[i])
          = (IF i - b.ptr \in 0 .. Len(x) - 1 THEN x[i - b.ptr + 1] ELSE b.data[i])
    <3> SUFFICES ASSUME NEW i \in DOMAIN b.data, i - b.ptr \in 0 .. k - 1
                 PROVE  pipe[i - b.ptr + 1] = x[i - b.ptr + 1]
      BY <1>6
    <3>1. i \in Int
      BY <2>1 DEF Buffer
    <3>2. i - b.ptr + 1 \in 1 .. k
      BY <1>4, <2>1, <3>1
    <3> QED
      BY <1>7, <3>2
  <2>3. [i \in DOMAIN b.data |->
           IF i - b.ptr \in 0 .. k - 1 THEN pipe[i - b.ptr + 1] ELSE b.data[i]]
        = [i \in DOMAIN b.data |->
             IF i - b.ptr \in 0 .. Len(x) - 1 THEN x[i - b.ptr + 1] ELSE b.data[i]]
    BY <2>2, Zenon
  <2> QED
    BY <1>1, <1>6, <2>3, Zenon DEF Put
<1>9. Holds(in', li \o x)
  <2>1. Buffer(b) /\ Live(b) = li /\ b.ptr + Len(x) <= b.size
    BY <1>3, <1>4, <1>6 DEF Holds, Buffer, Room
  <2>2. Holds(Put(b, x), Live(b) \o x)
    BY <1>6, <2>1, PutHolds
  <2> QED
    BY <1>8, <2>1, <2>2, Zenon
<1>10. (li \o x) \o pipe' = li \o pipe
  BY <1>1, <1>2, <1>6, Associate, Zenon
<1>11. /\ Lengths(sent') /\ received' \in Seq(Seq(AnyByte)) /\ ReceivedInOrder'
       /\ Flows((li \o pipe) \o lo, sent', Len(received'), ~closed')
  BY <1>1, KeptApart DEF lo, li
<1>12. Flows(((li \o x) \o pipe') \o lo, sent', Len(received'), ~closed')
  BY <1>10, <1>11, Zenon
<1>13. Holds(out', lo) /\ pipe' \in Seq(AnyByte) /\ reading' /\ ~broken'
  BY <1>1, <1>2, <1>6
<1> QED
  BY <1>9, <1>11, <1>12, <1>13, LiveThen

\* A broken device leaves what is live as it is.
LEMMA ReadBrokenStep ==
  ASSUME StreamInv, ReadBroken
  PROVE  StreamInv'
<1> DEFINE lo == Live(out)
           li == Live(in)
<1>1. /\ pipe' = pipe /\ out' = out /\ in' = Roomy(in)
      /\ sent' = sent /\ received' = received /\ reading' = reading
      /\ closed' = closed /\ closed /\ ~reading /\ pipe = <<>>
  BY DEF ReadBroken
<1>2. Holds(in', li) /\ Holds(out', lo) /\ Holds(in, li)
  BY <1>1, LiveNow, RoomyHolds DEF StreamInv
<1>3. /\ Lengths(sent') /\ received' \in Seq(Seq(AnyByte)) /\ ReceivedInOrder'
      /\ Flows((li \o pipe') \o lo, sent', Len(received'), ~closed')
  BY <1>1 DEF StreamInv, ReceivedInOrder, Underway
<1>4. ~(Len(li) >= Header /\ Len(li) >= LengthOf(li))
  BY <1>1, <1>2, CompleteIs, StreamBufferAssumption DEF StreamInv
<1>5. pipe' \in Seq(AnyByte) /\ (broken' => closed' /\ pipe' = <<>> /\ ~reading')
  BY <1>1 DEF StreamInv
<1> HIDE DEF lo, li
<1> QED
  BY <1>2, <1>3, <1>4, <1>5, LiveThen

\* The loop ends when no whole package is left.
LEMMA LoopEndsStep ==
  ASSUME StreamInv, LoopEnds
  PROVE  StreamInv'
BY DEF LoopEnds, StreamInv, ReceivedInOrder, Underway

\* The header at the front of the stream tells the length of its package.
LEMMA FrontLength ==
  ASSUME StreamInv, Complete(in)
  PROVE  /\ Len(received) + 1 \in 1 .. Len(sent)
         /\ Length(in) = sent[Len(received) + 1] /\ Length(in) \in Nat
         /\ Length(in) >= Header /\ Length(in) <= Len(Live(in))
         /\ SubSeq(Live(in), 1, Length(in)) = Package(Len(received) + 1, Length(in))
<1> DEFINE lo == Live(out)
           li == Live(in)
           r == Len(received)
           s == (li \o pipe) \o lo
           N == sent[r + 1]
<1>1. /\ lo \in Seq(AnyByte) /\ li \in Seq(AnyByte) /\ pipe \in Seq(AnyByte)
      /\ Holds(in, li) /\ Len(li) \in Nat /\ r \in Nat /\ Header \in Nat \ {0}
  BY LiveNow, StreamBufferAssumption
<1>2. Len(li) >= Header /\ Len(li) >= LengthOf(li)
  BY <1>1, CompleteIs
<1>3. Flows(s, sent, r, ~closed) /\ Lengths(sent)
  BY DEF StreamInv, Underway
<1>4. Length(in) = LengthOf(li)
  BY <1>1, <1>2, LengthIs
<1> HIDE DEF lo, li, r
<1>5. s \in Seq(AnyByte) /\ Len(s) >= Len(li) /\ \A k \in 1 .. Len(li) : s[k] = li[k]
  <2> DEFINE t == pipe \o lo
  <2>1. t \in Seq(AnyByte) /\ s = li \o t
    BY <1>1, Associate
  <2> HIDE DEF t, s
  <2>2. Joined(s, li, t) /\ Len(t) \in Nat
    BY <1>1, <2>1, Join
  <2> QED
    BY <1>1, <2>2 DEF Joined
<1> HIDE DEF s
<1>6. Len(s) > 0
  BY <1>1, <1>2, <1>5
<1>7. /\ r + 1 \in 1 .. Len(sent)
      /\ \A k \in 1 .. N : k <= Len(s) => s[k] = ByteOf(r + 1, k - 1, sent)
  BY <1>1, <1>3, <1>6, HeadOf
<1>8. N \in Nat /\ N >= Header
  BY <1>3, <1>7 DEF Lengths
<1> HIDE DEF N
<1>9. \A k \in 1 .. N : k <= Len(li) => li[k] = ByteOf(r + 1, k - 1, sent)
  BY <1>1, <1>5, <1>7, <1>8
<1>10. \A k \in 0 .. Header - 1 : li[k + 1] = Byte(r + 1, k, N)
  <2> SUFFICES ASSUME NEW k \in 0 .. Header - 1 PROVE li[k + 1] = Byte(r + 1, k, N)
    OBVIOUS
  <2>1. k + 1 \in 1 .. N /\ k + 1 <= Len(li) /\ (k + 1) - 1 = k /\ k < Header
    BY <1>1, <1>2, <1>8
  <2>2. li[k + 1] = ByteOf(r + 1, k, sent)
    BY <1>9, <2>1
  <2> QED
    BY <2>1, <2>2 DEF ByteOf, N
<1>11. li[1] = Byte(r + 1, 0, N)
  <2>1. 0 \in 0 .. Header - 1 /\ 0 + 1 = 1
    BY <1>1
  <2> QED
    BY <1>10, <2>1
<1>12. LengthOf(li) = N
  <2>1. \A k \in 0 .. Header - 1 : [li[1] EXCEPT !.at = k] = Byte(r + 1, k, N)
    BY <1>11 DEF Byte
  <2>2. li[1].length = N
    BY <1>11 DEF Byte
  <2>3. \A k \in 0 .. Header - 1 : li[k + 1] = [li[1] EXCEPT !.at = k]
    BY <1>10, <2>1
  <2> QED
    BY <2>2, <2>3, Zenon DEF LengthOf
<1>13. SubSeq(li, 1, N) = Package(r + 1, N)
  <2> DEFINE x == SubSeq(li, 1, N)
             w == Package(r + 1, N)
  <2>1. N \in 0 .. Len(li)
    BY <1>1, <1>2, <1>8, <1>12
  <2>2. x \in Seq(AnyByte) /\ Len(x) = N
    BY <1>1, <2>1, Cuts DEF Cut
  <2>3. \A k \in 1 .. N : x[k] = li[k]
    BY <1>1, <2>1
  <2>4. /\ w \in Seq(AnyByte) /\ Len(w) = N
        /\ \A k \in 1 .. N : w[k] = Byte(r + 1, k - 1, IF k <= Header THEN N ELSE 0)
    BY <1>1, <1>8, PackageIs
  <2> HIDE DEF x, w
  <2>5. \A k \in 1 .. N : x[k] = w[k]
    <3> SUFFICES ASSUME NEW k \in 1 .. N PROVE x[k] = w[k]
      OBVIOUS
    <3>1. li[k] = ByteOf(r + 1, k - 1, sent)
      BY <1>9, <2>1
    <3>2. k - 1 < Header <=> k <= Header
      BY <1>1, <1>8
    <3>3. ByteOf(r + 1, k - 1, sent) = Byte(r + 1, k - 1, IF k <= Header THEN N ELSE 0)
      BY <3>2 DEF ByteOf, N
    <3> QED
      BY <2>3, <2>4, <3>1, <3>3
  <2>6. x = w
    BY <2>2, <2>4, <2>5, SeqEqual
  <2> QED
    BY <2>6 DEF x, w
<1>14. /\ r + 1 \in 1 .. Len(sent) /\ Length(in) = N /\ Length(in) \in Nat
       /\ Length(in) >= Header /\ Length(in) <= Len(li)
       /\ SubSeq(li, 1, Length(in)) = Package(r + 1, Length(in))
  BY <1>1, <1>2, <1>4, <1>7, <1>8, <1>12, <1>13
<1> QED
  BY <1>14 DEF N, li, r

\* The next package is read as it was sent.
LEMMA ReceiveStep ==
  ASSUME StreamInv, Receive
  PROVE  StreamInv'
<1> DEFINE lo == Live(out)
           li == Live(in)
           r == Len(received)
           s == (li \o pipe) \o lo
           N == sent[r + 1]
           x == SubSeq(li, 1, N)
           y == SubSeq(li, N + 1, Len(li))
           t == (y \o pipe) \o lo
<1>1. /\ pipe' = pipe /\ out' = out /\ sent' = sent /\ closed' = closed /\ broken' = broken
      /\ reading' = reading /\ reading /\ Complete(in)
  BY DEF Receive
<1>2. /\ r + 1 \in 1 .. Len(sent) /\ Length(in) = N /\ N \in Nat
      /\ N >= Header /\ N <= Len(li) /\ x = Package(r + 1, N)
  BY <1>1, FrontLength
<1>3. received' = Append(received, Package(r + 1, N)) /\ in' = [in EXCEPT !.base = @ + N]
  BY <1>2 DEF Receive
<1>4. /\ lo \in Seq(AnyByte) /\ li \in Seq(AnyByte) /\ pipe \in Seq(AnyByte)
      /\ Holds(in, li) /\ Holds(out, lo) /\ Len(li) \in Nat /\ r \in Nat
      /\ Header \in Nat \ {0}
  BY LiveNow, StreamBufferAssumption
<1>5. Flows(s, sent, r, ~closed) /\ Lengths(sent)
  BY DEF StreamInv, Underway
<1> HIDE DEF N, lo, li, r
<1>6. N \in 0 .. Len(li)
  BY <1>2, <1>4
<1>7. Cut(li, N, x, y) /\ Holds(in', y)
  BY <1>3, <1>4, <1>6, Cuts, DropHolds
<1> HIDE DEF x, y
<1>8. x \in Seq(AnyByte) /\ y \in Seq(AnyByte) /\ Len(x) = N /\ x \o y = li
  BY <1>7 DEF Cut
<1>9. y \o pipe \in Seq(AnyByte) /\ t \in Seq(AnyByte)
  BY <1>4, <1>8
<1>10. s = x \o t
  <2> HIDE DEF s, t
  <2> x \in Seq(AnyByte) /\ y \in Seq(AnyByte)
    BY <1>8
  <2>1. (x \o y) \o pipe = x \o (y \o pipe)
    BY <1>4, Associate, Zenon
  <2>2. (x \o (y \o pipe)) \o lo = x \o ((y \o pipe) \o lo)
    BY <1>4, <1>9, Associate, Zenon
  <2> QED
    BY <1>8, <2>1, <2>2, Zenon DEF s, t
<1> HIDE DEF s, t
<1>11. Joined(s, x, t) /\ Len(t) \in Nat
  BY <1>8, <1>9, <1>10, Join
<1>12. /\ Len(t) = Len(s) - N /\ Len(s) > 0 /\ N <= Len(s)
       /\ \A k \in 1 .. Len(t) : t[k] = s[N + k]
  <2>1. Len(s) = N + Len(t) /\ N > 0 /\ N \in Nat /\ Len(t) \in Nat
    BY <1>2, <1>4, <1>8, <1>11 DEF Joined
  <2>2. \A k \in 1 .. Len(t) : t[k] = s[N + k]
    <3> SUFFICES ASSUME NEW k \in 1 .. Len(t) PROVE t[k] = s[N + k]
      OBVIOUS
    <3>1. N + k \in 1 .. N + Len(t) /\ ~(N + k <= N) /\ (N + k) - N = k
      BY <1>2, <1>11
    <3> QED
      BY <1>8, <1>11, <3>1 DEF Joined
  <2> QED
    BY <2>1, <2>2
<1>13. Flows(t, sent, r + 1, ~closed) /\ r + 1 <= Len(sent)
  BY <1>4, <1>5, <1>9, <1>12, FlowTake DEF N
<1>14. Package(r + 1, N) \in Seq(AnyByte)
  BY <1>2, <1>8
<1>15. /\ received \in Seq(Seq(AnyByte)) /\ received' \in Seq(Seq(AnyByte))
       /\ Len(received') = r + 1 /\ received'[r + 1] = Package(r + 1, N)
       /\ \A i \in 1 .. r : received'[i] = received[i]
  <2>1. received \in Seq(Seq(AnyByte))
    BY DEF StreamInv
  <2> DEFINE w == Package(r + 1, N)
  <2>2. received' = Append(received, w) /\ w \in Seq(AnyByte)
    BY <1>3, <1>14
  <2> HIDE DEF w
  <2>3. /\ received' \in Seq(Seq(AnyByte)) /\ Len(received') = Len(received) + 1
        /\ received'[Len(received) + 1] = w
        /\ \A i \in 1 .. Len(received) : received'[i] = received[i]
    BY <2>1, <2>2
  <2> QED
    BY <2>1, <2>3 DEF r, w
<1>16. ReceivedInOrder'
  <2>1. \A i \in 1 .. r : received[i] = Package(i, sent[i])
    BY <1>15 DEF StreamInv, ReceivedInOrder, r
  <2>2. \A i \in 1 .. r + 1 : received'[i] = Package(i, sent[i])
    <3> SUFFICES ASSUME NEW i \in 1 .. r + 1 PROVE received'[i] = Package(i, sent[i])
      OBVIOUS
    <3>1. CASE i = r + 1
      BY <1>15, <3>1 DEF N
    <3>2. CASE i # r + 1
      <4>1. i \in 1 .. r
        BY <1>4, <3>2
      <4> QED
        BY <1>15, <2>1, <4>1, Zenon
    <3> QED
      BY <3>1, <3>2
  <2>3. DOMAIN received' = 1 .. r + 1
    BY <1>15
  <2> QED
    BY <1>1, <1>13, <1>15, <2>2, <2>3 DEF ReceivedInOrder
<1>17. Flows((y \o pipe') \o lo, sent', Len(received'), ~closed')
  BY <1>1, <1>13, <1>15 DEF t
<1>18. /\ Holds(out', lo) /\ pipe' \in Seq(AnyByte) /\ Lengths(sent') /\ reading'
       /\ (broken' => closed' /\ pipe' = <<>> /\ ~reading')
  BY <1>1, <1>4, <1>5 DEF StreamInv
<1> QED
  BY <1>7, <1>15, <1>16, <1>17, <1>18, LiveThen

\* The writer's bytes become the reader's.
LEMMA ReplaceStep ==
  ASSUME StreamInv, Replaceable, Holds(in', Live(out)), out' = Fresh,
         reading' = TRUE, UNCHANGED <<pipe, sent, received, closed, broken>>
  PROVE  StreamInv'
<1> DEFINE lo == Live(out)
           li == Live(in)
<1>1. /\ lo \in Seq(AnyByte) /\ li \in Seq(AnyByte) /\ Len(li) = 0 /\ pipe = <<>>
  BY LiveNow DEF Replaceable
<1>2. ~broken' /\ pipe' = <<>>
  BY DEF StreamInv, Replaceable
<1>3. Holds(out', <<>>)
  BY FreshHolds, StreamBufferAssumption
<1>4. /\ Lengths(sent') /\ received' \in Seq(Seq(AnyByte)) /\ ReceivedInOrder'
      /\ Flows((li \o pipe) \o lo, sent', Len(received'), ~closed')
  BY KeptApart
<1> HIDE DEF lo, li
<1>5. li = <<>>
  BY <1>1
<1>6. (li \o pipe) \o lo = lo /\ (lo \o pipe') \o <<>> = lo
  BY <1>1, <1>2, <1>5
<1>7. Flows((lo \o pipe') \o <<>>, sent', Len(received'), ~closed')
  BY <1>4, <1>6, Zenon
<1>8. Holds(in', lo) /\ pipe' \in Seq(AnyByte) /\ reading'
  BY <1>2 DEF lo
<1> QED
  BY <1>2, <1>3, <1>4, <1>7, <1>8, LiveThen

\* InputStreamBuffer(OutputStreamBuffer&&) hands over what is live.
LEMMA MoveBufferStep ==
  ASSUME StreamInv, MoveBuffer
  PROVE  StreamInv'
<1>1. Live(out) \in Seq(AnyByte) /\ out.size \in Nat \ {0} /\ Len(Live(out)) <= out.size
  <2>1. Buffer(out)
    BY DEF StreamInv
  <2>2. /\ out.size \in Nat \ {0} /\ out.base \in Nat /\ out.ptr \in Nat
        /\ out.base <= out.ptr /\ out.ptr <= out.size
    BY <2>1 DEF Buffer
  <2>3. Live(out) \in Seq(AnyByte) /\ Len(Live(out)) = out.ptr - out.base
    BY <2>1, LiveIs
  <2> QED
    BY <2>2, <2>3
<1>2. Holds(Filled(out.local, out.size, Live(out)), Live(out))
  BY <1>1, FilledHolds
<1> QED
  BY <1>2, ReplaceStep DEF MoveBuffer

\* InputStreamBuffer(const OutputStreamBuffer&) copies what is live.
LEMMA CopyBufferStep ==
  ASSUME StreamInv, CopyBuffer
  PROVE  StreamInv'
<1> DEFINE heap == FALSE
           own == TRUE
           l == Live(out)
<1>1. /\ in' = IF Avail(out) < Local THEN Filled(own, Local, l)
               ELSE Filled(heap, Avail(out), l)
      /\ Replaceable /\ out' = Fresh /\ reading' = TRUE
      /\ UNCHANGED <<pipe, sent, received, closed, broken>>
  BY DEF CopyBuffer
<1>2. l \in Seq(AnyByte) /\ Avail(out) = Len(l) /\ Len(l) \in Nat
  BY LiveNow
<1> HIDE DEF heap, own, l
<1>3. CASE Avail(out) < Local
  <2>1. Local \in Nat \ {0} /\ Len(l) <= Local
    BY <1>2, <1>3, StreamBufferAssumption
  <2>2. Holds(Filled(own, Local, l), l)
    BY <1>2, <2>1, FilledHolds
  <2>3. Holds(in', Live(out))
    BY <1>1, <1>3, <2>2 DEF l
  <2> QED
    BY <1>1, <2>3, ReplaceStep
<1>4. CASE ~(Avail(out) < Local)
  <2>1. Avail(out) \in Nat \ {0} /\ Len(l) <= Avail(out)
    BY <1>2, <1>4, StreamBufferAssumption
  <2>2. Holds(Filled(heap, Avail(out), l), l)
    BY <1>2, <2>1, FilledHolds
  <2>3. Holds(in', Live(out))
    BY <1>1, <1>4, <2>2 DEF l
  <2> QED
    BY <1>1, <2>3, ReplaceStep
<1> QED
  BY <1>3, <1>4

\* A stuttering step.
LEMMA StreamStutter ==
  ASSUME StreamInv, UNCHANGED vars
  PROVE  StreamInv'
BY DEF vars, StreamInv, ReceivedInOrder, Underway

\* The bytes that are in the reader's buffer, in the device and in the writer's buffer are,
\* in that order, those of the packages not received yet, without a gap or a repetition,
\* whatever the buffers' sizes and the device's cuts; what was received is what was sent.
THEOREM StreamInductive == Spec => []StreamInv
<1>1. Init => StreamInv
  BY StreamInit
<1>2. ASSUME StreamInv, [Next]_vars PROVE StreamInv'
  <2>1. CASE \E n \in Payload : Send(Header + n)
    BY <2>1, <1>2, SendStep
  <2>2. CASE \E k \in 0 .. PipeSize : SyncOut(k) \/ SyncIn(k) \/ Destroy(k)
    BY <2>2, <1>2, SyncOutStep, SyncInStep, DestroyStep
  <2>3. CASE ReadBroken \/ Receive \/ LoopEnds
    BY <2>3, <1>2, ReadBrokenStep, ReceiveStep, LoopEndsStep
  <2>4. CASE MoveBuffer \/ CopyBuffer
    BY <2>4, <1>2, MoveBufferStep, CopyBufferStep
  <2>5. CASE UNCHANGED vars
    BY <2>5, <1>2, StreamStutter
  <2> QED
    BY <1>2, <2>1, <2>2, <2>3, <2>4, <2>5 DEF Next
<1> QED
  BY <1>1, <1>2, PTL DEF Spec

\* ReceivedInOrder holds for every size of the buffers, of the device, of the header and
\* of the packages.
THEOREM ReceivedInOrderHolds == Spec => []ReceivedInOrder
<1>1. StreamInv => ReceivedInOrder
  BY DEF StreamInv
<1> QED
  BY <1>1, StreamInductive, PTL

\* BrokenIsLast holds: the callback's loop takes every whole package before the next read
\* of the device, the one that reports BrokenIO, so that none is left behind it.
THEOREM BrokenIsLastHolds == Spec => []BrokenIsLast
<1>1. StreamInv => BrokenIsLast
  BY DEF StreamInv, BrokenIsLast
<1> QED
  BY <1>1, StreamInductive, PTL
=============================================================================
