------------------------------ MODULE NetProofs ------------------------------
(***************************************************************************)
(* Both network rings are correct for every ring size, every counter width *)
(* that the size divides, any number of frames, and, on the way out, any   *)
(* number of guest cores and any MTU.                                      *)
(***************************************************************************)
EXTENDS NetRx, NetTx, FiniteSetTheorems, TLAPS

-----------------------------------------------------------------------------
(* What the counters of a shared_queue_t compute although they wrap: first *)
(* facts about the remainder by a modulus that the provers do not know as  *)
(* a number (counters wrap modulo 2^64, slots are chosen modulo the ring's *)
(* size), then the counters themselves.                                    *)

\* A remainder lies below the modulus (the slot idx lies inside the ring).
LEMMA ModRange ==
    ASSUME NEW M \in Nat \ {0}, NEW x \in Nat
    PROVE  x % M \in 0 .. M - 1
BY SMT

\* A number below the modulus is its own remainder (a counter before it
\* wraps).
LEMMA ModSmall ==
    ASSUME NEW M \in Nat \ {0}, NEW x \in Nat, x < M
    PROVE  x % M = x
BY SMT

\* Quotient and remainder determine the number.
LEMMA DivMod ==
    ASSUME NEW M \in Nat \ {0}, NEW x \in Nat
    PROVE  /\ x \div M \in Nat
           /\ x = M * (x \div M) + (x % M)
BY SMT

\* Multiples of M are at least M apart.
LEMMA MulMono ==
    ASSUME NEW M \in Nat \ {0}, NEW d \in Nat, NEW e \in Nat, d < e
    PROVE  M * d + M <= M * e
<1>1. PICK k \in Nat : e = d + 1 + k
  <2>. WITNESS e - d - 1 \in Nat
  <2>. QED BY SMT
<1>2. M * e = M * d + M + M * k
  BY <1>1, SMT
<1>3. M * k \in Nat /\ M * d \in Nat
  BY SMT
<1>. QED BY <1>2, <1>3, SMT

\* The remainder is the only number below M that differs from x by a
\* multiple of M.
LEMMA ModUnique ==
    ASSUME NEW M \in Nat \ {0}, NEW d \in Nat, NEW m \in 0 .. M - 1,
           NEW x \in Nat, x = M * d + m
    PROVE  x % M = m
<1>1. PICK e \in Nat, r \in 0 .. M - 1 : x = M * e + r /\ r = x % M
  BY DivMod, ModRange
<1>2. PICK p \in Nat, q \in Nat : p = M * d /\ q = M * e
  BY SMT
<1>3. x = p + m /\ x = q + r
  BY <1>1, <1>2
<1>4. ~ (d < e)
  <2>1. SUFFICES ASSUME d < e PROVE FALSE
    OBVIOUS
  <2>2. p + M <= q
    BY <2>1, <1>2, MulMono
  <2>. QED BY <2>2, <1>3, SMT
<1>5. ~ (e < d)
  <2>1. SUFFICES ASSUME e < d PROVE FALSE
    OBVIOUS
  <2>2. q + M <= p
    BY <2>1, <1>2, MulMono
  <2>. QED BY <2>2, <1>3, SMT
<1>6. p = q
  BY <1>4, <1>5, <1>2, SMT
<1>7. PICK y \in Nat : x = y
  OBVIOUS
<1>8. y = p + m /\ y = q + r
  BY <1>3, <1>7
<1>9. m = r
  BY <1>6, <1>8, SMT
<1>. QED BY <1>1, <1>9

\* Subtracting the modulus once (a counter difference after a wrap).
LEMMA ModWrap ==
    ASSUME NEW M \in Nat \ {0}, NEW x \in Nat, M <= x, x < M + M
    PROVE  x % M = x - M
<1>1. PICK m \in 0 .. M - 1 : m = x - M
  BY SMT
<1>2. x = M * 1 + m
  BY <1>1, SMT
<1>. QED BY <1>1, <1>2, ModUnique

\* The remainder of the successor (the next slot of the ring).
LEMMA ModInc ==
    ASSUME NEW M \in Nat \ {0}, NEW x \in Nat
    PROVE  (x + 1) % M = IF x % M = M - 1 THEN 0 ELSE (x % M) + 1
<1>1. PICK d \in Nat, r \in 0 .. M - 1 : x = M * d + r /\ r = x % M
  BY DivMod, ModRange
<1>2. PICK p \in Nat : p = M * d
  BY SMT
<1>3. PICK z \in Nat : z = x + 1
  BY SMT
<1>4. x = p + r
  BY <1>1, <1>2
<1>5. CASE r = M - 1
  <2>1. PICK f \in Nat : f = d + 1
    BY SMT
  <2>2. M * f = p + M
    BY <2>1, <1>2, SMT
  <2>3. z = M * f + 0 /\ 0 \in 0 .. M - 1
    BY <1>3, <1>4, <1>5, <2>2, SMT
  <2>4. z % M = 0
    BY <2>3, ModUnique
  <2>. QED BY <2>4, <1>1, <1>3, <1>5
<1>6. CASE r # M - 1
  <2>1. PICK s \in 0 .. M - 1 : s = r + 1
    BY <1>6, SMT
  <2>2. z = p + s
    BY <1>3, <1>4, <2>1, SMT
  <2>3. z = M * d + s
    BY <2>2, <1>2
  <2>4. z % M = s
    BY <2>3, ModUnique
  <2>. QED BY <2>1, <2>4, <1>1, <1>3, <1>6
<1>. QED BY <1>5, <1>6

\* Two numbers less than the modulus apart have different remainders (two
\* frames in the ring have different slots).
LEMMA ModApart ==
    ASSUME NEW M \in Nat \ {0}, NEW a \in Nat, NEW b \in Nat,
           a < b, b - a < M
    PROVE  a % M # b % M
<1>1. PICK d \in Nat, r \in 0 .. M - 1 : a = M * d + r /\ r = a % M
  BY DivMod, ModRange
<1>2. SUFFICES ASSUME b % M = r PROVE FALSE
  BY <1>1
<1>3. PICK e \in Nat : b = M * e + r
  BY <1>2, DivMod
<1>4. PICK p \in Nat, q \in Nat : p = M * d /\ q = M * e
  BY SMT
<1>5. a = p + r /\ b = q + r
  BY <1>1, <1>3, <1>4
<1>6. ~ (e < d)
  <2>1. SUFFICES ASSUME e < d PROVE FALSE
    OBVIOUS
  <2>2. q + M <= p
    BY <2>1, <1>4, MulMono
  <2>. QED BY <2>2, <1>5, SMT
<1>7. ~ (d < e)
  <2>1. SUFFICES ASSUME d < e PROVE FALSE
    OBVIOUS
  <2>2. p + M <= q
    BY <2>1, <1>4, MulMono
  <2>. QED BY <2>2, <1>5, SMT
<1>8. p = q
  BY <1>4, <1>6, <1>7, SMT
<1>. QED BY <1>5, <1>8, SMT

-----------------------------------------------------------------------------
(* The counters. *)

\* The unsigned difference of two counters.
LEMMA DistanceIs ==
    ASSUME NEW w \in Counters, NEW r \in Counters
    PROVE  Distance(w, r) = IF w >= r THEN w - r ELSE w + CounterMod - r
<1>. USE RingAssumption
<1>1. PICK x \in Nat : x = w + CounterMod - r
  BY SMT DEF Counters
<1>2. CASE w >= r
  <2>1. CounterMod <= x /\ x < CounterMod + CounterMod
    BY <1>1, <1>2, SMT DEF Counters
  <2>2. x % CounterMod = x - CounterMod
    BY <2>1, ModWrap
  <2>. QED BY <1>1, <1>2, <2>2, SMT DEF Distance, Counters
<1>3. CASE ~ (w >= r)
  <2>1. x % CounterMod = x
    BY <1>1, <1>3, ModSmall DEF Counters
  <2>. QED BY <1>1, <1>3, <2>1, SMT DEF Distance, Counters
<1>. QED BY <1>2, <1>3

\* The next value of a counter.
LEMMA IncIs ==
    ASSUME NEW w \in Counters
    PROVE  Inc(w) = IF w = CounterMod - 1 THEN 0 ELSE w + 1
<1>1. w \in Nat /\ w < CounterMod /\ CounterMod \in Nat \ {0}
  BY RingAssumption, SMT DEF Counters
<1>2. w % CounterMod = w
  BY <1>1, ModSmall
<1>. QED BY <1>1, <1>2, ModInc DEF Inc

\* A counter stays a counter and its slot lies in the ring.
LEMMA CounterTypes ==
    ASSUME NEW w \in Counters
    PROVE  /\ Inc(w) \in Counters
           /\ Idx(w) \in Slots
<1>1. Inc(w) \in Counters
  BY IncIs, RingAssumption, SMT DEF Counters
<1>2. w \in Nat
  BY RingAssumption, SMT DEF Counters
<1>. QED BY <1>1, <1>2, ModRange, RingAssumption DEF Idx, Slots

\* The difference is 0 exactly when the counters are equal.
LEMMA DistanceZero ==
    ASSUME NEW w \in Counters, NEW r \in Counters
    PROVE  /\ Distance(w, r) \in Counters
           /\ Distance(w, r) = 0 <=> w = r
BY DistanceIs, RingAssumption, SMT DEF Counters

\* One more frame written.
LEMMA DistanceIncWritten ==
    ASSUME NEW w \in Counters, NEW r \in Counters,
           Distance(w, r) < CounterMod - 1
    PROVE  Distance(Inc(w), r) = Distance(w, r) + 1
<1>1. Inc(w) \in Counters
  BY CounterTypes
<1>2. Distance(Inc(w), r) =
         IF Inc(w) >= r THEN Inc(w) - r ELSE Inc(w) + CounterMod - r
  BY <1>1, DistanceIs
<1>. QED BY <1>2, IncIs, DistanceIs, RingAssumption, SMT DEF Counters

\* One more frame read.
LEMMA DistanceIncRead ==
    ASSUME NEW w \in Counters, NEW r \in Counters, Distance(w, r) > 0
    PROVE  Distance(w, Inc(r)) = Distance(w, r) - 1
<1>1. Inc(r) \in Counters
  BY CounterTypes
<1>2. Distance(w, Inc(r)) =
         IF w >= Inc(r) THEN w - Inc(r) ELSE w + CounterMod - Inc(r)
  BY <1>1, DistanceIs
<1>. QED BY <1>2, IncIs, DistanceIs, RingAssumption, SMT DEF Counters

\* The slot of the wrapped counter is the slot of the unbounded count: this
\* is where the ring's size has to divide the counter's modulus.
LEMMA IdxInc ==
    ASSUME NEW w \in Counters, NEW n \in Nat, Idx(w) = n % QueueSize
    PROVE  Idx(Inc(w)) = (n + 1) % QueueSize
<1>. USE RingAssumption
<1>1. w \in Nat
  BY SMT DEF Counters
<1>2. (w + 1) % QueueSize = (n + 1) % QueueSize
  <2>1. w % QueueSize = n % QueueSize
    BY DEF Idx
  <2>2. (w + 1) % QueueSize =
           IF w % QueueSize = QueueSize - 1 THEN 0 ELSE (w % QueueSize) + 1
    BY <1>1, ModInc
  <2>3. (n + 1) % QueueSize =
           IF n % QueueSize = QueueSize - 1 THEN 0 ELSE (n % QueueSize) + 1
    BY ModInc
  <2>. QED BY <2>1, <2>2, <2>3
<1>3. CASE w = CounterMod - 1
  <2>1. (w + 1) % QueueSize = 0
    BY <1>3, SMT
  <2>2. Inc(w) = 0 /\ 0 % QueueSize = 0
    BY <1>3, IncIs, ModSmall
  <2>. QED BY <1>2, <2>1, <2>2 DEF Idx
<1>4. CASE w # CounterMod - 1
  BY <1>2, <1>4, IncIs DEF Idx
<1>. QED BY <1>3, <1>4

-----------------------------------------------------------------------------
(* The receive ring. *)

\* The number of frames in the ring, as the counters say.
Unread == Distance(rx_written, rx_read)

\* The facts about the current state that most steps need.
LEMMA RingFacts ==
    ASSUME RingInv
    PROVE  /\ Unread \in Nat /\ Unread < CounterMod /\ Unread <= QueueSize
           /\ Unread = 0 <=> rx_written = rx_read
           /\ RxPublished \in Nat /\ Released \in Nat
           /\ RxPublished = Released + Unread
           /\ Idx(rx_written) \in Slots /\ Idx(rx_read) \in Slots
           /\ Inc(rx_written) \in Counters /\ Inc(rx_read) \in Counters
<1>1. rx_written \in Counters /\ rx_read \in Counters
  BY DEF RingInv, RxTypeOK
<1>2. Unread \in Counters /\ (Unread = 0 <=> rx_written = rx_read)
  BY <1>1, DistanceZero DEF Unread
<1>3. RxPublished \in Nat /\ Released \in Nat
  BY SMT DEF RingInv, RxTypeOK, RxPublished, Released
<1>. QED
  BY <1>1, <1>2, <1>3, CounterTypes, RingAssumption, SMT
     DEF RingInv, Unread, Counters

\* The ring is empty at the start.
LEMMA RingInvInit == RxInit => RingInv
<1>. SUFFICES ASSUME RxInit PROVE RingInv
  OBVIOUS
<1>1. 0 \in Counters
  BY RingAssumption, SMT DEF Counters
<1>2. Distance(0, 0) = 0
  BY <1>1, DistanceZero
<1>3. 0 % QueueSize = 0
  BY RingAssumption, ModSmall
<1>4. RxTypeOK
  BY <1>1, 0 \in Nat, Zenon DEF RxInit, RxTypeOK
<1>5. RxPublished = 0 /\ Released = 0
  BY DEF RxInit, RxPublished, Released
<1>. QED
  BY <1>2, <1>3, <1>4, <1>5, RingAssumption, SMT DEF RxInit, RingInv, Idx

\* Every step of the two threads preserves the invariant.
LEMMA RingInvStep == RingInv /\ [RxNext]_rxVars => RingInv'
<1>. SUFFICES ASSUME RingInv, [RxNext]_rxVars PROVE RingInv'
  OBVIOUS
<1>. USE RingAssumption
<1>a. /\ Unread \in Nat /\ Unread < CounterMod /\ Unread <= QueueSize
      /\ Unread = 0 <=> rx_written = rx_read
      /\ RxPublished \in Nat /\ Released \in Nat
      /\ RxPublished = Released + Unread
      /\ Idx(rx_written) \in Slots /\ Idx(rx_read) \in Slots
      /\ Inc(rx_written) \in Counters /\ Inc(rx_read) \in Counters
  BY RingFacts
<1>1. CASE RxSnapshot
  BY <1>1, <1>a, SMT
     DEF RxSnapshot, rxGuestVars, RingInv, RxTypeOK, RxPublished, Released, Unread
<1>2. CASE RxDistance
  <2>1. HasRoom => Distance(rx_written, rx_read) < QueueSize
    <3>1. rx_written \in Counters /\ rxSeen \in Counters
      BY DEF RingInv, RxTypeOK
    <3>2. Distance(rx_written, rxSeen) \in Nat
      BY <3>1, DistanceZero, SMT DEF Counters
    <3>. QED
      BY <1>2, <1>a, <3>2, SMT DEF RxDistance, RingInv, HasRoom, Unread
  <2>. QED
    BY <1>2, <2>1, <1>a, SMT
       DEF RxDistance, rxGuestVars, RingInv, RxTypeOK, RxPublished, Released, Unread
<1>3. CASE RxReceive
  <2>1. /\ Released' = Released /\ RxPublished' = RxPublished
        /\ arrived = RxPublished /\ arrived' = RxPublished + 1
        /\ Unread < QueueSize
    BY <1>3, <1>a, SMT
       DEF RxReceive, rxGuestVars, RingInv, RxTypeOK, RxPublished, Released, Unread
  <2>2. rx_inner' = [rx_inner EXCEPT ![RxPublished % QueueSize] = RxPublished + 1]
    BY <1>3, <2>1 DEF RxReceive, RingInv
  <2>3. \A f \in Released' + 1 .. arrived' : rx_inner'[(f - 1) % QueueSize] = f
    <3>1. SUFFICES ASSUME NEW f \in Released + 1 .. RxPublished + 1
                   PROVE  rx_inner'[(f - 1) % QueueSize] = f
      BY <2>1
    <3>2. (f - 1) % QueueSize \in Slots /\ RxPublished % QueueSize \in Slots
      BY <1>a, ModRange DEF Slots
    <3>3. CASE f = RxPublished + 1
      BY <3>2, <3>3, <2>2, <1>a, SMT DEF RingInv, RxTypeOK
    <3>4. CASE f # RxPublished + 1
      <4>1. PICK g \in Nat : g = f - 1 /\ g < RxPublished
                               /\ RxPublished - g < QueueSize
        BY <3>4, <2>1, <1>a, SMT
      <4>2. g % QueueSize # RxPublished % QueueSize
        BY <4>1, <1>a, ModApart
      <4>3. rx_inner[(f - 1) % QueueSize] = f
        BY <3>4, <2>1, <1>a, SMT DEF RingInv
      <4>. QED
        BY <4>1, <4>2, <4>3, <3>2, <2>2 DEF RingInv, RxTypeOK
    <3>. QED BY <3>3, <3>4
  <2>4. RxTypeOK'
    BY <1>3, <1>a, SMT DEF RxReceive, rxGuestVars, RingInv, RxTypeOK
  <2>5. ASSUME NEW s \in Slots, rx_inner'[s] > 0
        PROVE  rx_inner'[s] <= arrived' /\ (rx_inner'[s] - 1) % QueueSize = s
    <3>1. CASE s = RxPublished % QueueSize
      BY <3>1, <2>1, <2>2, <1>a, SMT DEF RingInv, RxTypeOK
    <3>2. CASE s # RxPublished % QueueSize
      BY <3>2, <2>1, <2>2, <2>5, <1>a, SMT DEF RingInv, RxTypeOK
    <3>. QED BY <3>1, <3>2
  <2>. QED
    BY <1>3, <1>a, <2>1, <2>3, <2>4, <2>5, SMT
       DEF RxReceive, rxGuestVars, RingInv, Unread
<1>4. CASE RxReceiveFails
  BY <1>4, <1>a, SMT
     DEF RxReceiveFails, rxGuestVars, RingInv, RxTypeOK, RxPublished, Released,
         Unread
<1>5. CASE RxPublish
  <2>1. /\ Released' = Released /\ RxPublished' = RxPublished + 1
        /\ arrived' = arrived /\ Unread < QueueSize
    BY <1>5, <1>a, SMT
       DEF RxPublish, rxGuestVars, RingInv, RxTypeOK, RxPublished, Released, Unread
  <2>2. Distance(rx_written', rx_read') = Unread + 1
    BY <1>5, <1>a, <2>1, DistanceIncWritten
       DEF RxPublish, rxGuestVars, RingInv, RxTypeOK, Unread
  <2>3. Idx(rx_written') = RxPublished' % QueueSize
    BY <1>5, <1>a, <2>1, IdxInc DEF RxPublish, RingInv, RxTypeOK
  <2>4. RxTypeOK'
    BY <1>5, <1>a, SMT DEF RxPublish, rxGuestVars, RingInv, RxTypeOK
  <2>. QED
    BY <1>5, <1>a, <2>1, <2>2, <2>3, <2>4, SMT
       DEF RxPublish, rxGuestVars, RingInv, Unread
<1>6. CASE RxNotify
  BY <1>6, <1>a, SMT
     DEF RxNotify, rxGuestVars, RingInv, RxTypeOK, RxPublished, Released, Unread
<1>7. CASE GuestInterrupt
  <2>1. /\ irq' = FALSE /\ guestPc' = "drain" /\ guestPc = "idle"
        /\ UNCHANGED <<rx_read, consumed, rx_inner, rxHostVars>>
    BY <1>7, Zenon DEF GuestInterrupt
  <2>2. RxTypeOK'
    BY <2>1, Zenon DEF rxHostVars, RingInv, RxTypeOK
  <2>3. RxPublished' = RxPublished /\ Released' = Released
    BY <2>1 DEF rxHostVars, RxPublished, Released
  <2>. QED
    BY <2>1, <2>2, <2>3, <1>a, SMT DEF rxHostVars, RingInv, Unread
<1>8. CASE GuestTake
  <2>1. Unread > 0
    BY <1>8, <1>a, SMT DEF GuestTake
  <2>2. rx_inner[Idx(rx_read)] = Released + 1
    <3>1. PICK f \in Nat : f = Released + 1
      BY <1>a, SMT
    <3>2. f \in Released + 1 .. arrived /\ f - 1 = Released
      BY <3>1, <2>1, <1>a, SMT DEF RingInv, RxTypeOK, RxPublished
    <3>. QED BY <3>1, <3>2 DEF RingInv
  <2>3. Released' = Released /\ consumed' = Released + 1
    BY <1>8, <1>a, <2>2, SMT DEF GuestTake, Released
  <2>4. RxPublished' = RxPublished
    BY <1>8 DEF GuestTake, rxHostVars, RxPublished
  <2>5. RxTypeOK'
    BY <1>8, <1>a, <2>3, SMT DEF GuestTake, rxHostVars, RingInv, RxTypeOK
  <2>. QED
    BY <1>8, <1>a, <2>1, <2>3, <2>4, <2>5, SMT
       DEF GuestTake, rxHostVars, RingInv, Unread
<1>9. CASE GuestRelease
  <2>1. Unread > 0
    BY <1>9 DEF GuestRelease, RingInv, Unread
  <2>2. Released' = Released + 1 /\ RxPublished' = RxPublished
    BY <1>9, <1>a, SMT
       DEF GuestRelease, rxHostVars, Released, RxPublished, RingInv, RxTypeOK
  <2>3. Distance(rx_written', rx_read') = Unread - 1
    BY <1>9, <2>1, DistanceIncRead
       DEF GuestRelease, rxHostVars, RingInv, RxTypeOK, Unread
  <2>4. Idx(rx_read') = Released' % QueueSize
    BY <1>9, <1>a, <2>2, IdxInc DEF GuestRelease, RingInv, RxTypeOK
  <2>5. RxTypeOK'
    BY <1>9, <1>a, SMT DEF GuestRelease, rxHostVars, RingInv, RxTypeOK
  <2>6. rxPc = "distance" => Unread - 1 <= Distance(rx_written, rxSeen)
    <3>1. rx_written \in Counters /\ rxSeen \in Counters
      BY DEF RingInv, RxTypeOK
    <3>2. Distance(rx_written, rxSeen) \in Nat
      BY <3>1, DistanceZero, SMT DEF Counters
    <3>. QED BY <3>2, <1>a, SMT DEF RingInv, Unread
  <2>. QED
    BY <1>9, <1>a, <2>1, <2>2, <2>3, <2>4, <2>5, <2>6, SMT
       DEF GuestRelease, rxHostVars, RingInv, Unread
<1>10. CASE GuestSleep
  BY <1>10, <1>a, SMT
     DEF GuestSleep, rxHostVars, RingInv, RxTypeOK, RxPublished, Released, Unread
<1>11. CASE UNCHANGED rxVars
  BY <1>11 DEF rxVars, RingInv, RxTypeOK, RxPublished, Released
<1>. QED
  BY <1>1, <1>2, <1>3, <1>4, <1>5, <1>6, <1>7, <1>8, <1>9, <1>10, <1>11
     DEF RxNext, Host, Guest

\* The type invariant and RingInv hold in every reachable state.
THEOREM RingInvHolds == RxSpec => []RingInv
<1>1. RxInit => RingInv
  BY RingInvInit
<1>2. RingInv /\ [RxNext]_rxVars => RingInv'
  BY RingInvStep
<1>. QED BY <1>1, <1>2, PTL DEF RxSpec

\* Counters, slots and frame numbers of the receive ring keep their types: the
\* wrapping of recieve_packets' counters never leaves uint64_t.
THEOREM TypeCorrect == RxSpec => []RxTypeOK
<1>1. RingInv => RxTypeOK
  BY DEF RingInv
<1>. QED BY <1>1, RingInvHolds, PTL

\* However large the ring and however narrow the counters: what
\* recieve_packets has published and the guest has not released is intact,
\* and the wrapped counters count it exactly.
THEOREM RingIsIntact == RxSpec => []RingIntact
<1>1. RingInv => RingIntact
  <2>. SUFFICES ASSUME RingInv PROVE RingIntact
    OBVIOUS
  <2>1. /\ Unread \in Nat /\ Unread <= QueueSize
        /\ RxPublished \in Nat /\ Released \in Nat
        /\ RxPublished = Released + Unread
    BY RingFacts
  <2>2. RxPublished <= arrived
    BY SMT DEF RxPublished, RingInv, RxTypeOK
  <2>3. ASSUME NEW f \in Released + 1 .. RxPublished
        PROVE  rx_inner[(f - 1) % QueueSize] = f
    <3>1. f \in Released + 1 .. arrived
      BY <2>1, <2>2, SMT DEF RingInv, RxTypeOK
    <3>. QED BY <3>1 DEF RingInv
  <2>. QED BY <2>1, <2>3, RingAssumption, SMT DEF RingIntact, Unread
<1>. QED BY <1>1, RingInvHolds, PTL

\* recieve_packets never writes into a slot whose frame the guest still
\* owns, although it decides on a stale snapshot of the guest's counter.
THEOREM NeverOverwrites == RxSpec => NoOverwrite
<1>. DEFINE Keep == \A s \in Slots : rx_inner'[s] # rx_inner[s] => rx_inner[s] <= Released
<1>1. RingInv /\ [RxNext]_rxVars => [Keep]_rxVars
  <2>. SUFFICES ASSUME RingInv, RxNext PROVE Keep
    OBVIOUS
  <2>1. CASE RxReceive
    <3>1. SUFFICES ASSUME NEW s \in Slots, rx_inner'[s] # rx_inner[s],
                          ~ (rx_inner[s] <= Released)
                   PROVE  FALSE
      OBVIOUS
    <3>2. /\ Unread \in Nat /\ RxPublished \in Nat /\ Released \in Nat
          /\ RxPublished = Released + Unread
      BY RingFacts
    <3>3. Unread < QueueSize /\ arrived = RxPublished
      BY <2>1 DEF RxReceive, RingInv, Unread, RxPublished
    <3>4. s = RxPublished % QueueSize
      BY <2>1, <3>1 DEF RxReceive, RingInv, RxTypeOK
    <3>5. rx_inner[s] \in Nat
      BY DEF RingInv, RxTypeOK
    <3>6. PICK g \in Nat : /\ g = rx_inner[s] - 1 /\ g < RxPublished
                            /\ RxPublished - g < QueueSize
      BY <3>1, <3>2, <3>3, <3>5, RingAssumption, SMT DEF RingInv
    <3>7. g % QueueSize = s
      BY <3>1, <3>2, <3>5, <3>6, SMT DEF RingInv
    <3>. QED BY <3>2, <3>4, <3>6, <3>7, RingAssumption, ModApart
  <2>2. CASE ~ RxReceive
    <3>1. rx_inner' = rx_inner
      BY <2>2 DEF RxNext, Host, Guest, RxSnapshot, RxDistance, RxReceiveFails,
            RxPublish, RxNotify, GuestInterrupt, GuestTake, GuestRelease,
            GuestSleep
    <3>. QED BY <3>1
  <2>. QED BY <2>1, <2>2
<1>. QED BY <1>1, RingInvHolds, PTL DEF RxSpec, NoOverwrite

\* The driver never sleeps on a frame: an interrupt is on its way.
THEOREM WakeupNeverLost == RxSpec => []NoLostWakeup
<1>1. RxInit => NoLostWakeup
  BY DEF RxInit, NoLostWakeup
<1>2. NoLostWakeup /\ [RxNext]_rxVars => NoLostWakeup'
  BY Zenon DEF NoLostWakeup, rxVars, RxNext, Host, Guest, RxSnapshot, RxDistance,
     RxReceive, RxReceiveFails, RxPublish, RxNotify, GuestInterrupt, GuestTake,
     GuestRelease, GuestSleep, rxHostVars, rxGuestVars
<1>. QED BY <1>1, <1>2, PTL DEF RxSpec

\* The ring implements the abstract FIFO channel.
THEOREM ImplementsFifo == RxSpec => IsRxFifo
<1>1. RxInit => RxFifo!Init
  BY DEF RxInit, RxFifo!Init, RxPublished
<1>2. RingInv /\ [RxNext]_rxVars => [RxFifo!Next]_<<RxPublished, consumed>>
  <2>. SUFFICES ASSUME RingInv, [RxNext]_rxVars
                PROVE  [RxFifo!Next]_<<RxPublished, consumed>>
    OBVIOUS
  <2>a. /\ Unread \in Nat /\ (Unread = 0 <=> rx_written = rx_read)
        /\ RxPublished \in Nat /\ Released \in Nat
        /\ RxPublished = Released + Unread
    BY RingFacts
  <2>1. CASE RxPublish
    <3>1. RxPublished' = RxPublished + 1 /\ consumed' = consumed
      BY <2>1, SMT DEF RxPublish, rxGuestVars, RingInv, RxTypeOK, RxPublished
    <3>2. RxPublished - consumed < QueueSize
      BY <2>1, <2>a, RingAssumption, SMT
         DEF RxPublish, RingInv, RxTypeOK, Released, Unread
    <3>. QED BY <3>1, <3>2 DEF RxFifo!Next, RxFifo!Put
  <2>2. CASE GuestTake
    <3>1. Unread > 0 /\ Released = consumed
      BY <2>2, <2>a, SMT DEF GuestTake, Released
    <3>2. rx_inner[Idx(rx_read)] = Released + 1
      <4>1. PICK f \in Nat : f = Released + 1
        BY <2>a, SMT
      <4>2. f \in Released + 1 .. arrived /\ f - 1 = Released
        BY <4>1, <3>1, <2>a, SMT DEF RingInv, RxTypeOK, RxPublished
      <4>. QED BY <4>1, <4>2 DEF RingInv
    <3>3. consumed' = consumed + 1 /\ RxPublished' = RxPublished
      BY <2>2, <3>1, <3>2 DEF GuestTake, rxHostVars, RxPublished
    <3>4. consumed < RxPublished
      BY <3>1, <2>a, SMT
    <3>. QED BY <3>3, <3>4 DEF RxFifo!Next, RxFifo!Take
  <2>3. CASE RxReceive
    BY <2>3, SMT DEF RxReceive, rxGuestVars, RingInv, RxTypeOK, RxPublished
  <2>4. CASE ~ (RxPublish \/ GuestTake \/ RxReceive)
    BY <2>4, Zenon
       DEF RxNext, Host, Guest, RxSnapshot, RxDistance, RxReceiveFails, RxNotify,
           GuestInterrupt, GuestRelease, GuestSleep, rxHostVars, rxGuestVars, rxVars,
           RxPublished
  <2>. QED BY <2>1, <2>2, <2>3, <2>4
<1>. QED BY <1>1, <1>2, RingInvHolds, PTL DEF RxSpec, IsRxFifo, RxFifo!Spec

-----------------------------------------------------------------------------
(* The transmit ring. *)

\* The number of frames in the ring, as the counters say.
Unsent == Distance(tx_written, tx_read)

\* The facts about the current state that most steps need.
LEMMA TxFacts ==
    ASSUME TxInv
    PROVE  /\ Unsent \in Nat /\ Unsent < CounterMod /\ Unsent <= QueueSize
           /\ Unsent = 0 <=> tx_written = tx_read
           /\ TxPublished = IF lock = {} THEN put ELSE put - 1
           /\ TxPublished \in Nat /\ Finished \in Nat
           /\ TxPublished = Finished + Unsent
           /\ put \in Nat /\ taken \in Nat
           /\ Idx(tx_written) \in Slots /\ Idx(tx_read) \in Slots
           /\ Inc(tx_written) \in Counters /\ Inc(tx_read) \in Counters
<1>1. tx_written \in Counters /\ tx_read \in Counters /\ put \in Nat /\ taken \in Nat
  BY DEF TxInv, TxTypeOK
<1>2. Unsent \in Counters /\ (Unsent = 0 <=> tx_written = tx_read)
  BY <1>1, DistanceZero DEF Unsent
<1>3. TxPublished = IF lock = {} THEN put ELSE put - 1
  BY DEF TxInv, TxTypeOK, TxThreads, TxPublished
<1>4. TxPublished \in Nat
  BY <1>1, <1>3, SMT DEF TxInv, TxThreads
<1>5. Finished \in Nat
  BY <1>1, SMT DEF TxInv, TxThreads, Finished
<1>. QED
  BY <1>1, <1>2, <1>3, <1>4, <1>5, CounterTypes, RingAssumption, SMT
     DEF TxInv, Unsent, Counters

\* While the thread is at work, the frame at the slot it reads is the one it took.
LEMMA CurrentIsTaken ==
    ASSUME TxInv, Unsent > 0
    PROVE  Current = Finished + 1 /\ Finished + 1 \in Frames
<1>1. /\ Finished \in Nat /\ Unsent \in Nat /\ put \in Nat
      /\ TxPublished = Finished + Unsent /\ TxPublished \in Nat
      /\ TxPublished = IF lock = {} THEN put ELSE put - 1
  BY TxFacts
<1>2. PICK f \in Nat : f = Finished + 1
  BY <1>1, SMT
<1>3. f \in Finished + 1 .. put /\ f - 1 = Finished /\ f <= MaxFrames
  BY <1>1, <1>2, RingAssumption, TxAssumption, SMT DEF TxInv
<1>. QED BY <1>1, <1>2, <1>3, RingAssumption, TxAssumption, SMT DEF TxInv, Current, Frames

\* The ring is empty and nothing runs at the start.
LEMMA TxInvInit == TxInit => TxInv
<1>. SUFFICES ASSUME TxInit PROVE TxInv
  OBVIOUS
<1>1. 0 \in Counters
  BY RingAssumption, SMT DEF Counters
<1>2. Distance(0, 0) = 0
  BY <1>1, DistanceZero
<1>3. 0 % QueueSize = 0
  BY RingAssumption, ModSmall
<1>4. TxTypeOK
  BY <1>1, 0 \in Nat, Zenon DEF TxInit, TxTypeOK
<1>5. TxPublished = 0 /\ Finished = 0
  BY DEF TxInit, TxPublished, Finished
<1>6. TxThreads
  BY <1>5, Zenon DEF TxInit, TxThreads
<1>7. WholeFrames
  BY <1>5, SMT DEF TxInit, WholeFrames, Frames
<1>. QED
  BY <1>2, <1>3, <1>4, <1>5, <1>6, <1>7, RingAssumption, TxAssumption, SMT
     DEF TxInit, TxInv, Idx

\* A step that leaves the ring and both counts of frames alone.
LEMMA RingStill ==
    ASSUME TxInv, UNCHANGED <<tx_written, tx_read, tx_inner, put>>,
           TxPublished' = TxPublished, Finished' = Finished,
           TxTypeOK', TxThreads', WholeFrames'
    PROVE  TxInv'
BY DEF TxInv

\* Every step of the thread and of the cores preserves the invariant.
LEMMA TxInvStep == TxInv /\ [TxNext]_txVars => TxInv'
<1>. SUFFICES ASSUME TxInv, [TxNext]_txVars PROVE TxInv'
  OBVIOUS
<1>. USE RingAssumption, TxAssumption
<1>a. /\ Unsent \in Nat /\ Unsent < CounterMod /\ Unsent <= QueueSize
      /\ Unsent = 0 <=> tx_written = tx_read
      /\ TxPublished = IF lock = {} THEN put ELSE put - 1
      /\ TxPublished \in Nat /\ Finished \in Nat
      /\ TxPublished = Finished + Unsent
      /\ put \in Nat /\ taken \in Nat
      /\ Idx(tx_written) \in Slots /\ Idx(tx_read) \in Slots
      /\ Inc(tx_written) \in Counters /\ Inc(tx_read) \in Counters
  BY TxFacts
<1>b. TxTypeOK /\ TxThreads /\ WholeFrames
  BY DEF TxInv
<1>1. ASSUME NEW c \in Cores, NetInfo(c) PROVE TxInv'
  <2>1. TxPublished' = TxPublished /\ Finished' = Finished
    BY <1>1 DEF NetInfo, txGuestVars, TxPublished, Finished
  <2>2. TxTypeOK'
    BY <1>1, <1>b, SMT DEF NetInfo, txGuestVars, TxTypeOK
  <2>3. TxThreads'
    BY <1>1, <1>b DEF NetInfo, txGuestVars, TxThreads, Whole
  <2>4. WholeFrames'
    BY <1>1, <1>b, <2>1 DEF NetInfo, txGuestVars, WholeFrames, Whole
  <2>. QED BY <1>1, <2>1, <2>2, <2>3, <2>4, RingStill DEF NetInfo, txGuestVars
<1>2. ASSUME NEW c \in Cores, NetWrite(c) PROVE TxInv'
  <2>1. Finished' = Finished
    BY <1>2 DEF NetWrite, txHostVars, Finished
  <2>2. TxTypeOK'
    BY <1>2, <1>b, SMT DEF NetWrite, txHostVars, TxTypeOK
  <2>3. TxThreads'
    BY <1>2, <1>b, SMT DEF NetWrite, txHostVars, TxTypeOK, TxThreads, Whole
  <2>4. TxPublished' = TxPublished
    BY <1>2, <1>b DEF NetWrite, txHostVars, TxTypeOK, TxPublished
  <2>5. WholeFrames'
    BY <1>2, <1>b, <2>1 DEF NetWrite, txHostVars, WholeFrames, Whole
  <2>. QED
    BY <1>2, <2>1, <2>2, <2>3, <2>4, <2>5, RingStill DEF NetWrite, txHostVars
<1>3. ASSUME NEW c \in Cores, NEW len \in Lengths, GuestFill(c, len) PROVE TxInv'
  <2>1. /\ Unsent < QueueSize /\ TxPublished = put /\ put < MaxFrames /\ lock = {}
        /\ lock' = {c} /\ put' = put + 1 /\ len \in Nat
        /\ UNCHANGED <<tx_written, tx_sem, txHostVars>>
    BY <1>3, <1>a DEF GuestFill, Unsent
  <2>2. Finished' = Finished
    BY <2>1 DEF txHostVars, Finished
  <2>3. tx_inner' = [tx_inner EXCEPT ![put % QueueSize] = put + 1]
    BY <1>3, <2>1 DEF GuestFill, TxInv
  <2>4. put + 1 \in Frames /\ size' = [size EXCEPT ![put + 1] = len]
    BY <1>3, <1>a, <2>1, SMT DEF GuestFill, Frames
  <2>5. corePc' = [corePc EXCEPT ![c] = "publish"]
    BY <1>3 DEF GuestFill
  <2>6. TxTypeOK'
    <3>1. tx_inner' \in [Slots -> Nat]
      <4>1. put % QueueSize \in Slots
        BY <1>a, ModRange DEF Slots
      <4>. QED BY <4>1, <2>3, <1>a, <1>b, SMT DEF TxTypeOK
    <3>2. size' \in [Frames \cup {0} -> Nat]
      BY <2>1, <2>4, <1>b, SMT DEF TxTypeOK
    <3>. QED BY <2>1, <2>5, <3>1, <3>2, <1>a, <1>b, SMT DEF txHostVars, TxTypeOK
  <2>7. TxPublished' = put
    BY <2>1, <2>5, <1>a, <1>b, SMT DEF TxTypeOK, TxPublished
  <2>8. taken <= put
    BY <1>a, <1>b, <2>1, SMT DEF Finished, TxThreads, Unsent
  <2>9. \A f \in Frames : f <= taken => size'[f] = size[f]
    BY <2>4, <2>8, <1>a, <1>b, SMT DEF TxTypeOK, Frames
  <2>10. WholeFrames'
    <3>1. Finished <= taken
      BY <1>a, SMT DEF Finished
    <3>. QED BY <2>1, <2>2, <2>9, <3>1, <1>a, <1>b, SMT
                DEF txHostVars, WholeFrames, Whole, Frames, TxTypeOK
  <2>11. TxThreads'
    <3>1. txPc \in {"send", "next"} => taken \in Frames
      BY <1>a, <1>b, <2>1, <2>8, SMT DEF TxThreads, Frames
    <3>2. \A d \in Cores : corePc'[d] = "publish" <=> d \in lock'
      BY <1>b, <2>1, <2>5, SMT DEF TxTypeOK, TxThreads
    <3>3. txPc # "off"
      BY <1>3 DEF GuestFill
    <3>4. Distance(tx_written', tx_read') = Unsent
      BY <2>1 DEF txHostVars, Unsent
    <3>5. txPc \in {"send", "next"} => size'[taken] = size[taken]
      BY <3>1, <2>9, <1>a
    <3>6. UNCHANGED <<txPc, taken, wire, offset>>
      BY <2>1 DEF txHostVars
    <3>. QED BY <1>a, <1>b, <2>1, <3>2, <3>3, <3>4, <3>5, <3>6, SMT
                DEF TxThreads, Whole, Unsent
  <2>12. \A f \in Finished' + 1 .. put' : tx_inner'[(f - 1) % QueueSize] = f
    <3>1. SUFFICES ASSUME NEW f \in Finished + 1 .. put + 1
                   PROVE  tx_inner'[(f - 1) % QueueSize] = f
      BY <2>1, <2>2
    <3>2. (f - 1) % QueueSize \in Slots /\ put % QueueSize \in Slots
      BY <1>a, ModRange DEF Slots
    <3>3. CASE f = put + 1
      BY <3>2, <3>3, <2>3, <1>a, <1>b, SMT DEF TxTypeOK
    <3>4. CASE f # put + 1
      <4>1. PICK g \in Nat : g = f - 1 /\ g < put /\ put - g < QueueSize
        BY <3>4, <2>1, <1>a, SMT
      <4>2. g % QueueSize # put % QueueSize
        BY <4>1, <1>a, ModApart
      <4>3. tx_inner[(f - 1) % QueueSize] = f
        BY <3>4, <1>a, SMT DEF TxInv
      <4>. QED BY <4>1, <4>2, <4>3, <3>2, <2>3, <1>b DEF TxTypeOK
    <3>. QED BY <3>3, <3>4
  <2>. QED
    BY <2>1, <2>2, <2>6, <2>7, <2>10, <2>11, <2>12, <1>a, SMT
       DEF txHostVars, TxInv, Unsent
<1>4. ASSUME NEW c \in Cores, GuestPublish(c) PROVE TxInv'
  <2>1. /\ c \in lock /\ lock # {} /\ Unsent < QueueSize /\ put > 0
        /\ tx_written' = Inc(tx_written) /\ lock' = {}
        /\ corePc' = [corePc EXCEPT ![c] = "post"]
        /\ UNCHANGED <<tx_inner, size, put, tx_sem, txHostVars>>
    BY <1>4, <1>b DEF GuestPublish, TxThreads, Unsent
  <2>2. Finished' = Finished /\ tx_read' = tx_read
    BY <2>1 DEF txHostVars, Finished
  <2>3. \A d \in Cores : corePc'[d] # "publish"
    BY <2>1, <1>b, SMT DEF TxTypeOK, TxThreads
  <2>4. TxPublished' = put /\ put = TxPublished + 1
    BY <2>1, <2>3, <1>a, SMT DEF TxPublished
  <2>5. Distance(tx_written', tx_read') = Unsent + 1
    BY <2>1, <2>2, <1>a, <1>b, DistanceIncWritten DEF TxTypeOK, Unsent
  <2>6. Idx(tx_written') = TxPublished' % QueueSize
    BY <2>1, <2>4, <1>a, <1>b, IdxInc DEF TxInv, TxTypeOK
  <2>7. TxTypeOK'
    BY <2>1, <1>a, <1>b, SMT DEF txHostVars, TxTypeOK
  <2>8. TxThreads'
    BY <2>1, <2>3, <2>5, <1>a, <1>b, SMT DEF txHostVars, TxThreads, Whole, Unsent
  <2>9. WholeFrames'
    BY <2>1, <2>2, <1>b DEF txHostVars, WholeFrames, Whole
  <2>. QED
    BY <2>1, <2>2, <2>4, <2>5, <2>6, <2>7, <2>8, <2>9, <1>a, SMT
       DEF TxInv, Unsent
<1>5. CASE TxWait
  <2>1. TxPublished' = TxPublished /\ Finished' = Finished
    BY <1>5 DEF TxWait, txGuestVars, TxPublished, Finished
  <2>2. TxTypeOK'
    BY <1>5, <1>b, SMT DEF TxWait, txGuestVars, TxTypeOK
  <2>3. TxThreads' /\ WholeFrames'
    BY <1>5, <1>b, <2>1
       DEF TxWait, txGuestVars, TxThreads, WholeFrames, Whole
  <2>. QED BY <1>5, <2>1, <2>2, <2>3, RingStill DEF TxWait, txGuestVars
<1>6. CASE TxLook
  <2>0. /\ txPc = "look" /\ offset' = 0 /\ Finished = taken
        /\ UNCHANGED <<tx_read, wire, tx_sem, txGuestVars>>
    BY <1>6 DEF TxLook, Finished
  <2>1. CASE Unsent > 0
    <3>1. taken' = taken + 1 /\ taken + 1 \in Frames /\ txPc' = "send"
      BY <1>6, <2>0, <2>1, CurrentIsTaken DEF TxLook, Unsent
    <3>2. TxPublished' = TxPublished /\ Finished' = Finished
      BY <2>0, <3>1, <1>a, SMT DEF txGuestVars, TxPublished, Finished
    <3>3. TxTypeOK'
      BY <2>0, <3>1, <1>a, <1>b, SMT DEF txGuestVars, TxTypeOK
    <3>4. wire[taken + 1] = 0 /\ size[taken + 1] \in Nat
      BY <3>1, <1>a, <1>b, SMT DEF WholeFrames, TxTypeOK
    <3>5. TxThreads'
      BY <2>0, <2>1, <3>1, <3>4, <1>a, <1>b, SMT
         DEF txGuestVars, TxThreads, Whole, Unsent
    <3>6. WholeFrames'
      BY <2>0, <3>1, <3>2, <1>a, <1>b, SMT
         DEF txGuestVars, WholeFrames, Whole, Frames
    <3>. QED BY <2>0, <3>2, <3>3, <3>5, <3>6, RingStill DEF txGuestVars
  <2>2. CASE ~ (Unsent > 0)
    <3>1. taken' = taken /\ txPc' = "wait"
      BY <1>6, <2>2 DEF TxLook, Unsent
    <3>2. TxPublished' = TxPublished /\ Finished' = Finished
      BY <2>0, <3>1 DEF txGuestVars, TxPublished, Finished
    <3>3. TxTypeOK'
      BY <2>0, <3>1, <1>b, SMT DEF txGuestVars, TxTypeOK
    <3>4. TxThreads' /\ WholeFrames'
      BY <2>0, <3>1, <3>2, <1>b DEF txGuestVars, TxThreads, WholeFrames, Whole
    <3>. QED BY <2>0, <3>2, <3>3, <3>4, RingStill DEF txGuestVars
  <2>. QED BY <2>1, <2>2
<1>c. txPc \in {"send", "next"} =>
          Current = taken /\ taken \in Frames /\ Finished = taken - 1
  BY CurrentIsTaken, <1>a, <1>b, SMT DEF TxThreads, Unsent, Finished
<1>7. CASE TxDrop
  <2>1. /\ txPc = "send" /\ txPc' = "next" /\ size[taken] >= MTU
        /\ UNCHANGED <<tx_read, offset, taken, wire, tx_sem, txGuestVars>>
    BY <1>7, <1>c DEF TxDrop, CurrentLen
  <2>2. TxPublished' = TxPublished /\ Finished' = Finished
    BY <2>1 DEF txGuestVars, TxPublished, Finished
  <2>3. TxTypeOK'
    BY <2>1, <1>b, SMT DEF txGuestVars, TxTypeOK
  <2>4. TxThreads'
    BY <2>1, <1>a, <1>b, <1>c, SMT DEF txGuestVars, TxTypeOK, TxThreads, Whole, Unsent
  <2>5. WholeFrames'
    BY <2>1, <2>2, <1>b DEF txGuestVars, WholeFrames, Whole
  <2>. QED BY <2>1, <2>2, <2>3, <2>4, <2>5, RingStill DEF txGuestVars
<1>8. CASE TxWrite
  <2>1. PICK n \in 1 .. size[taken] - offset :
            /\ wire' = [wire EXCEPT ![taken] = @ + n]
            /\ offset' = offset + n
    BY <1>8, <1>c DEF TxWrite, CurrentLen
  <2>2. /\ txPc = "send" /\ size[taken] < MTU /\ size[taken] \in Nat
        /\ offset \in Nat /\ n \in Nat /\ offset + n <= size[taken]
        /\ UNCHANGED <<tx_read, txPc, taken, tx_sem, txGuestVars>>
    BY <1>8, <2>1, <1>b, <1>c, SMT DEF TxWrite, CurrentLen, TxTypeOK
  <2>3. TxPublished' = TxPublished /\ Finished' = Finished
    BY <2>2 DEF txGuestVars, TxPublished, Finished
  <2>4. TxTypeOK'
    BY <2>1, <2>2, <1>b, <1>c, SMT DEF txGuestVars, TxTypeOK
  <2>5. wire[taken] = offset
    BY <2>2, <1>b DEF TxThreads
  <2>6. wire'[taken] = offset'
    BY <2>1, <2>2, <2>5, <1>b, <1>c DEF TxTypeOK
  <2>7. TxThreads'
    BY <2>1, <2>2, <2>6, <1>a, <1>b, SMT DEF txGuestVars, TxThreads, Whole, Unsent
  <2>8. WholeFrames'
    <3>. SUFFICES ASSUME NEW f \in Frames
                  PROVE  /\ f <= Finished => wire'[f] = Whole(f)
                         /\ f > taken => wire'[f] = 0
      BY <2>2, <2>3 DEF txGuestVars, WholeFrames, Whole
    <3>1. f # taken => wire'[f] = wire[f]
      BY <2>1, <1>b DEF TxTypeOK
    <3>. QED BY <2>2, <3>1, <1>a, <1>b, <1>c, SMT DEF WholeFrames, Frames
  <2>. QED BY <2>2, <2>3, <2>4, <2>7, <2>8, RingStill DEF txGuestVars
<1>9. CASE TxWritten
  <2>1. /\ txPc = "send" /\ txPc' = "next" /\ size[taken] < MTU
        /\ offset = size[taken]
        /\ UNCHANGED <<tx_read, offset, taken, wire, tx_sem, txGuestVars>>
    BY <1>9, <1>c DEF TxWritten, CurrentLen
  <2>2. TxPublished' = TxPublished /\ Finished' = Finished
    BY <2>1 DEF txGuestVars, TxPublished, Finished
  <2>3. TxTypeOK'
    BY <2>1, <1>b, SMT DEF txGuestVars, TxTypeOK
  <2>4. TxThreads'
    BY <2>1, <1>a, <1>b, SMT DEF txGuestVars, TxThreads, Whole, Unsent
  <2>5. WholeFrames'
    BY <2>1, <2>2, <1>b DEF txGuestVars, WholeFrames, Whole
  <2>. QED BY <2>1, <2>2, <2>3, <2>4, <2>5, RingStill DEF txGuestVars
<1>10. CASE TxInc
  <2>1. /\ txPc = "next" /\ txPc' = "wait" /\ tx_read' = Inc(tx_read)
        /\ UNCHANGED <<offset, taken, wire, tx_sem, txGuestVars>>
    BY <1>10 DEF TxInc
  <2>2. Unsent > 0 /\ wire[taken] = Whole(taken)
    BY <2>1, <1>b DEF TxThreads, Unsent
  <2>3. /\ TxPublished' = TxPublished /\ Finished' = Finished + 1
        /\ Finished' = taken
    BY <2>1, <1>a, <1>c, SMT DEF txGuestVars, TxPublished, Finished
  <2>4. Distance(tx_written', tx_read') = Unsent - 1
    BY <2>1, <2>2, <1>b, DistanceIncRead DEF txGuestVars, TxTypeOK, Unsent
  <2>5. Idx(tx_read') = Finished' % QueueSize
    BY <2>1, <2>3, <1>a, <1>b, IdxInc DEF TxInv, TxTypeOK
  <2>6. TxTypeOK'
    BY <2>1, <1>a, <1>b, SMT DEF txGuestVars, TxTypeOK
  <2>7. TxThreads'
    BY <2>1, <2>4, <1>a, <1>b, SMT DEF txGuestVars, TxThreads, Whole, Unsent
  <2>8. WholeFrames'
    BY <2>1, <2>2, <2>3, <1>a, <1>b, <1>c, SMT
       DEF txGuestVars, WholeFrames, Whole, Frames
  <2>9. \A f \in Finished' + 1 .. put : tx_inner[(f - 1) % QueueSize] = f
    BY <2>3, <1>a, SMT DEF TxInv
  <2>. QED
    BY <2>1, <2>2, <2>3, <2>4, <2>5, <2>6, <2>7, <2>8, <2>9, <1>a, SMT
       DEF txGuestVars, TxInv, Unsent
<1>11. CASE UNCHANGED txVars
  BY <1>11 DEF txVars, TxInv, TxTypeOK, TxThreads, WholeFrames, Whole, TxPublished,
               Finished
<1>12. CASE TxWriteFails
  BY <1>11, <1>12 DEF TxWriteFails
<1>. QED
  BY <1>1, <1>2, <1>3, <1>4, <1>5, <1>6, <1>7, <1>8, <1>9, <1>10, <1>11, <1>12
     DEF TxNext, Thread, Core

\* The wrapped counters of the transmit ring, its slots, the driver's lock and the
\* bytes on the wire stay in step in every reachable state.
THEOREM TxInvHolds == TxSpec => []TxInv
<1>1. TxInit => TxInv
  BY TxInvInit
<1>2. TxInv /\ [TxNext]_txVars => TxInv'
  BY TxInvStep
<1>. QED BY <1>1, <1>2, PTL DEF TxSpec

\* transfer_packets puts exactly the bytes of every frame below the MTU on the
\* wire, and none of a larger one, however write() splits them.
THEOREM FramesLeaveWhole == TxSpec => []WholeFrames
<1>1. TxInv => WholeFrames
  BY DEF TxInv
<1>. QED BY <1>1, TxInvHolds, PTL

\* The cores about to post.
Posting == {c \in Cores : corePc[c] = "post"}

\* What the semaphore accounts for: posts, NETWRITEs to come, the thread at work.
Pending == tx_sem + Cardinality(Posting)
               + (IF txPc \in {"look", "send", "next"} THEN 1 ELSE 0)

\* A core that starts or ends waiting to post changes their number by one.
LEMMA PostingCount ==
    /\ IsFiniteSet(Posting) /\ Cardinality(Posting) \in Nat
    /\ IsFiniteSet(Posting)' /\ Cardinality(Posting)' \in Nat
    /\ \A c \in Cores :
          /\ c \notin Posting /\ Posting' = Posting \cup {c} =>
                Cardinality(Posting)' = Cardinality(Posting) + 1
          /\ c \in Posting /\ Posting' = Posting \ {c} =>
                Cardinality(Posting)' = Cardinality(Posting) - 1
<1>1. Posting \in SUBSET Cores /\ Posting' \in SUBSET Cores
  BY DEF Posting
<1>2. IsFiniteSet(Posting) /\ IsFiniteSet(Posting')
  BY <1>1, RingAssumption, TxAssumption, FS_Subset
<1>3. Cardinality(Posting) \in Nat /\ Cardinality(Posting') \in Nat
  BY <1>2, FS_CardinalityType
<1>. QED BY <1>2, <1>3, FS_AddElement, FS_RemoveElement

\* One sem_wait per frame strands no frame: for every frame in the ring there is a
\* post pending, a NETWRITE on its way or transfer_packets at work.
THEOREM FramesNeverStranded == TxSpec => []NoStrandedFrame
<1>1. TxInit => NoStrandedFrame
  <2>. SUFFICES ASSUME TxInit PROVE NoStrandedFrame
    OBVIOUS
  <2>1. 0 \in Counters
    BY RingAssumption, SMT DEF Counters
  <2>2. Distance(tx_written, tx_read) = 0
    BY <2>1, DistanceZero DEF TxInit
  <2>. QED BY <2>2, PostingCount, SMT DEF TxInit, NoStrandedFrame, Posting
<1>2. TxInv /\ NoStrandedFrame /\ [TxNext]_txVars => NoStrandedFrame'
  <2>. SUFFICES ASSUME TxInv, Unsent <= Pending, [TxNext]_txVars
                PROVE  Unsent' <= Pending'
    BY DEF NoStrandedFrame, Unsent, Pending, Posting
  <2>a. /\ tx_sem \in Nat /\ Unsent \in Nat /\ Unsent <= QueueSize
        /\ corePc \in [Cores -> {"idle", "publish", "post"}]
        /\ tx_written \in Counters /\ tx_read \in Counters
        /\ Unsent < CounterMod /\ QueueSize < CounterMod
    BY TxFacts, RingAssumption DEF TxInv, TxTypeOK
  <2>b. Cardinality(Posting) \in Nat /\ Cardinality(Posting)' \in Nat
    BY PostingCount
  <2>1. ASSUME NEW c \in Cores, NetInfo(c) PROVE Unsent' <= Pending'
    <3>1. Posting' = Posting /\ Unsent' = Unsent
      BY <2>1 DEF NetInfo, txGuestVars, Posting, Unsent
    <3>2. Unsent = 0
      BY <2>1, TxFacts, SMT DEF NetInfo, TxInv, TxThreads, Unsent
    <3>. QED BY <2>1, <3>1, <3>2, <2>a, <2>b, SMT DEF NetInfo, Pending
  <2>2. ASSUME NEW c \in Cores, NetWrite(c) PROVE Unsent' <= Pending'
    <3>1. c \in Posting /\ Posting' = Posting \ {c} /\ Unsent' = Unsent
      BY <2>2, <2>a DEF NetWrite, txHostVars, Posting, Unsent
    <3>2. Cardinality(Posting)' = Cardinality(Posting) - 1
      BY <3>1, PostingCount
    <3>. QED BY <2>2, <3>1, <3>2, <2>a, <2>b, SMT DEF NetWrite, txHostVars, Pending
  <2>3. ASSUME NEW c \in Cores, NEW len \in Lengths, GuestFill(c, len)
        PROVE  Unsent' <= Pending'
    <3>1. Posting' = Posting /\ Unsent' = Unsent
      BY <2>3, <2>a DEF GuestFill, txHostVars, Posting, Unsent
    <3>. QED BY <2>3, <3>1 DEF GuestFill, txHostVars, Pending
  <2>4. ASSUME NEW c \in Cores, GuestPublish(c) PROVE Unsent' <= Pending'
    <3>1. c \notin Posting /\ Posting' = Posting \cup {c}
      BY <2>4, <2>a DEF GuestPublish, Posting
    <3>2. Cardinality(Posting)' = Cardinality(Posting) + 1
      BY <3>1, PostingCount
    <3>3. Unsent < QueueSize
      BY <2>4 DEF GuestPublish, TxInv, TxThreads, Unsent
    <3>4. Unsent < CounterMod - 1
      BY <3>3, <2>a, RingAssumption, SMT
    <3>5. Unsent' = Unsent + 1
      BY <2>4, <3>4, <2>a, DistanceIncWritten DEF GuestPublish, txHostVars, Unsent
    <3>. QED
      BY <2>4, <3>2, <3>5, <2>a, <2>b, SMT DEF GuestPublish, txHostVars, Pending
  <2>5. CASE TxInc
    <3>1. Unsent > 0
      BY <2>5 DEF TxInc, TxInv, TxThreads, Unsent
    <3>2. Unsent' = Unsent - 1
      BY <2>5, <3>1, <2>a, DistanceIncRead DEF TxInc, txGuestVars, Unsent
    <3>3. Posting' = Posting
      BY <2>5 DEF TxInc, txGuestVars, Posting
    <3>. QED BY <2>5, <3>2, <3>3, <2>a, <2>b, SMT DEF TxInc, Pending
  <2>6. CASE TxWait
    <3>1. Posting' = Posting /\ Unsent' = Unsent
      BY <2>6 DEF TxWait, txGuestVars, Posting, Unsent
    <3>. QED BY <2>6, <3>1, <2>a, <2>b, SMT DEF TxWait, Pending
  <2>7. CASE TxLook
    <3>1. Posting' = Posting /\ Unsent' = Unsent
      BY <2>7 DEF TxLook, txGuestVars, Posting, Unsent
    <3>. QED BY <2>7, <3>1, <2>a, <2>b, SMT DEF TxLook, Pending, Unsent
  <2>8. CASE TxDrop \/ TxWrite \/ TxWriteFails \/ TxWritten \/ UNCHANGED txVars
    <3>1. Posting' = Posting /\ Unsent' = Unsent /\ tx_sem' = tx_sem
      BY <2>8 DEF TxDrop, TxWrite, TxWriteFails, TxWritten, txGuestVars, txVars,
                  Posting, Unsent
    <3>2. \/ txPc' = txPc
          \/ txPc = "send" /\ txPc' = "next"
      BY <2>8 DEF TxDrop, TxWrite, TxWriteFails, TxWritten, txVars
    <3>. QED BY <3>1, <3>2, <2>a, <2>b, SMT DEF Pending
  <2>. QED BY <2>1, <2>2, <2>3, <2>4, <2>5, <2>6, <2>7, <2>8 DEF TxNext, Thread, Core
<1>. QED BY <1>1, <1>2, TxInvHolds, PTL DEF TxSpec

\* The transmit ring implements the abstract FIFO channel: transfer_packets takes
\* the frames the guest has published, once each and in order.
THEOREM TransmitsInOrder == TxSpec => IsTxFifo
<1>1. TxInit => TxFifo!Init
  BY DEF TxInit, TxFifo!Init, TxPublished
<1>2. TxInv /\ [TxNext]_txVars => [TxFifo!Next]_<<TxPublished, taken>>
  <2>. SUFFICES ASSUME TxInv, [TxNext]_txVars
                PROVE  [TxFifo!Next]_<<TxPublished, taken>>
    OBVIOUS
  <2>a. /\ Unsent \in Nat /\ TxPublished \in Nat /\ Finished \in Nat
        /\ TxPublished = Finished + Unsent /\ put \in Nat /\ taken \in Nat
        /\ TxPublished = IF lock = {} THEN put ELSE put - 1
        /\ corePc \in [Cores -> {"idle", "publish", "post"}]
    BY TxFacts DEF TxInv, TxTypeOK
  <2>b. TxInv' 
    BY TxInvStep
  <2>c. TxPublished' = IF lock' = {} THEN put' ELSE put' - 1
    BY <2>b DEF TxInv, TxTypeOK, TxThreads, TxPublished
  <2>1. ASSUME NEW c \in Cores, GuestPublish(c)
        PROVE  [TxFifo!Next]_<<TxPublished, taken>>
    <3>1. c \in lock /\ Unsent < QueueSize
      BY <2>1 DEF GuestPublish, TxInv, TxThreads, Unsent
    <3>2. TxPublished' = TxPublished + 1 /\ taken' = taken
      BY <2>1, <3>1, <2>a, <2>c, SMT DEF GuestPublish, txHostVars
    <3>3. TxPublished - taken < QueueSize
      BY <3>1, <2>a, RingAssumption, SMT DEF Finished
    <3>. QED BY <3>2, <3>3 DEF TxFifo!Next, TxFifo!Put
  <2>2. CASE TxLook
    <3>1. TxPublished' = TxPublished /\ Finished = taken
      BY <2>2 DEF TxLook, txGuestVars, TxPublished, Finished
    <3>2. CASE Unsent > 0
      <4>1. taken' = taken + 1
        BY <2>2, <3>1, <3>2, CurrentIsTaken DEF TxLook, Unsent
      <4>2. taken < TxPublished
        BY <3>1, <3>2, <2>a, SMT
      <4>. QED BY <3>1, <4>1, <4>2 DEF TxFifo!Next, TxFifo!Take
    <3>3. CASE ~ (Unsent > 0)
      BY <2>2, <3>1, <3>3 DEF TxLook, Unsent
    <3>. QED BY <3>2, <3>3
  <2>3. ASSUME NEW c \in Cores, NEW len \in Lengths, GuestFill(c, len)
        PROVE  [TxFifo!Next]_<<TxPublished, taken>>
    BY <2>3, <2>a, <2>c, SMT DEF GuestFill, txHostVars
  <2>4. ASSUME NEW c \in Cores, NetInfo(c) \/ NetWrite(c)
        PROVE  [TxFifo!Next]_<<TxPublished, taken>>
    BY <2>4, <2>a, <2>c, SMT DEF NetInfo, NetWrite, txGuestVars, txHostVars
  <2>5. CASE \/ TxWait \/ TxDrop \/ TxWrite \/ TxWriteFails \/ TxWritten \/ TxInc
             \/ UNCHANGED txVars
    BY <2>5, Zenon DEF TxWait, TxDrop, TxWrite, TxWriteFails, TxWritten, TxInc,
                txGuestVars, txVars, TxPublished
  <2>. QED BY <2>1, <2>2, <2>3, <2>4, <2>5 DEF TxNext, Thread, Core
<1>. QED BY <1>1, <1>2, TxInvHolds, PTL DEF TxSpec, IsTxFifo, TxFifo!Spec
=============================================================================
