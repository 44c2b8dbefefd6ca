-------------------------- MODULE MemMappingsProofs --------------------------
(***************************************************************************)
(* determine_mem_mappings turns every free list, of any length and with    *)
(* the I/O gap anywhere in between, into chunks that are the memory in use *)
(* up to the last free region, within the array it has allocated.          *)
(***************************************************************************)
EXTENDS MemMappings, TLAPS, WellFoundedInduction

-----------------------------------------------------------------------------
(* Free lists. *)

\* A non-empty set of numbers has a least one.
LEMMA Least ==
    ASSUME NEW S, S \subseteq Nat, S # {}
    PROVE  \E n \in S : \A m \in S : n <= m
<1>1. PICK n \in S : \A m \in S : <<m, n>> \notin OpToRel(<, Nat)
    BY NatLessThanWellFounded, WFMin
<1>2. \A m \in S : ~ (m < n)
    BY <1>1, Zenon DEF OpToRel
<1> QED BY <1>2

\* What the assumptions say of the constants.
Constants(size) ==
    /\ Base \in Nat /\ size \in Nat /\ MaxRegions \in Nat
    /\ GapStart \in Nat /\ GapSize \in Nat \ {0} /\ GapEnd = GapStart + GapSize
    /\ Base < GapStart /\ (size < GapStart \/ size > GapEnd)

LEMMA ConstantsOK ==
    ASSUME NEW size \in GuestSizes
    PROVE  Constants(size)
<1>1. GapStart \in Nat /\ GapSize \in Nat \ {0} /\ GapEnd = GapStart + GapSize
    BY GapAssumption DEF GapEnd
<1>2. Base \in Nat /\ Base < GapStart /\ MaxRegions \in Nat /\ size \in Nat
    BY <1>1, MemMappingsAssumption
<1>3. size < GapStart \/ size > GapEnd
    BY <1>1, <1>2, MemMappingsAssumption
<1> QED BY <1>1, <1>2, <1>3 DEF Constants

\* The regions of a free list lie above the base, and below or above the gap.
LEMMA Regions ==
    ASSUME NEW size \in GuestSizes, NEW l \in FreeLists(size)
    PROVE  /\ Len(l) \in 1 .. MaxRegions /\ DOMAIN l = 1 .. Len(l)
           /\ \A i \in 1 .. Len(l) :
                 /\ l[i].start \in Nat /\ l[i].end \in Nat
                 /\ Base < l[i].start /\ l[i].start < l[i].end /\ l[i].end <= size
                 /\ l[i].end <= GapStart \/ l[i].start >= GapEnd
           /\ \A i \in 1 .. Len(l) - 1 : l[i].end < l[i + 1].start
<1> DEFINE R == {r \in [start : Base + 1 .. size - 1, end : Base + 2 .. size] :
                    r.start < r.end /\ Extent(r) \cap Gap = {}}
<1>0. Constants(size)
    BY ConstantsOK
<1> USE <1>0 DEF Constants
<1>1. PICK n \in 1 .. MaxRegions : l \in [1 .. n -> R]
    BY Zenon DEF FreeLists
<1>2. Len(l) = n /\ DOMAIN l = 1 .. n
    BY <1>0, <1>1
<1>3. \A i \in 1 .. Len(l) - 1 : l[i].end < l[i + 1].start
    BY DEF FreeLists
<1>4. ASSUME NEW i \in 1 .. n
      PROVE  /\ l[i].start \in Nat /\ l[i].end \in Nat
             /\ Base < l[i].start /\ l[i].start < l[i].end /\ l[i].end <= size
             /\ l[i].end <= GapStart \/ l[i].start >= GapEnd
  <2>1. l[i] \in R
      BY <1>1
  <2>2. PICK a \in Nat, b \in Nat : a = l[i].start /\ b = l[i].end /\ Base < a /\ a < b
                                    /\ b <= size
      BY <1>0, <2>1
  <2>3. \A x \in Int : ~ (a <= x /\ x < b /\ GapStart <= x /\ x < GapEnd)
      BY <1>0, <2>1, <2>2 DEF Extent, Gap
  <2>4. b <= GapStart \/ a >= GapEnd
      BY <1>0, <2>2, <2>3
  <2> QED BY <2>2, <2>4
<1> QED BY <1>0, <1>2, <1>3, <1>4

\* The regions are in ascending order, not only neighbours.
LEMMA Sorted ==
    ASSUME NEW size \in GuestSizes, NEW l \in FreeLists(size),
           NEW i \in 1 .. Len(l), NEW j \in 1 .. Len(l), i < j
    PROVE  l[i].end < l[j].start
<1> DEFINE S == {k \in 1 .. Len(l) : i < k /\ ~ (l[i].end < l[k].start)}
<1>0. Len(l) \in Nat
    BY Regions, MemMappingsAssumption
<1> SUFFICES ASSUME S # {} PROVE FALSE
    BY <1>0
<1> S \subseteq Nat
    BY <1>0
<1> HIDE DEF S
<1>1. PICK k \in S : \A m \in S : k <= m
    BY Least
<1> USE DEF S
<1>2. k - 1 \in 1 .. Len(l) /\ k - 1 \in 1 .. Len(l) - 1 /\ (k - 1) + 1 = k /\ i <= k - 1
    BY <1>0
<1>3. l[k - 1].end < l[k].start
    BY <1>2, Regions
<1>4. k - 1 \notin S
    BY <1>0, <1>1
<1>5. i # k - 1
    BY <1>3
<1>6. l[i].end < l[k - 1].start
    BY <1>0, <1>2, <1>4, <1>5
<1>7. /\ l[i].end \in Nat /\ l[k - 1].start \in Nat /\ l[k - 1].end \in Nat
      /\ l[k - 1].start < l[k - 1].end /\ l[k].start \in Nat
    BY <1>0, <1>2, Regions
<1> QED BY <1>3, <1>6, <1>7

-----------------------------------------------------------------------------
(* Slots. *)

\* The pages of the first n slots of an array.
HeldIn(array, n) ==
    UNION {array[i].ptr .. array[i].ptr + array[i].size - 1 : i \in 0 .. n - 1}

\* An array whose first n slots are written, and at most one more.
Array(array, n) ==
    /\ 0 .. n - 1 \subseteq DOMAIN array /\ DOMAIN array \subseteq 0 .. n
    /\ \A i \in DOMAIN array :
          array[i].ptr \in Nat /\ array[i].size \in Nat /\ array[i].size > 0

LEMMA InHeld ==
    ASSUME NEW array, NEW n,
           \A i \in 0 .. n - 1 : array[i].ptr \in Nat /\ array[i].size \in Nat,
           NEW x \in Int
    PROVE  x \in HeldIn(array, n) <=>
              \E i \in 0 .. n - 1 : array[i].ptr <= x /\ x < array[i].ptr + array[i].size
BY DEF HeldIn

\* A chunk that holds the whole gap or nothing of it.
Whole(ptr, size) ==
    \/ ptr <= GapStart /\ GapEnd <= ptr + size
    \/ ptr + size <= GapStart
    \/ GapEnd <= ptr

\* What check_for_io_gap leaves of a chunk, case by case.
LEMMA GapCases ==
    ASSUME NEW size0 \in GuestSizes, NEW array, NEW slot \in Nat, NEW cnt \in Int,
           NEW ptr \in Nat, NEW size \in Nat, size > 0, Whole(ptr, size),
           NEW m, m = WithoutGap([chunks |-> Write(array, slot, ptr, size),
                                  slot |-> slot, count |-> cnt])
    PROVE  \/ /\ ptr = GapStart /\ ptr + size = GapEnd
              /\ m = [chunks |-> Write(array, slot, ptr, size), slot |-> slot - 1,
                      count |-> cnt - 1]
           \/ /\ ptr < GapStart /\ ptr + size = GapEnd
              /\ m = [chunks |-> Write(Write(array, slot, ptr, size), slot, ptr,
                                       size - GapSize),
                      slot |-> slot, count |-> cnt]
           \/ /\ ptr = GapStart /\ ptr + size > GapEnd
              /\ m = [chunks |-> Write(Write(array, slot, ptr, size), slot,
                                       ptr + GapSize, size - GapSize),
                      slot |-> slot, count |-> cnt]
           \/ /\ ptr < GapStart /\ ptr + size > GapEnd
              /\ m = [chunks |-> Write(Write(Write(array, slot, ptr, size), slot, ptr,
                                             GapStart - ptr),
                                       slot + 1, GapEnd, (ptr + size) - GapEnd),
                      slot |-> slot + 1, count |-> cnt + 1]
           \/ /\ ptr + size <= GapStart \/ GapEnd <= ptr
              /\ m = [chunks |-> Write(array, slot, ptr, size), slot |-> slot,
                      count |-> cnt]
<1> DEFINE w == Write(array, slot, ptr, size)
           r == [chunks |-> w, slot |-> slot, count |-> cnt]
<1>0. Constants(size0)
    BY ConstantsOK
<1>1. r.chunks = w /\ r.slot = slot /\ r.count = cnt /\ w[slot].ptr = ptr /\ w[slot].size = size
    BY DEF Write
<1> HIDE DEF w
<1>2. \A p, z : [r EXCEPT !.chunks = Write(@, r.slot, p, z)] =
         [chunks |-> Write(w, slot, p, z), slot |-> slot, count |-> cnt]
  <2>1. \A a : [r EXCEPT !.chunks = a] = [chunks |-> a, slot |-> slot, count |-> cnt]
      OBVIOUS
  <2>2. \A p, z : [r EXCEPT !.chunks = Write(@, r.slot, p, z)] = [r EXCEPT !.chunks = Write(w, slot, p, z)]
      BY <1>1, Zenon
  <2> HIDE DEF r
  <2> QED BY <2>1, <2>2, Zenon
<1> HIDE DEF r
<1>3. m = WithoutGap(r)
    BY DEF r, w
<1>4. CASE ptr = GapStart /\ ptr + size = GapEnd
  <2>1. w[r.slot].ptr = GapStart /\ w[r.slot].ptr + w[r.slot].size = GapEnd
      BY <1>1, <1>4
  <2>2. WithoutGap(r) = [chunks |-> r.chunks, slot |-> r.slot - 1, count |-> r.count - 1]
      BY <1>1, <2>1 DEF WithoutGap
  <2> QED BY <1>1, <1>3, <1>4, <2>2 DEF w
<1>5. CASE ptr # GapStart /\ ptr + size = GapEnd
  <2>1. ptr < GapStart
      BY <1>0, <1>5 DEF Constants, Whole
  <2> QED BY <1>1, <1>2, <1>3, <1>5, <2>1 DEF WithoutGap, w
<1>6. CASE ptr = GapStart /\ ptr + size # GapEnd
  <2>1. ptr + size > GapEnd
      BY <1>0, <1>6 DEF Constants, Whole
  <2>2. WithoutGap(r) = [r EXCEPT !.chunks = Write(@, r.slot, ptr + GapSize, size - GapSize)]
      BY <1>1, <1>6 DEF WithoutGap
  <2>3. m = [chunks |-> Write(w, slot, ptr + GapSize, size - GapSize), slot |-> slot,
             count |-> cnt]
      BY <1>2, <1>3, <2>2, Zenon
  <2> QED BY <1>6, <2>1, <2>3 DEF w
<1>7. CASE ptr < GapStart /\ ptr + size > GapEnd
  <2>1. ptr # GapStart /\ ptr + size # GapEnd
      BY <1>0, <1>7 DEF Constants
  <2> QED BY <1>1, <1>2, <1>3, <1>7, <2>1 DEF WithoutGap, w
<1>8. CASE /\ ptr # GapStart /\ ptr + size # GapEnd
           /\ ~ (ptr < GapStart /\ ptr + size > GapEnd)
  <2>1. ptr + size <= GapStart \/ GapEnd <= ptr
      BY <1>0, <1>8 DEF Constants, Whole
  <2>2. m = r
      BY <1>1, <1>3, <1>8 DEF WithoutGap
  <2> QED BY <2>1, <2>2 DEF w, r
<1> QED BY <1>4, <1>5, <1>6, <1>7, <1>8

\* The slots behind a chunk written and checked for the gap: they hold its pages
\* without the gap, and the slots before it stay as they are.
Checked(array, slot, ptr, size, cnt, m) ==
    /\ m.slot \in {slot - 1, slot, slot + 1} /\ m.count = cnt + (m.slot - slot)
    /\ m.slot # slot => ptr <= GapStart /\ GapEnd <= ptr + size
    /\ m.slot < slot => ptr = GapStart /\ ptr + size = GapEnd
    /\ Array(m.chunks, m.slot + 1)
    /\ m.slot >= slot => DOMAIN m.chunks \subseteq 0 .. m.slot
    /\ \A i \in 0 .. slot - 1 : m.chunks[i] = array[i]
    /\ \A x \in Int : (\E i \in slot .. m.slot : m.chunks[i].ptr <= x /\
                                           x < m.chunks[i].ptr + m.chunks[i].size)
                         <=> ptr <= x /\ x < ptr + size /\ ~ (GapStart <= x /\ x < GapEnd)

LEMMA GapChecked ==
    ASSUME NEW size0 \in GuestSizes, NEW array, NEW slot \in Nat, NEW cnt \in Int,
           Array(array, slot),
           NEW ptr \in Nat, NEW size \in Nat, size > 0, Whole(ptr, size),
           NEW m, m = WithoutGap([chunks |-> Write(array, slot, ptr, size),
                                  slot |-> slot, count |-> cnt])
    PROVE  Checked(array, slot, ptr, size, cnt, m)
<1>0. Constants(size0)
    BY ConstantsOK
<1> DEFINE w == Write(array, slot, ptr, size)
<1>w. /\ DOMAIN w = 0 .. slot /\ w[slot] = [ptr |-> ptr, size |-> size]
      /\ \A i \in 0 .. slot - 1 : w[i] = array[i]
      /\ \A i \in 0 .. slot : w[i].ptr \in Nat /\ w[i].size \in Nat /\ w[i].size > 0
    BY DEF Write, Array
<1>1. CASE /\ ptr = GapStart /\ ptr + size = GapEnd
           /\ m = [chunks |-> w, slot |-> slot - 1, count |-> cnt - 1]
  <2> HIDE DEF w
  <2> QED BY <1>0, <1>1, <1>w DEF Checked, Array, Constants
<1>2. ASSUME NEW p \in Nat, NEW z \in Nat, z > 0,
             m = [chunks |-> Write(w, slot, p, z), slot |-> slot, count |-> cnt],
             \A x \in Int : p <= x /\ x < p + z
                <=> ptr <= x /\ x < ptr + size /\ ~ (GapStart <= x /\ x < GapEnd)
      PROVE  Checked(array, slot, ptr, size, cnt, m)
  <2> HIDE DEF w
  <2>1. /\ DOMAIN m.chunks = 0 .. slot /\ m.chunks[slot] = [ptr |-> p, size |-> z]
        /\ \A i \in 0 .. slot - 1 : m.chunks[i] = w[i]
    <3> DEFINE v == Write(w, slot, p, z)
    <3>1. m.chunks = v
        BY <1>2
    <3>2. DOMAIN w \cup {slot} = 0 .. slot /\ \A i \in 0 .. slot - 1 : i # slot /\ i \in 0 .. slot
        BY <1>w
    <3>3. /\ DOMAIN v = DOMAIN w \cup {slot} /\ v[slot] = [ptr |-> p, size |-> z]
          /\ \A i \in DOMAIN w : i # slot => v[i] = w[i]
        BY Zenon DEF Write
    <3> HIDE DEF v
    <3> QED BY <1>w, <3>1, <3>2, <3>3
  <2>2. m.slot = slot /\ m.count = cnt
      BY <1>2
  <2>3. Array(m.chunks, m.slot + 1)
    <3>1. z > 0
        BY <1>2
    <3>2. ASSUME NEW i \in 0 .. slot
          PROVE  m.chunks[i].ptr \in Nat /\ m.chunks[i].size \in Nat /\ m.chunks[i].size > 0
        BY <1>w, <2>1, <3>1
    <3>3. (m.slot + 1) - 1 = slot /\ 0 .. slot \subseteq 0 .. m.slot + 1
        BY <2>2
    <3> QED BY <2>1, <3>2, <3>3, Zenon DEF Array
  <2>4. ASSUME NEW x \in Int
        PROVE  (\E i \in slot .. m.slot : m.chunks[i].ptr <= x /\
                                           x < m.chunks[i].ptr + m.chunks[i].size)
               <=> ptr <= x /\ x < ptr + size /\ ~ (GapStart <= x /\ x < GapEnd)
    <3>1. slot .. m.slot = {slot}
        BY <2>2
    <3>2. p <= x /\ x < p + z
             <=> ptr <= x /\ x < ptr + size /\ ~ (GapStart <= x /\ x < GapEnd)
        BY <1>2
    <3> QED BY <2>1, <3>1, <3>2
  <2>5. \A i \in 0 .. slot - 1 : m.chunks[i] = array[i]
      BY <1>w, <2>1
  <2>6. /\ m.slot \in {slot - 1, slot, slot + 1} /\ m.count = cnt + (m.slot - slot)
        /\ m.slot # slot => ptr <= GapStart /\ GapEnd <= ptr + size
        /\ m.slot < slot => ptr = GapStart /\ ptr + size = GapEnd
        /\ m.slot >= slot => DOMAIN m.chunks \subseteq 0 .. m.slot
      BY <2>1, <2>2
  <2> QED BY <2>3, <2>4, <2>5, <2>6, Zenon DEF Checked
<1>3. CASE /\ ptr < GapStart /\ ptr + size > GapEnd
           /\ m = [chunks |-> Write(Write(w, slot, ptr, GapStart - ptr),
                                    slot + 1, GapEnd, (ptr + size) - GapEnd),
                   slot |-> slot + 1, count |-> cnt + 1]
  <2> HIDE DEF w
  <2>1. /\ DOMAIN m.chunks = 0 .. slot + 1
        /\ m.chunks[slot] = [ptr |-> ptr, size |-> GapStart - ptr]
        /\ m.chunks[slot + 1] = [ptr |-> GapEnd, size |-> (ptr + size) - GapEnd]
        /\ \A i \in 0 .. slot - 1 : m.chunks[i] = w[i]
    <3> DEFINE v == Write(w, slot, ptr, GapStart - ptr)
    <3> DEFINE u == Write(v, slot + 1, GapEnd, (ptr + size) - GapEnd)
    <3>1. m.chunks = u
        BY <1>3
    <3>2. /\ DOMAIN w \cup {slot} = 0 .. slot /\ (0 .. slot) \cup {slot + 1} = 0 .. slot + 1
          /\ \A i \in 0 .. slot - 1 : i # slot /\ i # slot + 1 /\ i \in 0 .. slot
          /\ slot # slot + 1 /\ slot \in 0 .. slot
        BY <1>w
    <3>3. /\ DOMAIN v = 0 .. slot /\ v[slot] = [ptr |-> ptr, size |-> GapStart - ptr]
          /\ \A i \in 0 .. slot - 1 : v[i] = w[i]
      <4>1. /\ DOMAIN v = DOMAIN w \cup {slot} /\ v[slot] = [ptr |-> ptr, size |-> GapStart - ptr]
            /\ \A i \in DOMAIN w : i # slot => v[i] = w[i]
          BY Zenon DEF Write
      <4> HIDE DEF v
      <4> QED BY <1>w, <3>2, <4>1
    <3> HIDE DEF v
    <3>4. /\ DOMAIN u = DOMAIN v \cup {slot + 1}
          /\ u[slot + 1] = [ptr |-> GapEnd, size |-> (ptr + size) - GapEnd]
          /\ \A i \in DOMAIN v : i # slot + 1 => u[i] = v[i]
        BY Zenon DEF Write
    <3> HIDE DEF u
    <3> QED BY <3>1, <3>2, <3>3, <3>4
  <2>2. m.slot = slot + 1 /\ m.count = cnt + 1
      BY <1>3
  <2>3. /\ GapStart - ptr \in Nat /\ GapStart - ptr > 0 /\ GapEnd \in Nat
        /\ (ptr + size) - GapEnd \in Nat /\ (ptr + size) - GapEnd > 0
      BY <1>0, <1>3 DEF Constants
  <2>4. Array(m.chunks, m.slot + 1)
    <3>1. ASSUME NEW i \in 0 .. slot + 1
          PROVE  m.chunks[i].ptr \in Nat /\ m.chunks[i].size \in Nat /\ m.chunks[i].size > 0
        BY <1>w, <2>1, <2>3
    <3> QED BY <2>1, <2>2, <3>1 DEF Array
  <2>5. ASSUME NEW x \in Int
        PROVE  (\E i \in slot .. m.slot : m.chunks[i].ptr <= x /\
                                           x < m.chunks[i].ptr + m.chunks[i].size)
               <=> ptr <= x /\ x < ptr + size /\ ~ (GapStart <= x /\ x < GapEnd)
    <3>1. slot .. m.slot = {slot, slot + 1}
        BY <2>2
    <3>2. (\E i \in slot .. m.slot : m.chunks[i].ptr <= x /\
                                        x < m.chunks[i].ptr + m.chunks[i].size)
          <=> \/ ptr <= x /\ x < ptr + (GapStart - ptr)
              \/ GapEnd <= x /\ x < GapEnd + ((ptr + size) - GapEnd)
        BY <2>1, <3>1
    <3> QED BY <1>0, <1>3, <3>2 DEF Constants
  <2>6. \A i \in 0 .. slot - 1 : m.chunks[i] = array[i]
      BY <1>w, <2>1
  <2>7. ptr <= GapStart /\ GapEnd <= ptr + size
      BY <1>0, <1>3 DEF Constants
  <2>8. /\ m.slot \in {slot - 1, slot, slot + 1} /\ m.count = cnt + (m.slot - slot)
        /\ m.slot # slot => ptr <= GapStart /\ GapEnd <= ptr + size
        /\ m.slot < slot => ptr = GapStart /\ ptr + size = GapEnd
        /\ m.slot >= slot => DOMAIN m.chunks \subseteq 0 .. m.slot
      BY <2>1, <2>2, <2>7
  <2> QED BY <2>4, <2>5, <2>6, <2>8, Zenon DEF Checked
<1>4. CASE m = [chunks |-> w, slot |-> slot, count |-> cnt] /\ (ptr + size <= GapStart \/ GapEnd <= ptr)
  <2>1. w = Write(w, slot, ptr, size)
    <3>1. w = [i \in DOMAIN w |-> w[i]]
        BY DEF Write
    <3> HIDE DEF w
    <3>2. DOMAIN w \cup {slot} = DOMAIN w
        BY <1>w
    <3> QED BY <1>w, <3>1, <3>2, Zenon DEF Write
  <2>2. \A x \in Int : ptr <= x /\ x < ptr + size
                <=> ptr <= x /\ x < ptr + size /\ ~ (GapStart <= x /\ x < GapEnd)
      BY <1>0, <1>4 DEF Constants
  <2> HIDE DEF w
  <2> QED BY <1>2, <1>4, <2>1, <2>2
<1>5. CASE /\ ptr < GapStart /\ ptr + size = GapEnd
           /\ m = [chunks |-> Write(w, slot, ptr, size - GapSize), slot |-> slot, count |-> cnt]
  <2>1. \A x \in Int : ptr <= x /\ x < ptr + (size - GapSize)
                <=> ptr <= x /\ x < ptr + size /\ ~ (GapStart <= x /\ x < GapEnd)
      BY <1>0, <1>5 DEF Constants
  <2>2. size - GapSize \in Nat /\ size - GapSize > 0
      BY <1>0, <1>5 DEF Constants
  <2> HIDE DEF w
  <2> QED BY <1>2, <1>5, <2>1, <2>2
<1>6. CASE /\ ptr = GapStart /\ ptr + size > GapEnd
           /\ m = [chunks |-> Write(w, slot, ptr + GapSize, size - GapSize),
                   slot |-> slot, count |-> cnt]
  <2>1. \A x \in Int : ptr + GapSize <= x /\ x < (ptr + GapSize) + (size - GapSize)
                <=> ptr <= x /\ x < ptr + size /\ ~ (GapStart <= x /\ x < GapEnd)
      BY <1>0, <1>6 DEF Constants
  <2>2. size - GapSize \in Nat /\ size - GapSize > 0 /\ ptr + GapSize \in Nat
      BY <1>0, <1>6 DEF Constants
  <2> HIDE DEF w
  <2> QED BY <1>2, <1>6, <2>1, <2>2
<1> QED BY <1>1, <1>3, <1>4, <1>5, <1>6, GapCases

\* The pages held after a chunk was written and checked.
Gained(array, slot, ptr, size, m) ==
    /\ HeldIn(m.chunks, m.slot + 1) =
          HeldIn(array, slot) \cup ((ptr .. ptr + size - 1) \ Gap)
    /\ m.slot >= slot => HeldIn(m.chunks, slot) = HeldIn(array, slot)

LEMMA CheckedHeld ==
    ASSUME NEW array, NEW slot \in Nat, NEW ptr \in Nat, NEW size \in Nat, NEW cnt \in Int,
           NEW m, Array(array, slot), Checked(array, slot, ptr, size, cnt, m),
           GapStart \in Nat, GapEnd \in Nat
    PROVE  Gained(array, slot, ptr, size, m)
<1>0. m.slot \in Int /\ slot - 1 <= m.slot /\ m.slot <= slot + 1
    BY DEF Checked
<1>1. \A i \in 0 .. slot - 1 : m.chunks[i] = array[i]
    BY DEF Checked
<1>2. \A i \in 0 .. m.slot : m.chunks[i].ptr \in Nat /\ m.chunks[i].size \in Nat
    BY <1>0 DEF Checked, Array
<1>3. \A i \in 0 .. slot - 1 : array[i].ptr \in Nat /\ array[i].size \in Nat
    BY DEF Array
<1> DEFINE C(x, a, i) == a[i].ptr <= x /\ x < a[i].ptr + a[i].size
<1>4. ASSUME NEW x \in Int
      PROVE  x \in HeldIn(m.chunks, m.slot + 1) <=>
                x \in HeldIn(array, slot) \cup ((ptr .. ptr + size - 1) \ Gap)
  <2>1. x \in HeldIn(m.chunks, m.slot + 1) <=> \E i \in 0 .. m.slot : C(x, m.chunks, i)
    <3>1. (m.slot + 1) - 1 = m.slot
        BY <1>0
    <3> QED BY <1>2, <3>1, InHeld
  <2>2. x \in HeldIn(array, slot) <=> \E i \in 0 .. slot - 1 : C(x, array, i)
      BY <1>3, InHeld
  <2>3. x \in (ptr .. ptr + size - 1) \ Gap <=> \E i \in slot .. m.slot : C(x, m.chunks, i)
      BY DEF Checked, Gap
  <2>4. 0 .. m.slot = (0 .. slot - 1) \cup (slot .. m.slot)
      BY <1>0
  <2>5. \A i \in 0 .. slot - 1 : C(x, array, i) <=> C(x, m.chunks, i)
      BY <1>1
  <2> HIDE DEF C
  <2> QED BY <2>1, <2>2, <2>3, <2>4, <2>5
<1>5. HeldIn(m.chunks, m.slot + 1) \subseteq Int /\ HeldIn(array, slot) \subseteq Int
    BY <1>0, <1>2, <1>3 DEF HeldIn
<1>6. HeldIn(m.chunks, m.slot + 1) = HeldIn(array, slot) \cup ((ptr .. ptr + size - 1) \ Gap)
    BY <1>4, <1>5
<1>7. HeldIn(m.chunks, slot) = HeldIn(array, slot)
    BY <1>1 DEF HeldIn
<1> QED BY <1>6, <1>7 DEF Gained

-----------------------------------------------------------------------------
(* The memory in use. *)

LEMMA InAllocated ==
    ASSUME guest_size \in GuestSizes, free_list \in FreeLists(guest_size),
           NEW limit \in Nat, NEW x \in Int
    PROVE  x \in Allocated(limit) <=>
              /\ Base <= x /\ x < limit /\ ~ (GapStart <= x /\ x < GapEnd)
              /\ \A i \in 1 .. Len(free_list) :
                    ~ (free_list[i].start <= x /\ x < free_list[i].end)
<1>0. Constants(guest_size)
    BY ConstantsOK
<1>1. /\ DOMAIN free_list = 1 .. Len(free_list)
      /\ \A i \in 1 .. Len(free_list) : free_list[i].start \in Nat /\ free_list[i].end \in Nat
    BY Regions
<1>2. ASSUME NEW i \in 1 .. Len(free_list)
      PROVE  x \in Extent(free_list[i]) <=> free_list[i].start <= x /\ x < free_list[i].end
    BY <1>1 DEF Extent
<1>3. x \in UNION {Extent(free_list[i]) : i \in DOMAIN free_list} <=>
         \E i \in 1 .. Len(free_list) : free_list[i].start <= x /\ x < free_list[i].end
    BY <1>1, <1>2, Zenon
<1>4. x \in Gap <=> GapStart <= x /\ x < GapEnd
    BY <1>0 DEF Gap, Constants
<1>5. x \in Base .. limit - 1 <=> Base <= x /\ x < limit
    BY <1>0 DEF Constants
<1> QED BY <1>3, <1>4, <1>5, Zenon DEF Allocated

LEMMA AllocatedNumbers ==
    ASSUME NEW limit
    PROVE  Allocated(limit) \subseteq Int
BY DEF Allocated

\* Below the first region; between two regions; behind the last one.
LEMMA AllocatedFirst ==
    ASSUME guest_size \in GuestSizes, free_list \in FreeLists(guest_size)
    PROVE  Allocated(free_list[1].start) = (Base .. free_list[1].start - 1) \ Gap
<1>0. Constants(guest_size)
    BY ConstantsOK
<1>1. 1 \in 1 .. Len(free_list) /\ free_list[1].start \in Nat /\ Len(free_list) \in Nat
    BY <1>0, Regions DEF Constants
<1>2. ASSUME NEW i \in 1 .. Len(free_list)
      PROVE  free_list[i].start \in Nat /\ free_list[1].start <= free_list[i].start
  <2>1. i # 1 => free_list[1].end < free_list[i].start
      BY <1>1, Sorted
  <2> QED BY <1>1, <2>1, Regions
<1>3. ASSUME NEW x \in Int
      PROVE  x \in Allocated(free_list[1].start) <=> x \in (Base .. free_list[1].start - 1) \ Gap
  <2>1. x \in (Base .. free_list[1].start - 1) \ Gap <=>
           Base <= x /\ x < free_list[1].start /\ ~ (GapStart <= x /\ x < GapEnd)
      BY <1>0, <1>1 DEF Gap, Constants
  <2>2. x < free_list[1].start => \A i \in 1 .. Len(free_list) : ~ (free_list[i].start <= x)
      BY <1>1, <1>2
  <2>3. x \in Allocated(free_list[1].start) <=>
              /\ Base <= x /\ x < free_list[1].start /\ ~ (GapStart <= x /\ x < GapEnd)
              /\ \A i \in 1 .. Len(free_list) :
                    ~ (free_list[i].start <= x /\ x < free_list[i].end)
      BY <1>1, InAllocated
  <2> QED BY <2>1, <2>2, <2>3, Zenon
<1> QED BY <1>0, <1>1, <1>3, AllocatedNumbers DEF Constants

\* The pages from the end of a region on, up to a limit that the next region, if
\* there is one, does not begin before.
LEMMA AllocatedNext ==
    ASSUME guest_size \in GuestSizes, free_list \in FreeLists(guest_size),
           NEW c \in 1 .. Len(free_list), NEW limit \in Nat,
           free_list[c].end <= limit,
           c < Len(free_list) => limit <= free_list[c + 1].start
    PROVE  Allocated(limit) = Allocated(free_list[c].start)
                                 \cup ((free_list[c].end .. limit - 1) \ Gap)
<1>0. Constants(guest_size)
    BY ConstantsOK
<1>1. /\ Len(free_list) \in Nat
      /\ \A i \in 1 .. Len(free_list) : /\ free_list[i].start \in Nat /\ free_list[i].end \in Nat
                                        /\ free_list[i].start < free_list[i].end
                                        /\ Base < free_list[i].start
    BY <1>0, Regions DEF Constants
<1> DEFINE Out(x, i) == ~ (free_list[i].start <= x /\ x < free_list[i].end)
           NoGap(x) == ~ (GapStart <= x /\ x < GapEnd)
<1>2. ASSUME NEW i \in 1 .. Len(free_list), i > c
      PROVE  limit <= free_list[i].start
  <2>1. c + 1 \in 1 .. Len(free_list) /\ c < Len(free_list)
      BY <1>1, <1>2
  <2>2. i # c + 1 => free_list[c + 1].end < free_list[i].start
      BY <1>1, <1>2, <2>1, Sorted
  <2> QED BY <1>1, <2>1, <2>2
<1>3. ASSUME NEW i \in 1 .. Len(free_list), i < c
      PROVE  free_list[i].end < free_list[c].start
    BY <1>1, <1>3, Sorted
<1>4. ASSUME NEW x \in Int
      PROVE  x \in Allocated(limit) <=>
                \/ x \in Allocated(free_list[c].start)
                \/ x \in (free_list[c].end .. limit - 1) \ Gap
  <2>1. x \in (free_list[c].end .. limit - 1) \ Gap <=>
           free_list[c].end <= x /\ x < limit /\ NoGap(x)
      BY <1>0, <1>1 DEF Gap, Constants
  <2>2. x \in Allocated(limit) <=>
           Base <= x /\ x < limit /\ NoGap(x) /\ \A i \in 1 .. Len(free_list) : Out(x, i)
      BY InAllocated
  <2>3. x \in Allocated(free_list[c].start) <=>
           /\ Base <= x /\ x < free_list[c].start /\ NoGap(x)
           /\ \A i \in 1 .. Len(free_list) : Out(x, i)
      BY <1>1, InAllocated
  <2>4. ASSUME free_list[c].end <= x, x < limit
        PROVE  Base <= x /\ \A i \in 1 .. Len(free_list) : Out(x, i)
    <3>1. ASSUME NEW i \in 1 .. Len(free_list)
          PROVE  Out(x, i)
      <4>1. CASE i > c
          BY <1>1, <1>2, <2>4, <4>1
      <4>2. CASE i < c
          BY <1>1, <1>3, <2>4, <4>2
      <4>3. CASE i = c
          BY <1>1, <2>4, <4>3
      <4> QED BY <1>1, <4>1, <4>2, <4>3
    <3> QED BY <1>0, <1>1, <2>4, <3>1 DEF Constants
  <2>5. ASSUME Out(x, c), x < limit
        PROVE  x < free_list[c].start \/ free_list[c].end <= x
      BY <1>1, <2>5
  <2>6. x < free_list[c].start => x < limit
      BY <1>1
  <2> HIDE DEF Out, NoGap
  <2> QED BY <2>1, <2>2, <2>3, <2>4, <2>5, <2>6, Zenon
<1> QED BY <1>1, <1>4, AllocatedNumbers

-----------------------------------------------------------------------------
(* The loop. *)

\* What the proofs of the steps use of a free list and of the current region.
LEMMA Facts ==
    ASSUME MapInv
    PROVE  /\ Constants(guest_size)
           /\ Len(free_list) \in 1 .. MaxRegions /\ DOMAIN free_list = 1 .. Len(free_list)
           /\ cur \in 1 .. Len(free_list)
           /\ \A i \in 1 .. Len(free_list) :
                 /\ free_list[i].start \in Nat /\ free_list[i].end \in Nat
                 /\ Base < free_list[i].start /\ free_list[i].start < free_list[i].end
                 /\ free_list[i].end <= guest_size
                 /\ free_list[i].end <= GapStart \/ free_list[i].start >= GapEnd
           /\ \A i \in 1 .. Len(free_list) - 1 : free_list[i].end < free_list[i + 1].start
<1>1. guest_size \in GuestSizes /\ free_list \in FreeLists(guest_size) /\ TypeOK
    BY DEF MapInv
<1>2. Constants(guest_size)
    BY <1>1, ConstantsOK
<1> QED BY <1>1, <1>2, Regions DEF TypeOK

LEMMA HeldIsHeldIn ==
    \A n : Held(n) = HeldIn(chunks, n)
BY DEF Held, HeldIn

LEMMA InitMap ==
    Init => MapInv
<1> SUFFICES ASSUME Init PROVE MapInv
    OBVIOUS
<1>1. guest_size \in GuestSizes /\ free_list \in FreeLists(guest_size)
    BY DEF Init
<1>2. Constants(guest_size) /\ Len(free_list) \in 1 .. MaxRegions
    BY <1>1, ConstantsOK, Regions
<1>3. DOMAIN chunks = {} /\ cur = 1 /\ pc = "first" /\ count = 0 /\ cur_slot = 0
    BY DEF Init
<1>4. TypeOK /\ CoversAllocated
    BY <1>2, <1>3 DEF TypeOK, CoversAllocated, Constants
<1> QED BY <1>1, <1>3, <1>4 DEF MapInv

\* A chunk written in the loop: the next slot is the current one, with every page
\* in use below the limit held, and the array is not left.
AddsUp(slot, ptr, size, c) ==
    HeldIn(chunks, slot) \cup ((ptr .. ptr + size - 1) \ Gap) =
        Allocated(free_list[c].start)

LEMMA Iteration ==
    ASSUME guest_size \in GuestSizes, free_list \in FreeLists(guest_size),
           UNCHANGED <<guest_size, free_list>>,
           NEW slot \in Nat, NEW ptr \in Nat, NEW size \in Nat, NEW cnt \in Int,
           NEW m, Array(chunks, slot), Checked(chunks, slot, ptr, size, cnt, m),
           chunks' = m.chunks, cur_slot' = m.slot + 1, count' = m.count,
           NEW c \in 1 .. Len(free_list), cur' = c,
           AddsUp(slot, ptr, size, c), m.slot \in Nat,
           slot \in {c - 2, c - 1, c}, cnt = Len(free_list) + (slot - (c - 1)),
           slot # c - 1 => GapEnd <= ptr,
           ptr + size <= free_list[c].start,
           pc' = "loop", size > 0
    PROVE  MapInv'
<1>0. /\ Constants(guest_size) /\ Len(free_list) \in 1 .. MaxRegions
      /\ free_list[c].start \in Nat
    BY ConstantsOK, Regions
<1>1. /\ m.slot \in {slot - 1, slot, slot + 1} /\ m.count = cnt + (m.slot - slot)
      /\ m.slot # slot => ptr <= GapStart /\ GapEnd <= ptr + size
      /\ m.slot < slot => ptr = GapStart /\ ptr + size = GapEnd
      /\ Array(m.chunks, m.slot + 1)
    BY DEF Checked
<1>2. c \in Nat /\ Len(free_list) \in Nat /\ m.slot \in Nat /\ GapEnd \in Nat
  <2>1. Len(free_list) \in Nat
      BY <1>0 DEF Constants
  <2>2. GapEnd \in Nat
      BY <1>0 DEF Constants
  <2> QED BY <2>1, <2>2
<1> DEFINE split == (m.slot + 1) - c
<1>3. split \in {-1, 0, 1} /\ (split # 0 => GapEnd <= free_list[c].start)
      /\ count' = Len(free_list) + split /\ cur_slot' > 0
  <2>1. split = (m.slot - slot) + (slot - (c - 1))
      BY <1>1, <1>2
  <2>2. slot # c - 1 => m.slot = slot
      BY <1>0, <1>1 DEF Constants
  <2> HIDE DEF split
  <2>3. split # 0 => GapEnd <= ptr + size
    <3>1. slot # c - 1 => GapEnd <= ptr + size
        BY <1>2
    <3>2. slot = c - 1 /\ m.slot = slot => split = 0
        BY <1>2, <2>1
    <3> QED BY <1>1, <3>1, <3>2
  <2>4. split # 0 => GapEnd <= free_list[c].start
      BY <1>0, <1>2, <2>3
  <2>5. split \in {-1, 0, 1}
    <3>1. CASE slot # c - 1
        BY <1>2, <2>1, <2>2, <3>1
    <3>2. CASE slot = c - 1
        BY <1>1, <1>2, <2>1, <3>2
    <3> QED BY <3>1, <3>2
  <2>6. count' = Len(free_list) + split
      BY <1>1, <1>2, <2>1
  <2>7. cur_slot' > 0
      OBVIOUS
  <2> QED BY <2>4, <2>5, <2>6, <2>7
<1>4. Held(cur_slot)' = Allocated(free_list[cur].start)'
  <2>1. HeldIn(m.chunks, m.slot + 1) =
           HeldIn(chunks, slot) \cup ((ptr .. ptr + size - 1) \ Gap)
    <3>1. GapStart \in Nat
        BY <1>0 DEF Constants
    <3>2. Gained(chunks, slot, ptr, size, m)
        BY <1>2, <3>1, CheckedHeld
    <3> QED BY <3>2 DEF Gained
  <2>2. Held(cur_slot)' = HeldIn(m.chunks, m.slot + 1)
      BY DEF Held, HeldIn
  <2>3. Allocated(free_list[cur].start)' = Allocated(free_list[c].start)
      BY DEF Allocated
  <2> QED BY <2>1, <2>2, <2>3 DEF AddsUp
<1>5. /\ 0 .. cur_slot' - 1 \subseteq DOMAIN chunks' /\ DOMAIN chunks' \subseteq 0 .. cur_slot'
      /\ \A i \in DOMAIN chunks' : /\ chunks'[i].ptr \in Nat /\ chunks'[i].size \in Nat
                                   /\ chunks'[i].size > 0
    BY <1>1 DEF Array
<1>6. LoopInv'
  <2>1. cur_slot' - cur' = split
      OBVIOUS
  <2> HIDE DEF split
  <2> QED BY <1>3, <1>4, <1>5, <2>1 DEF LoopInv
<1>7. cur_slot' \in 0 .. Len(free_list) + 1 /\ count' \in Nat
  <2> DEFINE n == Len(free_list)
             v == m.slot + 1
  <2>1. n \in Nat /\ c \in Nat /\ c <= n /\ v \in Nat
      BY <1>2
  <2>2. v - c \in {-1, 0, 1} /\ count' = n + (v - c) /\ cur_slot' = v
      BY <1>3, Zenon
  <2> HIDE DEF n, v
  <2>3. v \in 0 .. n + 1
      BY <2>1, <2>2
  <2>4. n + (v - c) \in Nat
      BY <2>1, <2>2
  <2>5. cur_slot' \in 0 .. n + 1 /\ count' \in Nat
      BY <2>2, <2>3, <2>4, Zenon
  <2> QED BY <2>5 DEF n
<1>8. TypeOK'
    BY <1>0, <1>5, <1>7 DEF TypeOK, Constants
<1>9. CoversAllocated'
  <2>1. ASSUME NEW i \in DOMAIN chunks'
        PROVE  i < Len(free_list) + 2
    <3>1. i \in 0 .. cur_slot'
        BY <1>5
    <3> QED BY <1>2, <1>7, <3>1
  <2> QED BY <1>5, <2>1 DEF CoversAllocated, CntMax
<1> QED BY <1>6, <1>8, <1>9 DEF MapInv

LEMMA FirstKeeps ==
    MapInv /\ First => MapInv'
<1> SUFFICES ASSUME MapInv, First PROVE MapInv'
    OBVIOUS
<1> DEFINE size == free_list[1].start - Base
           m == Put(0, Base, size)
<1>0. guest_size \in GuestSizes /\ free_list \in FreeLists(guest_size)
      /\ pc = "first" /\ DOMAIN chunks = {} /\ cur = 1
    BY DEF MapInv, First
<1>1. Constants(guest_size) /\ Len(free_list) \in 1 .. MaxRegions /\ 1 \in 1 .. Len(free_list)
    BY Facts, <1>0
<1>2. size \in Nat /\ size > 0 /\ Base + size = free_list[1].start /\ Base \in Nat
    BY <1>1, Facts DEF Constants
<1> HIDE DEF size
<1>3. Whole(Base, size)
    BY <1>1, <1>2, Facts DEF Constants, Whole
<1>4. m = WithoutGap([chunks |-> Write(chunks, 0, Base, size), slot |-> 0,
                      count |-> Len(free_list)])
  <2>1. CntMax - 2 = Len(free_list)
      BY <1>1 DEF CntMax, Constants
  <2> QED BY <1>0, <2>1 DEF Put
<1>5. Array(chunks, 0)
    BY <1>0 DEF Array
<1>6. Len(free_list) \in Int
    BY <1>1 DEF Constants
<1>7. /\ chunks' = m.chunks /\ cur_slot' = m.slot + 1 /\ count' = m.count /\ pc' = "loop"
      /\ UNCHANGED <<guest_size, free_list>> /\ cur' = 1
    BY <1>0 DEF First, size
<1> HIDE DEF m
<1>8. Checked(chunks, 0, Base, size, Len(free_list), m)
    BY <1>0, <1>2, <1>3, <1>4, <1>5, <1>6, GapChecked
<1>9. m.slot \in Nat
    BY <1>1, <1>8 DEF Checked, Constants
<1>10. HeldIn(chunks, 0) \cup ((Base .. Base + size - 1) \ Gap) = Allocated(free_list[1].start)
  <2>1. HeldIn(chunks, 0) = {}
      BY DEF HeldIn
  <2> QED BY <1>0, <1>2, <2>1, AllocatedFirst
<1>11. free_list[1].start \in Nat
    BY <1>1, Facts
<1>12. AddsUp(0, Base, size, 1)
    BY <1>10 DEF AddsUp
<1> QED BY <1>0, <1>1, <1>2, <1>5, <1>6, <1>7, <1>8, <1>9, <1>11, <1>12, Iteration

\* What the loop's invariant says before an iteration.
LEMMA LoopFacts ==
    ASSUME MapInv, pc = "loop"
    PROVE  /\ Array(chunks, cur_slot) /\ cur_slot \in Nat /\ cur_slot > 0
           /\ cur_slot \in {cur - 1, cur, cur + 1}
           /\ count = Len(free_list) + (cur_slot - cur)
           /\ cur_slot # cur => GapEnd <= free_list[cur].start
           /\ HeldIn(chunks, cur_slot) = Allocated(free_list[cur].start)
<1>1. LoopInv /\ TypeOK /\ CoversAllocated
    BY DEF MapInv
<1>2. cur \in 1 .. Len(free_list) /\ Len(free_list) \in Nat /\ cur_slot \in Nat
    BY <1>1, Facts DEF Constants, TypeOK
<1>3. Array(chunks, cur_slot)
    BY <1>1 DEF Array, LoopInv, TypeOK, CoversAllocated
<1>4. HeldIn(chunks, cur_slot) = Allocated(free_list[cur].start)
    BY <1>1, HeldIsHeldIn DEF LoopInv
<1> QED BY <1>1, <1>2, <1>3, <1>4 DEF LoopInv

LEMMA BetweenKeeps ==
    MapInv /\ Between => MapInv'
<1> SUFFICES ASSUME MapInv, Between PROVE MapInv'
    OBVIOUS
<1> DEFINE ptr == free_list[cur].end
           size == Used(cur)
           m == Put(cur_slot, ptr, size)
<1>0. guest_size \in GuestSizes /\ free_list \in FreeLists(guest_size) /\ pc = "loop"
      /\ cur < Len(free_list)
    BY DEF MapInv, Between
<1>1. /\ Constants(guest_size) /\ cur \in 1 .. Len(free_list) /\ cur + 1 \in 1 .. Len(free_list)
      /\ cur \in 1 .. Len(free_list) - 1 /\ Len(free_list) \in Nat
    BY Facts, <1>0 DEF Constants
<1>2. /\ size \in Nat /\ size > 0 /\ ptr + size = free_list[cur + 1].start /\ ptr \in Nat
      /\ free_list[cur].start < ptr /\ free_list[cur].start \in Nat
      /\ free_list[cur + 1].start \in Nat
  <2>1. ptr < free_list[cur + 1].start /\ free_list[cur].start < ptr
      BY <1>1, Facts
  <2>2. ptr \in Nat /\ free_list[cur].start \in Nat /\ free_list[cur + 1].start \in Nat
      BY <1>1, Facts
  <2> HIDE DEF ptr
  <2>3. size = free_list[cur + 1].start - ptr
      BY DEF Used, ptr
  <2> HIDE DEF size
  <2> QED BY <2>1, <2>2, <2>3
<1>3. Whole(ptr, size)
  <2>1. ptr <= GapStart \/ free_list[cur].start >= GapEnd
      BY <1>1, Facts
  <2>2. free_list[cur + 1].end <= GapStart \/ free_list[cur + 1].start >= GapEnd
      BY <1>1, Facts
  <2>3. free_list[cur + 1].start < free_list[cur + 1].end /\ free_list[cur + 1].end \in Nat
      BY <1>1, Facts
  <2> HIDE DEF ptr, size
  <2>4. GapStart \in Nat /\ GapEnd \in Nat
      BY <1>1 DEF Constants
  <2> QED BY <1>2, <2>1, <2>2, <2>3, <2>4 DEF Whole
<1>4. /\ chunks' = m.chunks /\ cur_slot' = m.slot + 1 /\ count' = m.count /\ pc' = "loop"
      /\ UNCHANGED <<guest_size, free_list>> /\ cur' = cur + 1
    BY <1>0 DEF Between
<1>5. m = WithoutGap([chunks |-> Write(chunks, cur_slot, ptr, size), slot |-> cur_slot,
                      count |-> count])
    BY <1>0 DEF Put
<1> HIDE DEF m, size, ptr
<1>6. /\ Array(chunks, cur_slot) /\ cur_slot \in Nat /\ cur_slot > 0
      /\ cur_slot \in {cur - 1, cur, cur + 1}
      /\ count = Len(free_list) + (cur_slot - cur) /\ count \in Int
      /\ cur_slot # cur => GapEnd <= ptr
      /\ HeldIn(chunks, cur_slot) = Allocated(free_list[cur].start)
    BY <1>0, <1>1, <1>2, LoopFacts DEF Constants
<1>7. Checked(chunks, cur_slot, ptr, size, count, m)
    BY <1>0, <1>2, <1>3, <1>5, <1>6, GapChecked
<1>8. Allocated(free_list[cur + 1].start) =
         HeldIn(chunks, cur_slot) \cup ((ptr .. ptr + size - 1) \ Gap)
  <2>1. ptr <= free_list[cur + 1].start
      BY <1>2
  <2>2. Allocated(free_list[cur + 1].start) =
           Allocated(free_list[cur].start) \cup ((ptr .. free_list[cur + 1].start - 1) \ Gap)
      BY <1>0, <1>1, <1>2, <2>1, AllocatedNext DEF ptr
  <2>3. HeldIn(chunks, cur_slot) = Allocated(free_list[cur].start)
        /\ ptr + size - 1 = free_list[cur + 1].start - 1
    <3>1. HeldIn(chunks, cur_slot) = Allocated(free_list[cur].start)
        BY <1>6
    <3>2. ptr + size - 1 = free_list[cur + 1].start - 1
        BY <1>2
    <3> QED BY <3>1, <3>2
  <2> QED BY <2>2, <2>3, Zenon
<1>9. m.slot \in Nat
  <2>1. m.slot \in {cur_slot - 1, cur_slot, cur_slot + 1}
      BY <1>7 DEF Checked
  <2>2. cur_slot \in Nat /\ cur_slot > 0
      BY <1>6
  <2> QED BY <2>1, <2>2
<1> DEFINE c == cur + 1
<1>10. /\ cur_slot \in {c - 2, c - 1, c} /\ count = Len(free_list) + (cur_slot - (c - 1))
       /\ cur_slot # c - 1 => GapEnd <= ptr
       /\ ptr + size <= free_list[c].start /\ c \in 1 .. Len(free_list) /\ cur' = c
       /\ Allocated(free_list[c].start) =
             HeldIn(chunks, cur_slot) \cup ((ptr .. ptr + size - 1) \ Gap)
  <2>1. c - 1 = cur /\ c - 2 = cur - 1
      BY <1>1
  <2>2. ptr + size <= free_list[c].start
      BY <1>2
  <2> QED BY <1>1, <1>4, <1>6, <1>8, <2>1, <2>2
<1> HIDE DEF c
<1>11. /\ Array(chunks, cur_slot) /\ cur_slot \in Nat /\ count \in Int
       /\ size \in Nat /\ size > 0 /\ ptr \in Nat
    BY <1>2, <1>6
<1>12. AddsUp(cur_slot, ptr, size, c)
    BY <1>10 DEF AddsUp
<1>13. /\ cur_slot \in {c - 2, c - 1, c} /\ count = Len(free_list) + (cur_slot - (c - 1))
       /\ cur_slot # c - 1 => GapEnd <= ptr
       /\ ptr + size <= free_list[c].start /\ c \in 1 .. Len(free_list) /\ cur' = c
    BY <1>10
<1> QED BY <1>0, <1>4, <1>7, <1>9, <1>11, <1>12, <1>13, Iteration

LEMMA BehindKeeps ==
    MapInv /\ Behind => MapInv'
<1> SUFFICES ASSUME MapInv, Behind PROVE MapInv'
    OBVIOUS
<1> DEFINE last == free_list[cur]
           size == guest_size - last.end
           m == Put(cur_slot, last.end, size)
<1>0. /\ guest_size \in GuestSizes /\ free_list \in FreeLists(guest_size) /\ pc = "loop"
      /\ cur = Len(free_list) /\ pc' = "done"
      /\ UNCHANGED <<guest_size, free_list, cur>> /\ TypeOK /\ CoversAllocated
    BY DEF MapInv, Behind
<1>1. /\ Constants(guest_size) /\ cur \in 1 .. Len(free_list) /\ Len(free_list) \in Nat
      /\ Len(free_list) <= MaxRegions /\ MaxRegions \in Nat
      /\ last.start \in Nat /\ last.end \in Nat /\ last.start < last.end
      /\ last.end <= guest_size /\ (last.end <= GapStart \/ last.start >= GapEnd)
    BY Facts DEF Constants
<1>2. /\ Array(chunks, cur_slot) /\ cur_slot \in Nat /\ cur_slot > 0
      /\ cur_slot \in {cur - 1, cur, cur + 1}
      /\ count = Len(free_list) + (cur_slot - cur)
      /\ cur_slot # cur => GapEnd <= last.start
      /\ HeldIn(chunks, cur_slot) = Allocated(last.start)
    BY <1>0, LoopFacts
<1>3. /\ GapStart \in Nat /\ GapEnd \in Nat /\ guest_size \in Nat /\ GapStart < GapEnd
      /\ guest_size < GapStart \/ guest_size > GapEnd
    BY <1>1 DEF Constants
<1> HIDE DEF last
<1>4. count = cur_slot /\ count \in Int
    BY <1>0, <1>1, <1>2
<1>5. Allocated(last.end) = Allocated(last.start)
  <2>1. Allocated(last.end) = Allocated(last.start) \cup ((last.end .. last.end - 1) \ Gap)
      BY <1>0, <1>1, AllocatedNext DEF last
  <2> QED BY <1>1, <2>1
<1>6. Allocated(guest_size) = Allocated(last.start) \cup ((last.end .. guest_size - 1) \ Gap)
    BY <1>0, <1>1, <1>3, AllocatedNext DEF last
<1>7. SUFFICES /\ \A i \in DOMAIN chunks' : /\ i < Len(free_list) + 2 /\ chunks'[i].size > 0
                                            /\ chunks'[i].ptr \in Nat /\ chunks'[i].size \in Nat
               /\ cur_slot' \in 0 .. Len(free_list) + 1 /\ count' \in Nat
               /\ Allocated(last.start) \subseteq HeldIn(chunks', count')
               /\ HeldIn(chunks', count') \subseteq Allocated(guest_size)
  <2>1. /\ Transferred' = HeldIn(chunks', count')
        /\ Allocated(free_list[Len(free_list)].end)' = Allocated(last.end)
        /\ Allocated(guest_size)' = Allocated(guest_size)
      BY <1>0 DEF Transferred, Held, HeldIn, Allocated, last
  <2>2. CoversAllocated'
      BY <1>0, <1>5, <1>7, <2>1 DEF CoversAllocated, CntMax
  <2>3. TypeOK'
      BY <1>0, <1>1, <1>7 DEF TypeOK
  <2> QED BY <1>0, <2>2, <2>3 DEF MapInv
<1>8. CASE guest_size = last.end
  <2>1. chunks' = chunks /\ cur_slot' = cur_slot /\ count' = count
      BY <1>8 DEF Behind, last
  <2>2. \A i \in DOMAIN chunks : i < Len(free_list) + 2
      BY <1>0 DEF CoversAllocated, CntMax
  <2>3. Allocated(last.start) \subseteq Allocated(guest_size)
      BY <1>6
  <2>4. cur_slot \in 0 .. Len(free_list) + 1 /\ count \in Nat
      BY <1>0, <1>1, <1>2, <1>4
  <2>5. \A i \in DOMAIN chunks : /\ chunks[i].size > 0 /\ chunks[i].ptr \in Nat
                                  /\ chunks[i].size \in Nat
      BY <1>2 DEF Array
  <2> QED BY <1>2, <1>4, <2>1, <2>2, <2>3, <2>4, <2>5
<1>9. CASE guest_size # last.end
  <2>1. chunks' = m.chunks /\ cur_slot' = m.slot /\ count' = m.count
      BY <1>9 DEF Behind, last
  <2>2. m = WithoutGap([chunks |-> Write(chunks, cur_slot, last.end, size), slot |-> cur_slot,
                        count |-> count])
      BY <1>0 DEF Put
  <2>3. size \in Nat /\ size > 0 /\ last.end + size = guest_size
      BY <1>1, <1>3, <1>9
  <2> HIDE DEF m, size
  <2>4. Whole(last.end, size)
      BY <1>1, <1>3, <2>3 DEF Whole
  <2>5. Checked(chunks, cur_slot, last.end, size, count, m)
      BY <1>0, <1>1, <1>2, <1>4, <2>2, <2>3, <2>4, GapChecked
  <2>6. m.slot \in {cur_slot, cur_slot + 1} /\ m.count = m.slot
    <3>1. /\ m.slot \in {cur_slot - 1, cur_slot, cur_slot + 1}
          /\ m.count = count + (m.slot - cur_slot)
          /\ m.slot < cur_slot => last.end = GapStart /\ last.end + size = GapEnd
        BY <2>5 DEF Checked
    <3> QED BY <1>2, <1>3, <1>4, <2>3, <3>1
  <2>7. cur_slot # cur => m.slot = cur_slot
    <3>1. m.slot # cur_slot => last.end <= GapStart
        BY <2>5 DEF Checked
    <3> QED BY <1>1, <1>2, <1>3, <3>1
  <2>8. m.slot \in 0 .. Len(free_list) + 1
      BY <1>0, <1>1, <1>2, <2>6, <2>7
  <2>9. \A i \in DOMAIN m.chunks : /\ i < Len(free_list) + 2 /\ m.chunks[i].size > 0
                                   /\ m.chunks[i].ptr \in Nat /\ m.chunks[i].size \in Nat
    <3>1. DOMAIN m.chunks \subseteq 0 .. m.slot /\ Array(m.chunks, m.slot + 1)
        BY <1>2, <2>5, <2>6 DEF Checked
    <3>2. \A i \in 0 .. m.slot : i < Len(free_list) + 2
        BY <1>1, <2>8
    <3> QED BY <3>1, <3>2 DEF Array
  <2>10. /\ HeldIn(m.chunks, m.slot + 1) = Allocated(guest_size)
         /\ HeldIn(m.chunks, cur_slot) = Allocated(last.start)
    <3>1. /\ HeldIn(m.chunks, m.slot + 1) =
                HeldIn(chunks, cur_slot) \cup ((last.end .. last.end + size - 1) \ Gap)
          /\ m.slot >= cur_slot => HeldIn(m.chunks, cur_slot) = HeldIn(chunks, cur_slot)
      <4>1. /\ Array(chunks, cur_slot) /\ cur_slot \in Nat /\ last.end \in Nat
            /\ size \in Nat /\ count \in Int /\ GapStart \in Nat /\ GapEnd \in Nat
          BY <1>1, <1>2, <1>3, <1>4, <2>3
      <4>2. Gained(chunks, cur_slot, last.end, size, m)
          BY <2>5, <4>1, CheckedHeld
      <4> QED BY <4>2 DEF Gained
    <3>2. m.slot >= cur_slot
        BY <1>2, <2>6
    <3>3. last.end + size - 1 = guest_size - 1
        BY <1>1, <1>3, <2>3
    <3> QED BY <1>2, <1>6, <3>1, <3>2, <3>3, Zenon
  <2>11. HeldIn(m.chunks, cur_slot) \subseteq HeldIn(m.chunks, m.slot)
      BY <1>2, <2>6 DEF HeldIn
  <2>12. HeldIn(m.chunks, m.slot) \subseteq HeldIn(m.chunks, m.slot + 1)
      BY <1>2, <2>6 DEF HeldIn
  <2> QED BY <2>1, <2>6, <2>8, <2>9, <2>10, <2>11, <2>12
<1> QED BY <1>8, <1>9

LEMMA NextKeeps ==
    MapInv /\ [Next]_vars => MapInv'
<1> SUFFICES ASSUME MapInv, [Next]_vars PROVE MapInv'
    OBVIOUS
<1>1. CASE UNCHANGED vars
    BY <1>1 DEF vars, MapInv, TypeOK, CoversAllocated, LoopInv, CntMax, Held, Transferred,
                Allocated
<1> QED BY <1>1, FirstKeeps, BetweenKeeps, BehindKeeps DEF Next

\* The chunks a cold migration transfers are the memory in use up to the last free
\* region, without the I/O gap, whatever free list the guest has, and they are
\* written within the array allocated for them.
THEOREM ChunksCoverAllocated ==
    Spec => []CoversAllocated
<1>1. MapInv => CoversAllocated
    BY DEF MapInv
<1> QED BY <1>1, InitMap, NextKeeps, PTL DEF Spec

\* No chunk of determine_mem_mappings has a size that wrapped around.
THEOREM MemMappingsTypeCorrect ==
    Spec => []TypeOK
<1>1. MapInv => TypeOK
    BY DEF MapInv
<1> QED BY <1>1, InitMap, NextKeeps, PTL DEF Spec
=============================================================================
