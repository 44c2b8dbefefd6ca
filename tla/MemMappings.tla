---------------------------- MODULE MemMappings ----------------------------
(***************************************************************************)
(* determine_mem_mappings: from the guest's list of free regions to the    *)
(* chunks of memory a cold migration transfers, leaving out the I/O gap.   *)
(* One step per iteration of its loop.  Addresses count pages.             *)
(***************************************************************************)
EXTENDS GuestMemory, Sequences

CONSTANTS
    Base,           \* 0x800000, where the kernel starts
    GuestSizes,     \* values of guest_size, the gap included
    MaxRegions      \* bound on the length of the free list

ASSUME MemMappingsAssumption ==
    /\ Base \in 1 .. GapStart - 1
    /\ GuestSizes \subseteq Nat
    /\ \A s \in GuestSizes : s \in Base + 1 .. GapStart - 1 \/ s > GapEnd
    /\ MaxRegions \in Nat \ {0}

VARIABLES
    guest_size,
    free_list,      \* the guest's free regions, in ascending order
    chunks,         \* mem_mappings.mem_chunks: the slots written so far
    count,          \* mem_mappings.count
    cur_slot,
    cur,            \* position in the free list
    pc

vars == <<guest_size, free_list, chunks, count, cur_slot, cur, pc>>

Gap == GapStart .. GapEnd - 1
Extent(r) == r.start .. r.end - 1

\* The guest (external) keeps its free regions sorted and disjoint, above the
\* kernel and outside of the gap.
FreeLists(size) ==
    LET Regions == {r \in [start : Base + 1 .. size - 1, end : Base + 2 .. size] :
                       r.start < r.end /\ Extent(r) \cap Gap = {}}
    IN  {l \in UNION {[1 .. n -> Regions] : n \in 1 .. MaxRegions} :
            \A i \in 1 .. Len(l) - 1 : l[i].end < l[i + 1].start}

-----------------------------------------------------------------------------

\* mem_mappings_cnt_max: "alloc is possible one element longer", "the IO_GAP
\* might result in an additional element".
CntMax == Len(free_list) + 2

\* The array with a chunk written to a slot.
Write(array, slot, ptr, size) ==
    [i \in DOMAIN array \cup {slot} |->
        IF i = slot THEN [ptr |-> ptr, size |-> size] ELSE array[i]]

\* Mutant of WithoutGap: the start pointer is not moved.
WithoutGapSameStart(m) ==
    LET c == m.chunks[m.slot]
        end == c.ptr + c.size
        Resized(ptr, size) == [m EXCEPT !.chunks = Write(@, m.slot, ptr, size)]
    IN  CASE c.ptr = GapStart /\ end = GapEnd ->
                [chunks |-> m.chunks, slot |-> m.slot - 1, count |-> m.count - 1]
          [] c.ptr # GapStart /\ end = GapEnd -> Resized(c.ptr, c.size - GapSize)
          [] c.ptr = GapStart /\ end # GapEnd -> Resized(c.ptr, c.size - GapSize)
          [] c.ptr < GapStart /\ end > GapEnd ->
                [slot |-> m.slot + 1, count |-> m.count + 1,
                 chunks |-> Write(Write(m.chunks, m.slot, c.ptr, GapStart - c.ptr),
                                  m.slot + 1, GapEnd, end - GapEnd)]
          [] OTHER -> m

\* check_for_io_gap on the chunk in the current slot of m: a chunk that is the
\* gap is dropped, one that begins or ends with the gap shrinks, one that spans
\* it is split.
WithoutGap(m) ==
    LET c == m.chunks[m.slot]
        end == c.ptr + c.size
        Resized(ptr, size) == [m EXCEPT !.chunks = Write(@, m.slot, ptr, size)]
    IN  CASE c.ptr = GapStart /\ end = GapEnd ->
                [chunks |-> m.chunks, slot |-> m.slot - 1, count |-> m.count - 1]
          [] c.ptr # GapStart /\ end = GapEnd -> Resized(c.ptr, c.size - GapSize)
          [] c.ptr = GapStart /\ end # GapEnd ->
                Resized(c.ptr + GapSize, c.size - GapSize)
          [] c.ptr < GapStart /\ end > GapEnd ->
                [slot |-> m.slot + 1, count |-> m.count + 1,
                 chunks |-> Write(Write(m.chunks, m.slot, c.ptr, GapStart - c.ptr),
                                  m.slot + 1, GapEnd, end - GapEnd)]
          [] OTHER -> m

\* mem_chunks with a chunk written to a slot and checked for the gap.
Put(slot, ptr, size) ==
    WithoutGap([chunks |-> Write(chunks, slot, ptr, size), slot |-> slot,
                count |-> IF pc = "first" THEN CntMax - 2 ELSE count])

Init ==
    /\ guest_size \in GuestSizes
    /\ free_list \in FreeLists(guest_size)
    /\ chunks = <<>> /\ count = 0 /\ cur_slot = 0 /\ cur = 1 /\ pc = "first"

\* "allocation prior to first free region"; then the loop's ++cur_slot.
First ==
    /\ pc = "first"
    /\ LET m == Put(0, Base, free_list[1].start - Base)
       IN  chunks' = m.chunks /\ cur_slot' = m.slot + 1 /\ count' = m.count
    /\ pc' = "loop"
    /\ UNCHANGED <<guest_size, free_list, cur>>

\* The memory in use between a free region and the next.
Used(i) == free_list[i + 1].start - free_list[i].end

\* One iteration: the memory between a free region and the next.
Between ==
    /\ pc = "loop" /\ cur < Len(free_list)
    /\ LET m == Put(cur_slot, free_list[cur].end, Used(cur))
       IN  chunks' = m.chunks /\ cur_slot' = m.slot + 1 /\ count' = m.count
    /\ cur' = cur + 1
    /\ UNCHANGED <<guest_size, free_list, pc>>

\* "allocation behind last free region"; count stays as it is.
Behind ==
    /\ pc = "loop" /\ cur = Len(free_list)
    /\ IF guest_size # free_list[cur].end
       THEN LET m == Put(cur_slot, free_list[cur].end,
                         guest_size - free_list[cur].end)
            IN  chunks' = m.chunks /\ cur_slot' = m.slot /\ count' = m.count
       ELSE UNCHANGED <<chunks, cur_slot, count>>
    /\ pc' = "done"
    /\ UNCHANGED <<guest_size, free_list, cur>>

Next == First \/ Between \/ Behind

Spec == Init /\ [][Next]_vars

-----------------------------------------------------------------------------
(* Properties. *)

\* Type correctness: no chunk has a wrapped-around size.
TypeOK ==
    /\ \A i \in DOMAIN chunks : chunks[i].ptr \in Nat /\ chunks[i].size \in Nat
    /\ count \in Nat /\ cur_slot \in 0 .. MaxRegions + 2
    /\ cur \in 1 .. Len(free_list)

\* The pages of the first n chunks, and of those that are transferred.
Held(n) ==
    UNION {chunks[i].ptr .. chunks[i].ptr + chunks[i].size - 1 : i \in 0 .. n - 1}
Transferred == Held(count)

\* The pages in use below a limit: everything above the base but the free
\* regions and the gap.
Allocated(limit) ==
    (Base .. limit - 1) \ (Gap \cup UNION {Extent(free_list[i]) :
                                              i \in DOMAIN free_list})

\* The chunks hold all the memory in use up to the last free region, and neither
\* a free page nor a page of the gap, which is not mapped; and the array allocated
\* from the length of the free list ("the IO_GAP might result in an additional
\* element") is never written past its end, nor with an empty chunk.  (The chunk behind the last free
\* region is written and not counted, so what it holds is not transferred.)
CoversAllocated ==
    /\ \A i \in DOMAIN chunks : i < CntMax /\ chunks[i].size > 0
    /\ pc = "done" =>
          /\ Allocated(free_list[Len(free_list)].end) \subseteq Transferred
          /\ Transferred \subseteq Allocated(guest_size)

\* The inductive invariant behind it, after each iteration: the chunks before the
\* current slot are the memory in use below the current free region.  A chunk was
\* split or dropped, and count is not the length of the list any more, only if
\* the gap lies behind.
LoopInv ==
    LET split == cur_slot - cur
    IN  /\ count = Len(free_list) + split /\ split \in {-1, 0, 1} /\ cur_slot > 0
        /\ split # 0 => GapEnd <= free_list[cur].start
        /\ 0 .. cur_slot - 1 \subseteq DOMAIN chunks /\ DOMAIN chunks \subseteq 0 .. cur_slot
        /\ Held(cur_slot) = Allocated(free_list[cur].start)

MapInv ==
    /\ TypeOK /\ CoversAllocated
    /\ guest_size \in GuestSizes /\ free_list \in FreeLists(guest_size)
    /\ pc \in {"first", "loop", "done"}
    /\ pc = "first" => DOMAIN chunks = {} /\ cur = 1
    /\ pc = "loop" => LoopInv
=============================================================================
