-------------------------- MODULE UsbDeviceProofs --------------------------
(***************************************************************************)
(* An answer of the default control pipe finds the request it is for, one  *)
(* report at a time is asked for and each is notified once, and the blocks *)
(* of the memory pool are placed as the hardware needs them: for every     *)
(* configuration descriptor, ring and table of the sizes assumed.          *)
(***************************************************************************)
EXTENDS UsbDevice, FiniteSetTheorems, WellFoundedInduction, TLAPS

-----------------------------------------------------------------------------
(* The inductive invariant.                                                *)

Fields ==
  {"initialize_phase", "is_initialized", "buf", "ep_configs", "class_drivers", "class_driver",
   "event_waiters", "setup_stage_map", "trbs", "write_index", "hid_phase", "ep_interrupt_in",
   "rings", "hid_buf", "previous_buf"}
Device(d) == d = [f \in Fields |-> d[f]]

EventTRB ==
  [type : {"transfer"}, pointer : 0 .. RingSize - 2, ok : BOOLEAN]
    \cup [type : {"report"}, ok : BOOLEAN] \cup {ConfigureCompletion}

Typed ==
  /\ Device(dev)
  /\ events \in Seq(EventTRB)
  /\ conf \in Configurations
  /\ at \in {"events", "rings", "drivers"}

\* Where the device, the port, the class driver and the loop of the main task
\* stand.
PhaseInv ==
  /\ dev.initialize_phase \in 0 .. 4
  /\ port \in {"kAddressingDevice", "kInitializingDevice", "kConfiguringEndpoints",
               "kConfigured"}
  /\ port = "kAddressingDevice" <=> dev.initialize_phase = 0
  /\ port \in {"kConfiguringEndpoints", "kConfigured"} => dev.initialize_phase = 4
  /\ at = "rings" => dev.initialize_phase = 4 /\ port = "kInitializingDevice"
  /\ at = "drivers" => port = "kConfigured"
  /\ dev.initialize_phase >= 3 =>
       /\ Supported(conf) # {}
       /\ dev.ep_configs = EndpointConfigs(conf)
       /\ dev.class_drivers = EndpointNumbers(EndpointConfigs(conf))

OfType(es, type) == {i \in DOMAIN es : es[i].type = type}
None(es, type) == OfType(es, type) = {}
AtMostOne(es, type) == \A i, j \in OfType(es, type) : i = j

\* The Configure Endpoint Command is completed once.
CommandInv ==
  /\ None(events, "command") \/ port = "kConfiguringEndpoints"
  /\ AtMostOne(events, "command")

\* The class driver asks when SetProtocol is answered, and again when a report
\* has come.
ReportInv ==
  /\ dev.hid_phase \in 0 .. 2
  /\ dev.hid_phase # 0 => port = "kConfigured"
  /\ dev.hid_phase = 2 => at = "events"
  /\ asked \in {0, 1}
  /\ asked = 1 => None(events, "report")
  /\ AtMostOne(events, "report")
  /\ dev.hid_phase # 2 => asked = 0 /\ None(events, "report")

\* Between two reports the driver has kept the last one.
ReportCame(es) == \E i \in OfType(es, "report") : es[i].ok = TRUE
NotifyInv ==
  /\ dev.hid_buf = sent
  /\ IF ReportCame(events) THEN owed = Notified(dev)
     ELSE owed = {} /\ dev.previous_buf = sent

\* The place k after b, and what k requests take: one with a data stage, or
\* any number without.
Place(b, k) == IF b + k < RingSize - 1 THEN b + k ELSE b + k - (RingSize - 1)
Length(k, long) == IF long THEN 3 * k ELSE 2 * k

Buffer(trbs) == trbs = [i \in 0 .. RingSize - 2 |-> trbs[i]]
Used(table) == {i \in DOMAIN table : table[i].used = TRUE}
Has(table, key) == \E i \in Used(table) : table[i].key = key
Table(table) ==
  table = [i \in 1 .. MapSize |-> [used |-> table[i].used, key |-> table[i].key,
                                   value |-> table[i].value]]
    /\ \A i \in 1 .. MapSize : table[i].used \in BOOLEAN

\* The ring from b on: m requests, of which the controller has done x.
Span(write, read, b, m, x, long) ==
  /\ b \in 0 .. RingSize - 2 /\ m \in Nat /\ x \in 0 .. m /\ long \in BOOLEAN
  /\ Length(m, long) < RingSize - 1 /\ (long => m <= 1)
  /\ write = Place(b, Length(m, long))
  /\ read = Place(b, Length(x, long))
Stages(trbs, b, m, long) ==
  \A j \in 0 .. m - 1 : /\ trbs[Place(b, 2 * j)].type = "setup"
                        /\ HasDataStage(trbs[Place(b, 2 * j)].setup) <=> long

\* The table has entries of these requests only: of those the controller has
\* still to do, and of those whose event has still to be handled.
Entries(table, b, m) ==
  /\ \A i \in Used(table) :
       /\ i <= m
       /\ \E j \in 0 .. m - 1 : /\ table[i].key = Place(b, 2 * j + 1)
                                /\ table[i].value = Place(b, 2 * j)
  /\ \A i, k \in Used(table) : table[i].key = table[k].key => i = k
Pending(table, b, m, x) == \A j \in x .. m - 1 : Has(table, Place(b, 2 * j + 1))
Transfers(es) == OfType(es, "transfer")
IsAnswer(pointer, b, x) == \E j \in 0 .. x - 1 : pointer = Place(b, 2 * j + 1)
Answers(table, es, b, x) ==
  /\ \A e \in Transfers(es) : IsAnswer(es[e].pointer, b, x) /\ Has(table, es[e].pointer)
  /\ \A e, f \in Transfers(es) : es[e].pointer = es[f].pointer => e = f

Requests(trbs, table, write, read, es, b, m, x, long) ==
  /\ Span(write, read, b, m, x, long) /\ Stages(trbs, b, m, long)
  /\ Entries(table, b, m) /\ Pending(table, b, m, x) /\ Answers(table, es, b, x)

\* One request at a time until the device is configured, none while its
\* endpoints are; then one for each endpoint number.
Few(d, read, es, n) ==
  \E b \in 0 .. RingSize - 2, m \in Nat, x \in Nat, long \in BOOLEAN :
    /\ Requests(d.trbs, d.setup_stage_map, d.write_index, read, es, b, m, x, long)
    /\ m <= n
Short(d, read, es, n) ==
  \E b \in 0 .. RingSize - 2, m \in Nat, x \in Nat, long \in BOOLEAN :
    /\ Requests(d.trbs, d.setup_stage_map, d.write_index, read, es, b, m, x, long)
    /\ m <= n /\ ~long

Drivers == Cardinality(EndpointNumbers(EndpointConfigs(conf)))
Called == Drivers - (IF at = "drivers" THEN Cardinality(left) ELSE 0)
RequestInv ==
  /\ Buffer(dev.trbs) /\ Table(dev.setup_stage_map)
  /\ IF port = "kConfigured" THEN Short(dev, dequeue, events, Called)
     ELSE Few(dev, dequeue, events, IF dev.initialize_phase \in 1 .. 3 THEN 1 ELSE 0)

\* What is left of the pool is enough for what is still to be allocated.
PoolEnd == PoolStart + kMemoryPoolSize
Rest ==
  IF dev.initialize_phase <= 2
  THEN kMemoryPoolSize - Sizes.alignment
  ELSE IF dev.initialize_phase = 3 THEN Len(EndpointConfigs(conf)) * RingSpace
       ELSE IF at = "rings" THEN Cardinality(left) * RingSpace ELSE 0
Block == [start : Nat, size : Nat, alignment : Nat, boundary : Nat]
Placed(b) ==
  /\ b.start >= PoolStart /\ b.start + b.size <= PoolEnd
  /\ b.alignment > 0 => b.start % b.alignment = 0
  /\ b.boundary > 0 => b.start \div b.boundary = (b.start + b.size - 1) \div b.boundary
Apart(b, c) == c.start >= b.start + b.size \/ b.start >= c.start + c.size
Sound(ptr, bs) ==
  /\ ptr \in Nat /\ ptr >= PoolStart
  /\ bs \subseteq Block
  /\ \A b \in bs : Placed(b) /\ b.start + b.size <= ptr
  /\ \A b, c \in bs : b # c => Apart(b, c)
PoolInv == Sound(alloc_ptr, blocks) /\ alloc_ptr + Rest <= PoolEnd

LoopInv == left \in SUBSET Nat /\ IsFiniteSet(left)

IInv ==
  Typed /\ PhaseInv /\ CommandInv /\ ReportInv /\ NotifyInv /\ RequestInv /\ PoolInv /\ LoopInv
-----------------------------------------------------------------------------
(* The memory pool.                                                        *)

\* Quotient and remainder.
LEMMA DivMod ==
  ASSUME NEW x \in Nat, NEW a \in Nat \ {0}
  PROVE  x \div a \in Nat /\ x % a \in 0 .. a - 1 /\ x = a * (x \div a) + (x % a)
<1> DEFINE q == x \div a
           r == x % a
<1>1. q \in Int /\ r \in 0 .. a - 1 /\ x = a * q + r
  OBVIOUS
<1>2. q >= 0
  OBVIOUS
<1> HIDE DEF q, r
<1>3. q \in Nat
  BY <1>1, <1>2
<1> QED BY <1>1, <1>3 DEF q, r

\* A number between two multiples, the quotient named.
LEMMA DivBetween ==
  ASSUME NEW x \in Nat, NEW a \in Nat \ {0}, NEW k \in Int, k * a <= x, x < k * a + a
  PROVE  x \div a = k
<1> DEFINE q == x \div a
           r == x % a
<1>1. q \in Int /\ r \in 0 .. a - 1 /\ x = a * q + r
  BY DivMod
<1> HIDE DEF q, r
<1>2. ~(q <= k - 1)
  <2> SUFFICES ASSUME q <= k - 1 PROVE FALSE
    OBVIOUS
  <2>1. a * q <= a * (k - 1)
    BY <1>1
  <2>2. a * (k - 1) = k * a - a
    OBVIOUS
  <2>3. a * q \in Int /\ k * a \in Int
    BY <1>1
  <2> QED BY <1>1, <2>1, <2>2, <2>3
<1>3. ~(q >= k + 1)
  <2> SUFFICES ASSUME q >= k + 1 PROVE FALSE
    OBVIOUS
  <2>1. a * (k + 1) <= a * q
    BY <1>1
  <2>2. a * (k + 1) = k * a + a
    OBVIOUS
  <2>3. a * q \in Int /\ k * a \in Int
    BY <1>1
  <2> QED BY <1>1, <2>1, <2>2, <2>3
<1>4. q = k
  BY <1>1, <1>2, <1>3
<1> QED BY <1>4 DEF q

\* A multiple leaves no remainder.
LEMMA ModMultiple ==
  ASSUME NEW a \in Nat \ {0}, NEW k \in Nat
  PROVE  (k * a) % a = 0
<1>1. k * a \in Nat
  OBVIOUS
<1>2. (k * a) \div a = k
  BY <1>1, DivBetween
<1> DEFINE x == k * a
           r == x % a
<1>3. x \in Nat /\ x \div a = k
  BY <1>1, <1>2
<1> HIDE DEF x
<1>4. r \in 0 .. a - 1 /\ x = a * k + r
  BY <1>3, DivMod
<1>5. x = k * a
  BY DEF x
<1> HIDE DEF r
<1>6. r = 0
  BY <1>3, <1>4, <1>5
<1> QED BY <1>6 DEF r, x

\* Ceil: the next multiple.
LEMMA CeilNext ==
  ASSUME NEW v \in Nat, NEW a \in Nat \ {0}
  PROVE  \E k \in Nat : /\ Ceil(v, a) = k * a
                        /\ v <= k * a /\ k * a <= v + a - 1
<1> DEFINE w == v + a - 1
           k == w \div a
           r == w % a
<1>1. w \in Nat /\ k \in Nat /\ r \in 0 .. a - 1 /\ w = a * k + r
  <2>1. w \in Nat
    OBVIOUS
  <2> HIDE DEF w
  <2> QED BY <2>1, DivMod
<1>2. Ceil(v, a) = k * a
  BY DEF Ceil
<1>3. w = v + a - 1
  OBVIOUS
<1> HIDE DEF w, k, r
<1>4. a * k = k * a /\ k * a \in Int
  BY <1>1
<1>5. v <= k * a /\ k * a <= v + a - 1
  <2> DEFINE y == k * a
  <2>1. y \in Int /\ w = y + r
    BY <1>1, <1>4
  <2> HIDE DEF y
  <2>2. v <= y /\ y <= v + a - 1
    BY <2>1, <1>1, <1>3
  <2> QED BY <2>2 DEF y
<1> QED BY <1>1, <1>2, <1>5
Allocated(a, ptr, size, alignment, boundary) ==
  \E start \in Nat :
    /\ a = [start |-> start, ptr |-> start + size]
    /\ ptr <= start /\ start + size <= ptr + (alignment + 2 * size - 2)
    /\ start % alignment = 0
    /\ start \div boundary = (start + size - 1) \div boundary

\* AllocMem with room enough: where the block begins, and that it is aligned
\* and does not cross a boundary, which has to be a multiple of the alignment.
LEMMA AllocPlaced ==
  ASSUME NEW ptr \in Nat, NEW size \in Nat \ {0}, NEW alignment \in Nat \ {0},
         NEW boundary \in Nat \ {0}, size <= boundary, boundary % alignment = 0,
         ptr + (alignment + 2 * size - 2) <= PoolEnd
  PROVE  Allocated(AllocMem(ptr, size, alignment, boundary), ptr, size, alignment, boundary)
<1>1. PICK k \in Nat : /\ Ceil(ptr, alignment) = k * alignment
                       /\ ptr <= k * alignment /\ k * alignment <= ptr + alignment - 1
  BY CeilNext
<1> DEFINE aligned == k * alignment
<1>2. aligned \in Nat /\ aligned % alignment = 0
  BY ModMultiple
<1>3. PICK q \in Nat : /\ Ceil(aligned, boundary) = q * boundary
                       /\ aligned <= q * boundary /\ q * boundary <= aligned + boundary - 1
  <2> HIDE DEF aligned
  <2> QED BY <1>2, CeilNext
<1> DEFINE next == q * boundary
           start == IF next < aligned + size THEN next ELSE aligned
<1>4. next \in Nat
  OBVIOUS
<1>5. AllocMem(ptr, size, alignment, boundary) =
        IF PoolStart + kMemoryPoolSize < start + size
        THEN [start |-> NoBlock, ptr |-> start]
        ELSE [start |-> start, ptr |-> start + size]
  <2>1. alignment > 0 /\ boundary > 0
    OBVIOUS
  <2>2. Ceil(ptr, alignment) = aligned /\ Ceil(aligned, boundary) = next
    BY <1>1, <1>3
  <2> HIDE DEF aligned, next
  <2> QED BY <2>1, <2>2 DEF AllocMem
<1>6. /\ ptr <= aligned /\ aligned <= ptr + alignment - 1
      /\ aligned <= next /\ next <= aligned + boundary - 1
  BY <1>1, <1>3
<1>7. next % alignment = 0
  <2> DEFINE n == boundary \div alignment
  <2>1. n \in Nat /\ boundary = alignment * n + (boundary % alignment)
    BY DivMod
  <2> HIDE DEF n
  <2>2. boundary = alignment * n
    BY <2>1
  <2>3. next = q * (alignment * n)
    BY <2>2
  <2>4. q * (alignment * n) = (q * n) * alignment
    BY <2>1
  <2>5. q * n \in Nat
    BY <2>1
  <2> HIDE DEF next
  <2> QED BY <2>3, <2>4, <2>5, ModMultiple
<1>8. next \div boundary = q /\ (next + size - 1) \div boundary = q
  <2>1. next + size - 1 \in Nat /\ q * boundary = next
    BY <1>4
  <2> HIDE DEF next
  <2>2. next \div boundary = q
    BY <1>4, <2>1, DivBetween
  <2> DEFINE last == next + size - 1
  <2>3. last \in Nat /\ q * boundary <= last /\ last < q * boundary + boundary
    BY <1>4, <2>1
  <2> HIDE DEF last
  <2>4. last \div boundary = q
    BY <2>3, DivBetween
  <2> QED BY <2>2, <2>4 DEF last
<1>9. ASSUME ~(next < aligned + size)
      PROVE  aligned \div boundary = (aligned + size - 1) \div boundary
  <2>1. (q - 1) * boundary = next - boundary /\ q - 1 \in Int
    OBVIOUS
  <2> DEFINE last == aligned + size - 1
             low == (q - 1) * boundary
  <2>2. low = next - boundary
    BY <2>1
  <2> HIDE DEF next, aligned, low
  <2>3. last \in Nat
    BY <1>2
  <2>4. /\ low <= aligned /\ aligned < low + boundary
        /\ low <= last /\ last < low + boundary
    BY <1>2, <1>4, <1>6, <1>9, <2>2
  <2> HIDE DEF last
  <2>5. aligned \div boundary = q - 1
    BY <1>2, <2>1, <2>4, DivBetween DEF low
  <2>6. last \div boundary = q - 1
    BY <2>1, <2>3, <2>4, DivBetween DEF low
  <2> QED BY <2>5, <2>6 DEF last
<1> HIDE DEF next, aligned
<1>10. /\ start \in Nat /\ ptr <= start /\ start % alignment = 0
       /\ start \div boundary = (start + size - 1) \div boundary
  BY <1>2, <1>4, <1>6, <1>7, <1>8, <1>9
<1>11. start + size <= ptr + (alignment + 2 * size - 2)
  BY <1>2, <1>4, <1>6
<1> HIDE DEF start
<1>12. ~(PoolStart + kMemoryPoolSize < start + size)
  BY <1>10, <1>11, PoolAssumption DEF PoolEnd
<1> QED BY <1>5, <1>10, <1>11, <1>12 DEF Allocated

\* One block more, after all the others.
LEMMA AddBlock ==
  ASSUME NEW ptr, NEW bs, Sound(ptr, bs), NEW b \in Block, Placed(b), ptr <= b.start
  PROVE  Sound(b.start + b.size, bs \cup {b})
<1>1. \A c \in bs \cup {b} : c \in Block /\ c.start \in Nat /\ c.size \in Nat
  BY DEF Sound, Block
<1>2. \A c \in bs : c.start + c.size <= ptr /\ Placed(c)
  BY DEF Sound
<1>3. ptr \in Nat /\ ptr >= PoolStart /\ b.start + b.size \in Nat
  BY <1>1 DEF Sound
<1>4. \A c \in bs \cup {b} : Placed(c) /\ c.start + c.size <= b.start + b.size
  BY <1>1, <1>2, <1>3
<1>5. \A c \in bs : Apart(b, c) /\ Apart(c, b)
  BY <1>1, <1>2, <1>3 DEF Apart
<1>6. \A c, d \in bs \cup {b} : c # d => Apart(c, d)
  BY <1>5 DEF Sound
<1> HIDE DEF Block, Placed, Apart
<1>7. b.start + b.size >= PoolStart
  BY <1>1, <1>3, PoolAssumption
<1>8. bs \cup {b} \subseteq Block
  BY <1>1
<1> QED BY <1>3, <1>4, <1>6, <1>7, <1>8 DEF Sound

\* A block of the sizes assumed, placed by AllocMem.
LEMMA AddAllocation ==
  ASSUME NEW ptr, NEW bs, Sound(ptr, bs),
         NEW size \in Nat \ {0}, NEW boundary \in Nat \ {0}, NEW alignment \in Nat \ {0},
         size <= boundary, boundary % alignment = 0,
         ptr + (alignment + 2 * size - 2) <= PoolEnd
  PROVE  LET a == AllocMem(ptr, size, alignment, boundary)
         IN  /\ Sound(a.ptr, bs \cup {Allocation(a, size, alignment, boundary)})
             /\ a.ptr <= ptr + (alignment + 2 * size - 2)
<1> DEFINE a == AllocMem(ptr, size, alignment, boundary)
           b == Allocation(a, size, alignment, boundary)
<1>1. ptr \in Nat /\ ptr >= PoolStart
  BY DEF Sound
<1>2. PICK start \in Nat :
        /\ a = [start |-> start, ptr |-> start + size]
        /\ ptr <= start /\ start + size <= ptr + (alignment + 2 * size - 2)
        /\ start % alignment = 0
        /\ start \div boundary = (start + size - 1) \div boundary
  <2>1. Allocated(a, ptr, size, alignment, boundary)
    BY <1>1, AllocPlaced
  <2> HIDE DEF a
  <2> QED BY <2>1 DEF Allocated
<1>3. a.start = start /\ a.ptr = start + size
  BY <1>2
<1> HIDE DEF a
<1>4. b = [start |-> start, size |-> size, alignment |-> alignment, boundary |-> boundary]
  BY <1>3 DEF Allocation
<1>5. /\ b \in Block /\ b.start = start /\ b.size = size
      /\ b.alignment = alignment /\ b.boundary = boundary
  BY <1>4 DEF Block
<1> HIDE DEF b
<1>6. start >= PoolStart /\ start + size <= PoolEnd
  <2>1. PoolStart \in Nat /\ PoolEnd \in Nat
    BY PoolAssumption DEF PoolEnd
  <2> QED BY <1>1, <1>2, <2>1
<1>7. Placed(b)
  BY <1>2, <1>5, <1>6 DEF Placed
<1>8. Sound(start + size, bs \cup {b})
  BY <1>2, <1>5, <1>7, AddBlock
<1> QED BY <1>2, <1>3, <1>8 DEF a, b

\* AllocTransferRing takes no more than RingSpace.
LEMMA AddRing ==
  ASSUME Sound(alloc_ptr, blocks), alloc_ptr + RingSpace <= PoolEnd, AllocTransferRing
  PROVE  /\ Sound(alloc_ptr', blocks')
         /\ alloc_ptr' <= alloc_ptr + RingSpace
<1> DEFINE S == Sizes
           a == AllocMem(alloc_ptr, S.ring, S.alignment, S.ringBoundary)
           b == AllocMem(a.ptr, S.buffer, S.alignment, S.bufferBoundary)
           x == Allocation(a, S.ring, S.alignment, S.ringBoundary)
           y == Allocation(b, S.buffer, S.alignment, S.bufferBoundary)
<1>1. /\ S.ring \in Nat \ {0} /\ S.buffer \in Nat \ {0} /\ S.alignment \in Nat \ {0}
      /\ S.ringBoundary \in Nat \ {0} /\ S.bufferBoundary \in Nat \ {0}
      /\ S.ring <= S.ringBoundary /\ S.ringBoundary % S.alignment = 0
      /\ S.buffer <= S.bufferBoundary /\ S.bufferBoundary % S.alignment = 0
  BY SizesAssumption
<1>2. alloc_ptr' = b.ptr /\ blocks' = (blocks \cup {x}) \cup {y}
  BY DEF AllocTransferRing
<1>3. alloc_ptr \in Nat
  BY DEF Sound
<1> DEFINE first == S.alignment + 2 * S.ring - 2
           second == S.alignment + 2 * S.buffer - 2
<1>4. RingSpace = first + second /\ first \in Nat /\ second \in Nat
  <2> DEFINE u == S.alignment
             v == S.ring
             w == S.buffer
  <2>1. RingSpace = 2 * (u + v + w - 2)
    BY DEF RingSpace
  <2>2. u \in Nat \ {0} /\ v \in Nat \ {0} /\ w \in Nat \ {0}
    BY <1>1
  <2>3. first = u + 2 * v - 2 /\ second = u + 2 * w - 2
    OBVIOUS
  <2> HIDE DEF first, second, u, v, w
  <2> QED BY <2>1, <2>2, <2>3
<1> HIDE DEF S
<1>5. alloc_ptr + first <= PoolEnd /\ PoolEnd \in Nat
  BY <1>3, <1>4, PoolAssumption DEF PoolEnd
<1>6. Sound(a.ptr, blocks \cup {x}) /\ a.ptr <= alloc_ptr + first
  <2>1. alloc_ptr + (S.alignment + 2 * S.ring - 2) <= PoolEnd
    BY <1>5
  <2> HIDE DEF first
  <2> QED BY <1>1, <2>1, AddAllocation DEF first
<1>7. a.ptr \in Nat
  BY <1>6 DEF Sound
<1> HIDE DEF a, x
<1>8. a.ptr + second <= PoolEnd
  <2> HIDE DEF first, second
  <2> QED BY <1>3, <1>4, <1>5, <1>6, <1>7
<1>9. Sound(b.ptr, (blocks \cup {x}) \cup {y}) /\ b.ptr <= a.ptr + second
  <2>1. a.ptr + (S.alignment + 2 * S.buffer - 2) <= PoolEnd
    BY <1>8
  <2> HIDE DEF second
  <2> QED BY <1>1, <1>6, <2>1, AddAllocation DEF second
<1>10. b.ptr \in Nat
  BY <1>9 DEF Sound
<1> HIDE DEF b, y, first, second
<1>11. b.ptr <= alloc_ptr + RingSpace
  BY <1>3, <1>4, <1>6, <1>7, <1>9, <1>10
<1> QED BY <1>2, <1>9, <1>11

\* The class driver's block has neither alignment nor boundary.
LEMMA AddDriver ==
  ASSUME Sound(alloc_ptr, blocks), alloc_ptr + Sizes.driver <= PoolEnd
  PROVE  LET a == AllocMem(alloc_ptr, Sizes.driver, 0, 0)
         IN  /\ Sound(a.ptr, blocks \cup {Allocation(a, Sizes.driver, 0, 0)})
             /\ a.ptr = alloc_ptr + Sizes.driver
<1> DEFINE size == Sizes.driver
           a == AllocMem(alloc_ptr, size, 0, 0)
           b == Allocation(a, size, 0, 0)
<1>1. size \in Nat /\ alloc_ptr \in Nat /\ alloc_ptr >= PoolStart /\ PoolStart + kMemoryPoolSize \in Nat
  BY SizesAssumption, PoolAssumption DEF Sound
<1>2. ~(PoolStart + kMemoryPoolSize < alloc_ptr + size)
  <2> HIDE DEF size
  <2>1. alloc_ptr + size <= PoolStart + kMemoryPoolSize
    BY DEF PoolEnd, size
  <2> QED BY <1>1, <2>1
<1>3. a = [start |-> alloc_ptr, ptr |-> alloc_ptr + size]
  <2> HIDE DEF size
  <2>1. AllocMem(alloc_ptr, size, 0, 0)
          = IF PoolStart + kMemoryPoolSize < alloc_ptr + size
            THEN [start |-> NoBlock, ptr |-> alloc_ptr]
            ELSE [start |-> alloc_ptr, ptr |-> alloc_ptr + size]
    BY DEF AllocMem
  <2> QED BY <1>2, <2>1
<1>4. a.start = alloc_ptr /\ a.ptr = alloc_ptr + size
  BY <1>3
<1> HIDE DEF a
<1>5. b = [start |-> alloc_ptr, size |-> size, alignment |-> 0, boundary |-> 0]
  BY <1>4 DEF Allocation
<1>6. /\ b \in Block /\ b.start = alloc_ptr /\ b.size = size
      /\ b.alignment = 0 /\ b.boundary = 0
  BY <1>1, <1>5 DEF Block
<1> HIDE DEF b
<1>7. Placed(b)
  BY <1>1, <1>6 DEF Placed, PoolEnd
<1>8. Sound(alloc_ptr + size, blocks \cup {b})
  BY <1>1, <1>6, <1>7, AddBlock
<1> QED BY <1>4, <1>8 DEF a, b, size

\* What the invariant is for.
LEMMA SoundBlocks ==
  ASSUME NEW ptr, Sound(ptr, blocks)
  PROVE  PoolBlocksOK
  BY DEF Sound, Placed, Apart, PoolBlocksOK, PoolEnd
-----------------------------------------------------------------------------
(* The map in a fixed array.                                               *)

\* A set of naturals that is not empty has a least element.
LEMMA MinMember ==
  ASSUME NEW S \in SUBSET Nat, S # {}
  PROVE  Min(S) \in S /\ \A y \in S : Min(S) <= y
<1>1. PICK x \in S : \A y \in S : ~(<<y, x>> \in OpToRel(<, Nat))
  BY NatLessThanWellFounded, WFMin
<1>2. ASSUME NEW y \in S PROVE x <= y
  <2>1. x \in Nat /\ y \in Nat
    OBVIOUS
  <2>2. y < x => <<y, x>> \in OpToRel(<, Nat)
    BY <2>1 DEF OpToRel
  <2>3. ~(y < x)
    BY <1>1, <2>2, Zenon
  <2> QED BY <2>1, <2>3
<1> QED BY <1>2 DEF Min

\* The entries of a table.
LEMMA TableEntry ==
  ASSUME NEW t, Table(t)
  PROVE  /\ DOMAIN t = 1 .. MapSize
         /\ Used(t) \subseteq 1 .. MapSize
         /\ \A i \in 1 .. MapSize : /\ (t[i].used <=> i \in Used(t))
                                    /\ t[i] = [used |-> t[i].used, key |-> t[i].key,
                                               value |-> t[i].value]
<1>1. DOMAIN t = 1 .. MapSize
  BY DEF Table
<1>2. \A i \in 1 .. MapSize : t[i].used \in BOOLEAN
  BY DEF Table
<1>3. Used(t) \subseteq 1 .. MapSize
  BY <1>1 DEF Used
<1>4. \A i \in 1 .. MapSize : t[i].used <=> i \in Used(t)
  BY <1>1, <1>2 DEF Used
<1>5. \A i \in 1 .. MapSize : t[i] = [used |-> t[i].used, key |-> t[i].key,
                                      value |-> t[i].value]
  BY DEF Table
<1> QED BY <1>1, <1>3, <1>4, <1>5

\* The places that have a key that is there once.
LEMMA OnePlace ==
  ASSUME NEW t, Table(t), NEW key, NEW i \in Used(t), t[i].key = key,
         \A j, k \in Used(t) : t[j].key = t[k].key => j = k
  PROVE  Places(t, key) = {i} /\ Min(Places(t, key)) = i
<1>1. Places(t, key) = {j \in 1 .. MapSize : j \in Used(t) /\ t[j].key = key}
  <2>1. DOMAIN t = 1 .. MapSize
    BY TableEntry
  <2>2. \A j \in 1 .. MapSize : t[j].used <=> j \in Used(t)
    BY TableEntry
  <2> QED BY <2>1, <2>2, Zenon DEF Places
<1>2. i \in 1 .. MapSize /\ MapSize \in Nat
  BY TableEntry, TablesAssumption
<1>3. Places(t, key) = {i}
  BY <1>1, <1>2
<1>4. {i} \in SUBSET Nat
  BY <1>2
<1> QED BY <1>3, <1>4, MinMember

\* Get finds the value of a key that is there once.
LEMMA GetFound ==
  ASSUME NEW t, Table(t), NEW key, NEW i \in Used(t), t[i].key = key,
         \A j, k \in Used(t) : t[j].key = t[k].key => j = k
  PROVE  Get(t, key) = t[i].value
<1>1. Places(t, key) # {} /\ Min(Places(t, key)) = i
  BY OnePlace
<1> QED BY <1>1 DEF Get

\* An entry that is deleted is the only thing that changes.
LEMMA DeleteEntry ==
  ASSUME NEW t, Table(t), NEW key, NEW i \in Used(t), t[i].key = key,
         \A j, k \in Used(t) : t[j].key = t[k].key => j = k
  PROVE  LET d == Delete(t, key)
         IN  /\ Table(d) /\ Used(d) = Used(t) \ {i}
             /\ \A j \in 1 .. MapSize : d[j].key = t[j].key /\ d[j].value = t[j].value
<1> DEFINE d == Delete(t, key)
<1>1. Places(t, key) # {} /\ Min(Places(t, key)) = i
  BY OnePlace
<1>2. d = [t EXCEPT ![i].used = FALSE]
  BY <1>1 DEF Delete
<1>3. DOMAIN t = 1 .. MapSize /\ i \in 1 .. MapSize
  BY TableEntry
<1>4. \A j \in 1 .. MapSize : t[j] = [used |-> t[j].used, key |-> t[j].key, value |-> t[j].value]
  BY TableEntry
<1>5. d = [j \in 1 .. MapSize |-> IF j = i THEN [t[i] EXCEPT !.used = FALSE] ELSE t[j]]
  BY <1>2, <1>3
<1>6. [t[i] EXCEPT !.used = FALSE] = [used |-> FALSE, key |-> t[i].key, value |-> t[i].value]
  <2> DEFINE e == t[i]
  <2>1. e = [used |-> e.used, key |-> e.key, value |-> e.value]
    BY <1>3, <1>4
  <2> HIDE DEF e
  <2> DEFINE a == e.used
             b == e.key
             c == e.value
             no == FALSE
  <2>2. e = [used |-> a, key |-> b, value |-> c]
    BY <2>1
  <2> HIDE DEF a, b, c, no
  <2>3. [e EXCEPT !.used = no] = [used |-> no, key |-> b, value |-> c]
    BY <2>2
  <2>4. [e EXCEPT !.used = FALSE] = [used |-> FALSE, key |-> e.key, value |-> e.value]
    BY <2>3 DEF no, b, c
  <2> QED BY <2>4 DEF e
<1>7. /\ DOMAIN d = 1 .. MapSize
      /\ d[i] = [used |-> FALSE, key |-> t[i].key, value |-> t[i].value]
      /\ \A j \in 1 .. MapSize \ {i} : d[j] = t[j]
  BY <1>3, <1>5, <1>6
<1>8. d = [j \in 1 .. MapSize |-> d[j]]
  BY <1>5
<1> HIDE DEF d
<1>9. \A j \in 1 .. MapSize : /\ d[j].key = t[j].key /\ d[j].value = t[j].value
                              /\ d[j] = [used |-> d[j].used, key |-> d[j].key,
                                         value |-> d[j].value]
  <2>1. /\ d[i].key = t[i].key /\ d[i].value = t[i].value
        /\ d[i] = [used |-> d[i].used, key |-> d[i].key, value |-> d[i].value]
    BY <1>7
  <2> QED BY <1>4, <1>7, <2>1, Zenon
<1>10. d[i].used = FALSE /\ \A j \in 1 .. MapSize \ {i} : d[j].used = t[j].used
  BY <1>7
<1>11. \A j \in 1 .. MapSize : d[j].used \in BOOLEAN
  BY <1>10 DEF Table
<1>12. Table(d)
  BY <1>8, <1>9, <1>11 DEF Table
<1>13. Used(d) = Used(t) \ {i}
  BY <1>3, <1>7, <1>10 DEF Used
<1> QED BY <1>9, <1>12, <1>13 DEF d

\* An entry that is put finds the first free place.
LEMMA PutEntry ==
  ASSUME NEW t, Table(t), NEW key, NEW value, NEW p \in 1 .. MapSize, p \notin Used(t)
  PROVE  LET d == Put(t, key, value)
         IN  \E i \in 1 .. MapSize :
               /\ i \notin Used(t) /\ i <= p
               /\ Table(d) /\ Used(d) = Used(t) \cup {i}
               /\ d[i].key = key /\ d[i].value = value
               /\ \A j \in 1 .. MapSize \ {i} : d[j] = t[j]
<1> DEFINE d == Put(t, key, value)
           free == {i \in DOMAIN t : ~t[i].used}
           i == Min(free)
           e == [used |-> TRUE, key |-> key, value |-> value]
<1>1. free = (1 .. MapSize) \ Used(t)
  BY TableEntry, Zenon
<1>2. free \in SUBSET Nat /\ p \in free
  BY <1>1, TablesAssumption
<1>3. d = [t EXCEPT ![i] = e]
  BY <1>2 DEF Put
<1> HIDE DEF free
<1>4. i \in free /\ i <= p
  BY <1>2, MinMember
<1> HIDE DEF i
<1>5. i \in 1 .. MapSize /\ i \notin Used(t) /\ DOMAIN t = 1 .. MapSize
  BY <1>1, <1>4, TableEntry
<1>6. d = [j \in 1 .. MapSize |-> IF j = i THEN e ELSE t[j]]
  BY <1>3, <1>5
<1>7. /\ DOMAIN d = 1 .. MapSize /\ d[i] = e
      /\ \A j \in 1 .. MapSize \ {i} : d[j] = t[j]
  BY <1>5, <1>6
<1>8. d = [j \in 1 .. MapSize |-> d[j]]
  BY <1>6
<1> HIDE DEF d
<1>9. \A j \in 1 .. MapSize : d[j] = [used |-> d[j].used, key |-> d[j].key,
                                      value |-> d[j].value]
  BY <1>7, TableEntry
<1>10. d[i].used = TRUE /\ d[i].key = key /\ d[i].value = value
  BY <1>7
<1>11. \A j \in 1 .. MapSize : d[j].used \in BOOLEAN
  BY <1>7, <1>10 DEF Table
<1>12. Table(d)
  BY <1>8, <1>9, <1>11 DEF Table
<1>13. Used(d) = Used(t) \cup {i}
  BY <1>5, <1>7, <1>10 DEF Used
<1> QED BY <1>4, <1>5, <1>7, <1>10, <1>12, <1>13 DEF d
-----------------------------------------------------------------------------
(* The ring and the requests in it.                                        *)

\* The places after b are different ones, until the ring has gone round.
LEMMA PlaceAfter ==
  ASSUME NEW b \in 0 .. RingSize - 2, NEW k \in Nat, k < RingSize - 1
  PROVE  Place(b, k) \in 0 .. RingSize - 2 /\ After(Place(b, k)) = Place(b, k + 1)
  BY RingSizeAssumption DEF Place, After

\* Two places of the ring that are the same are as far from b.
LEMMA PlaceDistinct ==
  ASSUME NEW b \in 0 .. RingSize - 2, NEW k \in Nat, NEW l \in Nat,
         k < RingSize - 1, l < RingSize - 1, Place(b, k) = Place(b, l)
  PROVE  k = l
  BY RingSizeAssumption DEF Place

\* Nothing outstanding: the ring may be looked at from here on.
LEMMA NoneOutstanding ==
  ASSUME NEW trbs, NEW table, NEW write \in 0 .. RingSize - 2, NEW es, NEW long \in BOOLEAN,
         Used(table) = {}, Transfers(es) = {}
  PROVE  Requests(trbs, table, write, write, es, write, 0, 0, long)
<1>1. Length(0, long) = 0 /\ Place(write, 0) = write /\ 0 < RingSize - 1
  BY RingSizeAssumption DEF Length, Place
<1>2. Span(write, write, write, 0, 0, long)
  BY <1>1 DEF Span
<1>3. Stages(trbs, write, 0, long) /\ Pending(table, write, 0, 0)
  BY DEF Stages, Pending
<1>4. Entries(table, write, 0) /\ Answers(table, es, write, 0)
  BY DEF Entries, Answers
<1> QED BY <1>2, <1>3, <1>4 DEF Requests

\* The fields a control transfer leaves alone.
SameRest(c, d) ==
  /\ c.initialize_phase = d.initialize_phase /\ c.hid_phase = d.hid_phase
  /\ c.ep_configs = d.ep_configs /\ c.class_drivers = d.class_drivers
  /\ c.class_driver = d.class_driver
  /\ c.hid_buf = d.hid_buf /\ c.previous_buf = d.previous_buf

\* What a TRB that is pushed changes.
LEMMA PushFields ==
  ASSUME NEW d, Device(d), NEW trb
  PROVE  LET p == Push(d, trb)
         IN  /\ Device(p) /\ SameRest(p, d)
             /\ p.trbs = [d.trbs EXCEPT ![d.write_index] = trb]
             /\ p.write_index = After(d.write_index)
             /\ p.setup_stage_map = d.setup_stage_map
             /\ p.event_waiters = d.event_waiters
<1> DEFINE x == [d.trbs EXCEPT ![d.write_index] = trb]
           y == After(d.write_index)
           p == [d EXCEPT !.trbs = x, !.write_index = y]
<1>1. Push(d, trb) = p
  BY DEF Push
<1>2. DOMAIN d = Fields
  BY DEF Device
<1> HIDE DEF x, y
<1>3. Device(p)
  BY <1>2 DEF Device
<1>4. p.trbs = x /\ p.write_index = y
  BY <1>2 DEF Fields
<1>5. p.setup_stage_map = d.setup_stage_map /\ p.event_waiters = d.event_waiters
  BY <1>2 DEF Fields
<1>6. SameRest(p, d)
  BY <1>2 DEF Fields, SameRest
<1> HIDE DEF p
<1> QED BY <1>1, <1>3, <1>4, <1>5, <1>6 DEF x, y

\* What a control transfer does to the ring and the table.
Staged(trbs, w, setup) ==
  LET begun == [trbs EXCEPT ![w] = SetupStageTRB(setup)]
  IN  IF HasDataStage(setup)
      THEN [[begun EXCEPT ![After(w)] = DataStageTRB] EXCEPT ![After(After(w))] = StatusStageTRB]
      ELSE [begun EXCEPT ![After(w)] = StatusStageTRB]
LEMMA ControlTransferFields ==
  ASSUME NEW d, Device(d), NEW setup, NEW issuer \in BOOLEAN
  PROVE  LET c == ControlTransfer(d, setup, issuer)
             w == d.write_index
         IN  /\ Device(c) /\ SameRest(c, d)
             /\ c.write_index = IF HasDataStage(setup) THEN After(After(After(w)))
                                ELSE After(After(w))
             /\ c.trbs = Staged(d.trbs, w, setup)
             /\ c.setup_stage_map = Put(d.setup_stage_map, After(w), w)
<1> DEFINE w == d.write_index
           begun == Push(d, SetupStageTRB(setup))
           data == IF HasDataStage(setup) THEN Push(begun, DataStageTRB) ELSE begun
           last == Push(data, StatusStageTRB)
           x == Put(last.setup_stage_map, begun.write_index, w)
           y == IF issuer THEN Put(last.event_waiters, setup, 1) ELSE last.event_waiters
           c == [last EXCEPT !.setup_stage_map = x, !.event_waiters = y]
<1>1. /\ Device(begun) /\ SameRest(begun, d)
      /\ begun.trbs = [d.trbs EXCEPT ![w] = SetupStageTRB(setup)]
      /\ begun.write_index = After(w)
      /\ begun.setup_stage_map = d.setup_stage_map
  BY PushFields
<1>2. ControlTransfer(d, setup, issuer) = c
  BY DEF ControlTransfer
<1> HIDE DEF begun
<1>3. /\ Device(data) /\ SameRest(data, d)
      /\ data.setup_stage_map = d.setup_stage_map
      /\ data.trbs = IF HasDataStage(setup) THEN [begun.trbs EXCEPT ![After(w)] = DataStageTRB]
                     ELSE begun.trbs
      /\ data.write_index = IF HasDataStage(setup) THEN After(After(w)) ELSE After(w)
  <2>1. CASE HasDataStage(setup)
    <3> DEFINE p == Push(begun, DataStageTRB)
    <3>1. /\ Device(p) /\ SameRest(p, begun)
          /\ p.trbs = [begun.trbs EXCEPT ![begun.write_index] = DataStageTRB]
          /\ p.write_index = After(begun.write_index)
          /\ p.setup_stage_map = begun.setup_stage_map
      BY <1>1, PushFields
    <3>2. data = p
      BY <2>1
    <3> HIDE DEF p, data
    <3>3. SameRest(p, d)
      BY <1>1, <3>1 DEF SameRest
    <3> QED BY <1>1, <2>1, <3>1, <3>2, <3>3
  <2>2. CASE ~HasDataStage(setup)
    <3>1. data = begun
      BY <2>2
    <3> HIDE DEF data
    <3> QED BY <1>1, <2>2, <3>1
  <2> QED BY <2>1, <2>2
<1> HIDE DEF data
<1>4. /\ Device(last) /\ SameRest(last, data)
      /\ last.trbs = [data.trbs EXCEPT ![data.write_index] = StatusStageTRB]
      /\ last.write_index = After(data.write_index)
      /\ last.setup_stage_map = data.setup_stage_map
  BY <1>3, PushFields
<1>5. x = Put(d.setup_stage_map, After(w), w)
  BY <1>1, <1>3, <1>4
<1> HIDE DEF last
<1>6. DOMAIN last = Fields
  BY <1>4 DEF Device
<1> HIDE DEF x, y
<1>7. Device(c)
  BY <1>6 DEF Device
<1>8. c.setup_stage_map = x /\ c.trbs = last.trbs /\ c.write_index = last.write_index
  BY <1>6 DEF Fields
<1>9. SameRest(c, last)
  BY <1>6 DEF Fields, SameRest
<1> HIDE DEF c
<1>10. SameRest(c, d)
  BY <1>3, <1>4, <1>9 DEF SameRest
<1>11. c.trbs = Staged(d.trbs, w, setup)
  <2>1. CASE HasDataStage(setup)
    BY <1>1, <1>3, <1>4, <1>8, <2>1 DEF Staged
  <2>2. CASE ~HasDataStage(setup)
    BY <1>1, <1>3, <1>4, <1>8, <2>2 DEF Staged
  <2> QED BY <2>1, <2>2
<1>12. c.write_index = IF HasDataStage(setup) THEN After(After(After(w))) ELSE After(After(w))
  BY <1>3, <1>4, <1>8
<1> QED BY <1>2, <1>5, <1>7, <1>8, <1>10, <1>11, <1>12

\* The TRBs of a new request are put after those of the earlier ones.
LEMMA StagedPlaces ==
  ASSUME NEW trbs, Buffer(trbs), NEW setup,
         NEW b \in 0 .. RingSize - 2, NEW k \in Nat, k + 2 < RingSize - 1
  PROVE  LET after == Staged(trbs, Place(b, k), setup)
         IN  /\ Buffer(after)
             /\ after[Place(b, k)] = SetupStageTRB(setup)
             /\ \A l \in 0 .. k - 1 : after[Place(b, l)] = trbs[Place(b, l)]
<1> DEFINE D == 0 .. RingSize - 2
           w == Place(b, k)
           after == Staged(trbs, w, setup)
<1>1. w \in D /\ After(w) = Place(b, k + 1) /\ After(After(w)) = Place(b, k + 2)
  <2>1. w \in D /\ After(w) = Place(b, k + 1)
    BY PlaceAfter, RingSizeAssumption
  <2>2. k + 1 \in Nat /\ k + 1 < RingSize - 1 /\ (k + 1) + 1 = k + 2
    BY RingSizeAssumption
  <2>3. After(Place(b, k + 1)) = Place(b, (k + 1) + 1)
    BY <2>2, PlaceAfter
  <2> QED BY <2>1, <2>2, <2>3
<1>2. Place(b, k + 1) \in D /\ Place(b, k + 2) \in D
  <2>1. k + 1 \in Nat /\ k + 2 \in Nat /\ k + 1 < RingSize - 1
    BY RingSizeAssumption
  <2> QED BY <2>1, PlaceAfter
<1>3. w # Place(b, k + 1) /\ w # Place(b, k + 2)
  BY PlaceDistinct, RingSizeAssumption
<1>4. \A l \in 0 .. k - 1 : /\ Place(b, l) \in D
                            /\ Place(b, l) # w /\ Place(b, l) # Place(b, k + 1)
                            /\ Place(b, l) # Place(b, k + 2)
  <2> TAKE l \in 0 .. k - 1
  <2>1. l \in Nat /\ l < RingSize - 1 /\ k < RingSize - 1 /\ k + 1 < RingSize - 1
    BY RingSizeAssumption
  <2>2. l # k /\ l # k + 1 /\ l # k + 2
    OBVIOUS
  <2>3. Place(b, l) \in D
    BY <2>1, PlaceAfter
  <2>4. Place(b, l) # w
    BY <2>1, <2>2, PlaceDistinct
  <2>5. Place(b, l) # Place(b, k + 1)
    BY <2>1, <2>2, PlaceDistinct
  <2>6. Place(b, l) # Place(b, k + 2)
    BY <2>1, <2>2, PlaceDistinct
  <2> QED BY <2>3, <2>4, <2>5, <2>6
<1> DEFINE y == Place(b, k + 1)
           z == Place(b, k + 2)
           one == [trbs EXCEPT ![w] = SetupStageTRB(setup)]
<1> HIDE DEF w, y, z
<1>5. DOMAIN trbs = D
  BY DEF Buffer
<1>6. /\ DOMAIN one = D /\ one[w] = SetupStageTRB(setup)
      /\ \A i \in D \ {w} : one[i] = trbs[i]
  BY <1>1, <1>5
<1>7. after = IF HasDataStage(setup)
              THEN [[one EXCEPT ![y] = DataStageTRB] EXCEPT ![z] = StatusStageTRB]
              ELSE [one EXCEPT ![y] = StatusStageTRB]
  BY <1>1 DEF Staged, y, z
<1> HIDE DEF one, D
<1>8. /\ after = [i \in D |-> after[i]]
      /\ \A i \in D \ {y, z} : after[i] = one[i]
  <2>1. CASE HasDataStage(setup)
    <3>1. after = [[one EXCEPT ![y] = DataStageTRB] EXCEPT ![z] = StatusStageTRB]
      BY <1>7, <2>1
    <3> HIDE DEF after
    <3> QED BY <1>6, <3>1
  <2>2. CASE ~HasDataStage(setup)
    <3>1. after = [one EXCEPT ![y] = StatusStageTRB]
      BY <1>7, <2>2
    <3> HIDE DEF after
    <3> QED BY <1>6, <3>1
  <2> QED BY <2>1, <2>2
<1> HIDE DEF after
<1>9. after[w] = SetupStageTRB(setup)
  BY <1>1, <1>3, <1>6, <1>8 DEF y, z
<1>10. ASSUME NEW l \in 0 .. k - 1
       PROVE  after[Place(b, l)] = trbs[Place(b, l)]
  <2>1. Place(b, l) \in D \ {w, y, z}
    BY <1>4 DEF y, z
  <2> QED BY <2>1, <1>6, <1>8
<1>11. Buffer(after)
  BY <1>8 DEF Buffer, D
<1> QED BY <1>9, <1>10, <1>11 DEF after, w

\* A request that is put in the ring and in the table.
LEMMA RequestGiven ==
  ASSUME NEW d, Device(d), NEW setup, NEW issuer \in BOOLEAN,
         Buffer(d.trbs), Table(d.setup_stage_map),
         NEW read, NEW es, NEW b, NEW m, NEW x, NEW long \in BOOLEAN,
         long <=> HasDataStage(setup),
         Requests(d.trbs, d.setup_stage_map, d.write_index, read, es, b, m, x, long),
         m < MapSize, Length(m + 1, long) < RingSize - 1, long => m = 0
  PROVE  LET c == ControlTransfer(d, setup, issuer)
         IN  /\ Buffer(c.trbs)
             /\ Table(c.setup_stage_map)
             /\ Requests(c.trbs, c.setup_stage_map, c.write_index, read, es, b, m + 1, x, long)
<1> DEFINE c == ControlTransfer(d, setup, issuer)
           w == d.write_index
           k == Length(m, long)
           t == d.setup_stage_map
           u == c.setup_stage_map
<1>1. /\ Span(w, read, b, m, x, long) /\ Stages(d.trbs, b, m, long)
      /\ Entries(t, b, m) /\ Pending(t, b, m, x) /\ Answers(t, es, b, x)
  BY DEF Requests
<1>2. /\ b \in 0 .. RingSize - 2 /\ m \in Nat /\ x \in 0 .. m
      /\ k < RingSize - 1 /\ w = Place(b, k) /\ read = Place(b, Length(x, long))
  BY <1>1 DEF Span
<1>3. /\ c.write_index = IF long THEN After(After(After(w))) ELSE After(After(w))
      /\ c.trbs = Staged(d.trbs, w, setup)
      /\ u = Put(t, After(w), w)
  BY ControlTransferFields
<1>4. k = 2 * m /\ k \in Nat /\ k + 2 < RingSize - 1 /\ Length(m + 1, long) = (IF long THEN k + 3 ELSE k + 2)
  BY <1>2, RingSizeAssumption DEF Length
<1>5. /\ After(w) = Place(b, k + 1) /\ After(After(w)) = Place(b, k + 2)
      /\ After(After(After(w))) = Place(b, k + 3)
  <2> HIDE DEF k, w
  <2>1. After(w) = Place(b, k + 1)
    BY <1>2, <1>4, PlaceAfter
  <2>2. After(Place(b, k + 1)) = Place(b, (k + 1) + 1)
    BY <1>2, <1>4, RingSizeAssumption, PlaceAfter
  <2>3. After(Place(b, k + 2)) = Place(b, (k + 2) + 1)
    BY <1>2, <1>4, RingSizeAssumption, PlaceAfter
  <2>4. (k + 1) + 1 = k + 2 /\ (k + 2) + 1 = k + 3
    BY <1>4
  <2> QED BY <2>1, <2>2, <2>3, <2>4
<1> HIDE DEF c, u
<1>6. Span(c.write_index, read, b, m + 1, x, long)
  <2>1. c.write_index = Place(b, Length(m + 1, long))
    BY <1>3, <1>4, <1>5
  <2>2. m + 1 \in Nat /\ x \in 0 .. m + 1
    BY <1>2
  <2> QED BY <1>2, <2>1, <2>2 DEF Span
<1>7. /\ Buffer(c.trbs)
      /\ c.trbs[Place(b, k)] = SetupStageTRB(setup)
      /\ \A l \in 0 .. k - 1 : c.trbs[Place(b, l)] = d.trbs[Place(b, l)]
  <2> HIDE DEF k, w
  <2> QED BY <1>2, <1>3, <1>4, StagedPlaces
<1>8. Stages(c.trbs, b, m + 1, long)
  <2> SUFFICES ASSUME NEW j \in 0 .. m
               PROVE  /\ c.trbs[Place(b, 2 * j)].type = "setup"
                      /\ HasDataStage(c.trbs[Place(b, 2 * j)].setup) <=> long
    BY <1>2 DEF Stages
  <2>1. CASE j = m
    BY <1>4, <1>7, <2>1 DEF SetupStageTRB
  <2>2. CASE j # m
    <3>1. j \in 0 .. m - 1 /\ 2 * j \in 0 .. k - 1
      BY <1>2, <1>4, <2>2
    <3> QED BY <1>1, <1>7, <3>1 DEF Stages
  <2> QED BY <2>1, <2>2
<1>9. MapSize \in Nat /\ m + 1 \in 1 .. MapSize /\ m + 1 \notin Used(t)
  BY <1>1, <1>2, TablesAssumption DEF Entries
<1>10. PICK i \in 1 .. MapSize :
         /\ i \notin Used(t) /\ i <= m + 1
         /\ Table(u) /\ Used(u) = Used(t) \cup {i}
         /\ u[i].key = After(w) /\ u[i].value = w
         /\ \A j \in 1 .. MapSize \ {i} : u[j] = t[j]
  <2> HIDE DEF w, t
  <2> QED BY <1>3, <1>9, PutEntry DEF t
<1>11. \A n \in Used(t) : n \in 1 .. MapSize \ {i} /\ u[n] = t[n]
  BY <1>10, TableEntry
<1>12. \A key : Has(t, key) => Has(u, key)
  BY <1>10, <1>11 DEF Has
<1>13. Has(u, Place(b, k + 1))
  BY <1>5, <1>10 DEF Has
<1> HIDE DEF t, w
<1>14. Entries(u, b, m + 1)
  <2>1. ASSUME NEW n \in Used(u)
        PROVE  /\ n <= m + 1
               /\ \E j \in 0 .. m : /\ u[n].key = Place(b, 2 * j + 1)
                                    /\ u[n].value = Place(b, 2 * j)
    <3>1. CASE n = i
      BY <1>2, <1>4, <1>5, <1>10, <3>1
    <3>2. CASE n # i
      <4>1. n \in Used(t) /\ u[n] = t[n]
        BY <1>10, <1>11, <3>2
      <4>2. PICK j \in 0 .. m - 1 : /\ t[n].key = Place(b, 2 * j + 1)
                                    /\ t[n].value = Place(b, 2 * j)
        BY <1>1, <4>1 DEF Entries
      <4>3. n <= m /\ j \in 0 .. m /\ n \in Nat
        BY <1>1, <1>2, <1>11, <4>1 DEF Entries
      <4> QED BY <1>2, <4>1, <4>2, <4>3
    <3> QED BY <3>1, <3>2
  <2>2. \A n \in Used(t) : t[n].key # Place(b, k + 1)
    <3> SUFFICES ASSUME NEW n \in Used(t), t[n].key = Place(b, k + 1) PROVE FALSE
      OBVIOUS
    <3>1. PICK j \in 0 .. m - 1 : t[n].key = Place(b, 2 * j + 1)
      BY <1>1 DEF Entries
    <3>2. 2 * j + 1 \in Nat /\ 2 * j + 1 < k + 1 /\ k + 1 < RingSize - 1 /\ k + 1 \in Nat
      BY <1>2, <1>4, RingSizeAssumption
    <3>3. 2 * j + 1 < RingSize - 1
      BY <1>4, <3>2, RingSizeAssumption
    <3>4. 2 * j + 1 = k + 1
      BY <1>2, <3>1, <3>2, <3>3, PlaceDistinct
    <3> QED BY <3>2, <3>4
  <2>3. ASSUME NEW n \in Used(u), NEW o \in Used(u), u[n].key = u[o].key
        PROVE  n = o
    <3>1. u[i].key = Place(b, k + 1)
      BY <1>5, <1>10
    <3>2. \A y \in Used(u) \ {i} : y \in Used(t) /\ u[y].key = t[y].key
      BY <1>10, <1>11
    <3> QED BY <1>1, <2>2, <2>3, <3>1, <3>2 DEF Entries
  <2> QED BY <1>2, <2>1, <2>3 DEF Entries
<1>15. Pending(u, b, m + 1, x)
  <2> SUFFICES ASSUME NEW j \in x .. m PROVE Has(u, Place(b, 2 * j + 1))
    BY <1>2 DEF Pending
  <2>1. CASE j = m
    BY <1>4, <1>13, <2>1
  <2>2. CASE j # m
    <3>1. j \in x .. m - 1
      BY <1>2, <2>2
    <3> QED BY <1>1, <1>12, <3>1 DEF Pending
  <2> QED BY <2>1, <2>2
<1>16. Answers(u, es, b, x)
  BY <1>1, <1>12 DEF Answers
<1> QED BY <1>6, <1>7, <1>8, <1>10, <1>14, <1>15, <1>16 DEF Requests, c, u

\* The events after the first one.
LEMMA TailEvents ==
  ASSUME NEW es \in Seq(EventTRB), es # <<>>
  PROVE  /\ 1 \in DOMAIN es /\ es[1] = Head(es) /\ Head(es) \in EventTRB
         /\ Tail(es) \in Seq(EventTRB)
         /\ \A i \in DOMAIN Tail(es) : /\ i + 1 \in DOMAIN es /\ i + 1 # 1
                                       /\ Tail(es)[i] = es[i + 1] /\ i \in Nat
<1> HIDE DEF EventTRB
<1>1. Len(es) \in Nat /\ Len(es) >= 1 /\ DOMAIN es = 1 .. Len(es)
  OBVIOUS
<1>2. Tail(es) \in Seq(EventTRB) /\ Len(Tail(es)) = Len(es) - 1
  OBVIOUS
<1>3. DOMAIN Tail(es) = 1 .. Len(es) - 1
  BY <1>1, <1>2
<1>4. \A i \in DOMAIN Tail(es) : Tail(es)[i] = es[i + 1]
  BY <1>1, <1>3
<1>5. es[1] = Head(es) /\ Head(es) \in EventTRB
  BY <1>1
<1> QED BY <1>1, <1>2, <1>3, <1>4, <1>5

\* An event more.
LEMMA AppendEvents ==
  ASSUME NEW es \in Seq(EventTRB), NEW new \in EventTRB
  PROVE  /\ Append(es, new) \in Seq(EventTRB)
         /\ DOMAIN Append(es, new) = DOMAIN es \cup {Len(es) + 1}
         /\ Append(es, new)[Len(es) + 1] = new
         /\ \A i \in DOMAIN es : Append(es, new)[i] = es[i] /\ i # Len(es) + 1
<1> HIDE DEF EventTRB
<1>1. Len(es) \in Nat /\ DOMAIN es = 1 .. Len(es)
  OBVIOUS
<1>2. Append(es, new) \in Seq(EventTRB) /\ Len(Append(es, new)) = Len(es) + 1
  OBVIOUS
<1>3. DOMAIN Append(es, new) = DOMAIN es \cup {Len(es) + 1}
  BY <1>1, <1>2
<1>4. \A i \in DOMAIN es : Append(es, new)[i] = es[i] /\ i # Len(es) + 1
  BY <1>1
<1>5. Append(es, new)[Len(es) + 1] = new
  BY <1>1
<1> QED BY <1>2, <1>3, <1>4, <1>5

\* The answers after the first event, in a table that has their requests still.
LEMMA AnswersLeft ==
  ASSUME NEW es \in Seq(EventTRB), es # <<>>, NEW t, NEW u, NEW b, NEW x,
         Answers(t, es, b, x),
         \A e \in Transfers(es) : e # 1 => Has(u, es[e].pointer)
  PROVE  Answers(u, Tail(es), b, x)
<1> HIDE DEF EventTRB
<1>1. \A i \in Transfers(Tail(es)) :
        i + 1 \in Transfers(es) /\ i + 1 # 1 /\ Tail(es)[i] = es[i + 1] /\ i \in Nat
  BY TailEvents DEF Transfers, OfType
<1>2. ASSUME NEW i \in Transfers(Tail(es))
      PROVE  IsAnswer(Tail(es)[i].pointer, b, x) /\ Has(u, Tail(es)[i].pointer)
  BY <1>1 DEF Answers
<1>3. ASSUME NEW i \in Transfers(Tail(es)), NEW j \in Transfers(Tail(es)),
             Tail(es)[i].pointer = Tail(es)[j].pointer
      PROVE  i = j
  <2>1. i + 1 = j + 1
    BY <1>1, <1>3 DEF Answers
  <2> QED BY <1>1, <2>1
<1> QED BY <1>2, <1>3 DEF Answers

\* An event that leaves the table as it is.
LEMMA EventDropped ==
  ASSUME NEW es \in Seq(EventTRB), es # <<>>,
         NEW trbs, NEW t, NEW write, NEW read, NEW b, NEW m, NEW x, NEW long,
         Requests(trbs, t, write, read, es, b, m, x, long)
  PROVE  Requests(trbs, t, write, read, Tail(es), b, m, x, long)
<1>1. Answers(t, es, b, x)
  BY DEF Requests
<1>2. Answers(t, Tail(es), b, x)
  BY <1>1, AnswersLeft DEF Answers
<1> QED BY <1>2 DEF Requests

\* An answer whose entry is taken out of the table, and which may have been
\* the last one.
Quiet(table, es, write, read) == Used(table) = {} /\ Transfers(es) = {} /\ write = read
LEMMA AnswerTaken ==
  ASSUME NEW es \in Seq(EventTRB), es # <<>>, Head(es).type = "transfer",
         NEW trbs, NEW t, Table(t), NEW write, NEW read,
         NEW b, NEW m \in Nat, NEW x, NEW long \in BOOLEAN,
         Requests(trbs, t, write, read, es, b, m, x, long)
  PROVE  LET u == Delete(t, Head(es).pointer)
         IN  /\ Table(u)
             /\ Requests(trbs, u, write, read, Tail(es), b, m, x, long)
             /\ m <= 1 => Quiet(u, Tail(es), write, read)
<1> DEFINE key == Head(es).pointer
           u == Delete(t, key)
<1>1. /\ Span(write, read, b, m, x, long) /\ Stages(trbs, b, m, long)
      /\ Entries(t, b, m) /\ Pending(t, b, m, x) /\ Answers(t, es, b, x)
  BY DEF Requests
<1>2. 1 \in Transfers(es) /\ es[1].pointer = key
  BY TailEvents DEF Transfers, OfType
<1>3. PICK i \in Used(t) : t[i].key = key
  BY <1>1, <1>2 DEF Answers, Has
<1>4. PICK j \in 0 .. x - 1 : key = Place(b, 2 * j + 1)
  BY <1>1, <1>2 DEF Answers, IsAnswer
<1>5. \A n, o \in Used(t) : t[n].key = t[o].key => n = o
  BY <1>1 DEF Entries
<1> HIDE DEF key
<1>6. /\ Table(u) /\ Used(u) = Used(t) \ {i}
      /\ \A n \in 1 .. MapSize : u[n].key = t[n].key /\ u[n].value = t[n].value
  BY <1>3, <1>5, DeleteEntry
<1> HIDE DEF u
<1>7. \A n \in Used(u) : n \in Used(t) /\ u[n].key = t[n].key /\ u[n].value = t[n].value
  BY <1>6, TableEntry
<1>8. \A other : Has(t, other) /\ other # key => Has(u, other)
  <2> SUFFICES ASSUME NEW other, NEW n \in Used(t), t[n].key = other, other # key
               PROVE  Has(u, other)
    BY DEF Has
  <2>1. n \in Used(u) /\ u[n].key = other
    BY <1>3, <1>6, TableEntry
  <2> QED BY <2>1 DEF Has
<1>9. Entries(u, b, m)
  BY <1>1, <1>7 DEF Entries
<1>10. /\ b \in 0 .. RingSize - 2 /\ m \in Nat /\ x \in 0 .. m
       /\ Length(m, long) < RingSize - 1 /\ (long => m <= 1)
       /\ write = Place(b, Length(m, long)) /\ read = Place(b, Length(x, long))
  BY <1>1 DEF Span
<1>11. Pending(u, b, m, x)
  <2> SUFFICES ASSUME NEW l \in x .. m - 1
               PROVE  Has(u, Place(b, 2 * l + 1))
    BY DEF Pending
  <2>1. l \in Nat /\ j < l /\ l + 1 <= m
    BY <1>10
  <2>2. 2 * l + 1 < RingSize - 1
    <3>1. CASE long
      BY <1>10, <2>1, <3>1, RingSizeAssumption
    <3>2. CASE ~long
      BY <1>10, <2>1, <3>2, RingSizeAssumption DEF Length
    <3> QED BY <3>1, <3>2
  <2>3. Place(b, 2 * l + 1) # Place(b, 2 * j + 1)
    <3>1. 2 * j + 1 \in Nat /\ 2 * l + 1 \in Nat /\ 2 * j + 1 < 2 * l + 1
      BY <1>10, <2>1
    <3>2. 2 * j + 1 < RingSize - 1
      BY <2>2, <3>1, RingSizeAssumption
    <3> QED BY <1>10, <2>2, <3>1, <3>2, PlaceDistinct
  <2>4. Has(t, Place(b, 2 * l + 1))
    BY <1>1 DEF Pending
  <2> QED BY <1>4, <1>8, <2>3, <2>4
<1>12. Answers(u, Tail(es), b, x)
  <2>1. \A e \in Transfers(es) : e # 1 => Has(u, es[e].pointer)
    BY <1>1, <1>2, <1>8 DEF Answers
  <2> QED BY <1>1, <2>1, AnswersLeft
<1>13. Requests(trbs, u, write, read, Tail(es), b, m, x, long)
  BY <1>1, <1>9, <1>11, <1>12 DEF Requests
<1>14. ASSUME m <= 1
       PROVE  Quiet(u, Tail(es), write, read)
  <2>1. m = 1 /\ x = 1
    BY <1>4, <1>10, <1>14
  <2>2. \A n \in Used(t) : n = 1
    <3> SUFFICES ASSUME NEW n \in Used(t) PROVE n = 1
      OBVIOUS
    <3>1. n \in 1 .. MapSize /\ n <= m
      BY <1>1, TableEntry DEF Entries
    <3> QED BY <2>1, <3>1
  <2>3. Used(u) = {}
    BY <1>3, <1>6, <2>2
  <2>4. Transfers(Tail(es)) = {}
    <3> SUFFICES ASSUME NEW e \in Transfers(Tail(es)) PROVE FALSE
      OBVIOUS
    <3>1. Has(u, Tail(es)[e].pointer)
      BY <1>12 DEF Answers
    <3> QED BY <2>3, <3>1 DEF Has
  <2> QED BY <1>10, <2>1, <2>3, <2>4 DEF Quiet
<1> QED BY <1>6, <1>13, <1>14 DEF u, key

\* An event that is no answer of the control pipe.
LEMMA EventPosted ==
  ASSUME NEW es \in Seq(EventTRB), NEW new \in EventTRB, new.type # "transfer",
         NEW trbs, NEW t, NEW write, NEW read, NEW b, NEW m, NEW x, NEW long,
         Requests(trbs, t, write, read, es, b, m, x, long)
  PROVE  Requests(trbs, t, write, read, Append(es, new), b, m, x, long)
<1> HIDE DEF EventTRB
<1>1. \A e \in Transfers(Append(es, new)) : e \in Transfers(es) /\ Append(es, new)[e] = es[e]
  BY AppendEvents DEF Transfers, OfType
<1>2. Answers(t, Append(es, new), b, x)
  BY <1>1 DEF Requests, Answers
<1> QED BY <1>2 DEF Requests

\* The controller has done a request.
LEMMA RequestDone ==
  ASSUME NEW es \in Seq(EventTRB), NEW ok \in BOOLEAN,
         NEW trbs, NEW t, NEW write, NEW read, NEW b, NEW m, NEW x, NEW long,
         Requests(trbs, t, write, read, es, b, m, x, long), read # write
  PROVE  LET next == IF HasDataStage(trbs[read].setup) THEN After(After(After(read)))
                     ELSE After(After(read))
             new == TransferEvent(After(read), ok)
         IN  /\ new \in EventTRB
             /\ Requests(trbs, t, write, next, Append(es, new), b, m, x + 1, long)
<1> DEFINE next == IF HasDataStage(trbs[read].setup) THEN After(After(After(read)))
                   ELSE After(After(read))
           new == TransferEvent(After(read), ok)
           k == 2 * x
<1>1. /\ Span(write, read, b, m, x, long) /\ Stages(trbs, b, m, long)
      /\ Entries(t, b, m) /\ Pending(t, b, m, x) /\ Answers(t, es, b, x)
  BY DEF Requests
<1>2. /\ b \in 0 .. RingSize - 2 /\ m \in Nat /\ x \in 0 .. m /\ long \in BOOLEAN
      /\ Length(m, long) < RingSize - 1 /\ (long => m <= 1)
      /\ write = Place(b, Length(m, long)) /\ read = Place(b, Length(x, long))
  BY <1>1 DEF Span
<1>3. x # m /\ x \in 0 .. m - 1 /\ x + 1 \in 0 .. m
  BY <1>2
<1>4. /\ Length(x, long) = k /\ k \in Nat /\ k + 2 < RingSize
      /\ Length(x + 1, long) = (IF long THEN k + 3 ELSE k + 2)
      /\ long => k + 3 < RingSize
  <2>1. CASE long
    BY <1>2, <1>3, <2>1, RingSizeAssumption DEF Length
  <2>2. CASE ~long
    BY <1>2, <1>3, <2>2, RingSizeAssumption DEF Length
  <2> QED BY <2>1, <2>2, <1>2
<1>5. HasDataStage(trbs[read].setup) <=> long
  BY <1>1, <1>2, <1>3, <1>4 DEF Stages
<1> HIDE DEF k
<1>6. read = Place(b, k) /\ After(read) = Place(b, k + 1) /\ After(read) \in 0 .. RingSize - 2
  <2>1. k < RingSize - 1 /\ k + 1 \in Nat /\ k + 1 < RingSize - 1
    BY <1>4, RingSizeAssumption
  <2>2. Place(b, k + 1) \in 0 .. RingSize - 2
    BY <1>2, <2>1, PlaceAfter
  <2>3. After(Place(b, k)) = Place(b, k + 1)
    BY <1>2, <1>4, <2>1, PlaceAfter
  <2> QED BY <1>2, <1>4, <2>2, <2>3
<1>7. next = Place(b, Length(x + 1, long))
  <2>1. k + 1 \in Nat /\ k + 1 < RingSize - 1 /\ (k + 1) + 1 = k + 2
    BY <1>4, RingSizeAssumption
  <2>2. After(After(read)) = Place(b, k + 2)
    BY <1>2, <1>6, <2>1, PlaceAfter
  <2>3. ASSUME long PROVE After(After(After(read))) = Place(b, k + 3)
    <3>1. k + 2 \in Nat /\ k + 2 < RingSize - 1 /\ (k + 2) + 1 = k + 3
      BY <1>4, <2>3, RingSizeAssumption
    <3> QED BY <1>2, <2>2, <3>1, PlaceAfter
  <2> QED BY <1>2, <1>4, <1>5, <2>2, <2>3
<1>8. Span(write, next, b, m, x + 1, long)
  <2> HIDE DEF next
  <2> QED BY <1>2, <1>3, <1>7 DEF Span
<1>9. new \in EventTRB /\ new.type = "transfer" /\ new.pointer = Place(b, 2 * x + 1)
  BY <1>6 DEF TransferEvent, EventTRB, k
<1>10. Pending(t, b, m, x + 1)
  BY <1>1, <1>2 DEF Pending
<1> HIDE DEF new, EventTRB
<1> DEFINE all == Append(es, new)
           last == Len(es) + 1
<1>11. Transfers(all) = Transfers(es) \cup {last} /\ all[last] = new
  BY <1>9, AppendEvents DEF Transfers, OfType
<1>12. \A e \in Transfers(es) : all[e] = es[e] /\ e # last
  BY <1>9, AppendEvents DEF Transfers, OfType
<1> HIDE DEF all, last
<1>13. Has(t, Place(b, 2 * x + 1))
  BY <1>1, <1>3 DEF Pending
<1>14. \A e \in Transfers(es) : es[e].pointer # new.pointer
  <2> SUFFICES ASSUME NEW e \in Transfers(es), es[e].pointer = new.pointer PROVE FALSE
    OBVIOUS
  <2>1. PICK j \in 0 .. x - 1 : es[e].pointer = Place(b, 2 * j + 1)
    BY <1>1 DEF Answers, IsAnswer
  <2>2. 2 * j + 1 \in Nat /\ 2 * x + 1 \in Nat /\ 2 * j + 1 < 2 * x + 1
    BY <1>2
  <2>3. 2 * x + 1 < RingSize - 1
    BY <1>4, RingSizeAssumption DEF k
  <2>4. 2 * j + 1 < RingSize - 1
    BY <2>2, <2>3, RingSizeAssumption
  <2>5. 2 * j + 1 = 2 * x + 1
    BY <1>2, <1>9, <2>1, <2>2, <2>3, <2>4, PlaceDistinct
  <2> QED BY <2>2, <2>5
<1>15. Answers(t, all, b, x + 1)
  <2>1. ASSUME NEW e \in Transfers(all)
        PROVE  IsAnswer(all[e].pointer, b, x + 1) /\ Has(t, all[e].pointer)
    <3>1. CASE e = last
      <4>1. x \in 0 .. (x + 1) - 1
        BY <1>2
      <4>2. IsAnswer(new.pointer, b, x + 1)
        BY <1>9, <4>1 DEF IsAnswer
      <4> QED BY <1>9, <1>11, <1>13, <3>1, <4>2
    <3>2. CASE e # last
      <4>1. e \in Transfers(es) /\ all[e] = es[e]
        BY <1>11, <1>12, <3>2
      <4>2. PICK j \in 0 .. x - 1 : es[e].pointer = Place(b, 2 * j + 1)
        BY <1>1, <4>1 DEF Answers, IsAnswer
      <4>3. j \in 0 .. (x + 1) - 1
        BY <1>2
      <4>4. IsAnswer(es[e].pointer, b, x + 1)
        BY <4>2, <4>3 DEF IsAnswer
      <4> QED BY <1>1, <4>1, <4>4 DEF Answers
    <3> QED BY <3>1, <3>2
  <2>2. ASSUME NEW e \in Transfers(all), NEW f \in Transfers(all), all[e].pointer = all[f].pointer
        PROVE  e = f
    BY <1>1, <1>11, <1>12, <1>14, <2>2 DEF Answers
  <2> QED BY <2>1, <2>2 DEF Answers
<1> QED BY <1>1, <1>8, <1>9, <1>10, <1>15 DEF Requests, all, new
-----------------------------------------------------------------------------
(* Events come and go.                                                     *)

\* The kinds of the events after the first one.
LEMMA TailKinds ==
  ASSUME NEW es \in Seq(EventTRB), es # <<>>, NEW type
  PROVE  /\ None(es, type) => None(Tail(es), type)
         /\ AtMostOne(es, type) => AtMostOne(Tail(es), type)
         /\ AtMostOne(es, type) /\ Head(es).type = type => None(Tail(es), type)
<1> HIDE DEF EventTRB
<1>1. \A i \in OfType(Tail(es), type) : i + 1 \in OfType(es, type) /\ i + 1 # 1 /\ i \in Nat
  BY TailEvents DEF OfType
<1>2. Head(es).type = type => 1 \in OfType(es, type)
  BY TailEvents DEF OfType
<1>3. None(es, type) => None(Tail(es), type)
  BY <1>1 DEF None
<1>4. ASSUME AtMostOne(es, type), NEW i \in OfType(Tail(es), type), NEW j \in OfType(Tail(es), type)
      PROVE  i = j
  <2>1. i + 1 = j + 1
    BY <1>1, <1>4 DEF AtMostOne
  <2> QED BY <1>1, <2>1
<1>5. AtMostOne(es, type) => AtMostOne(Tail(es), type)
  BY <1>4 DEF AtMostOne
<1>6. ASSUME AtMostOne(es, type), Head(es).type = type, NEW i \in OfType(Tail(es), type)
      PROVE  FALSE
  BY <1>1, <1>2, <1>6 DEF AtMostOne
<1>7. AtMostOne(es, type) /\ Head(es).type = type => None(Tail(es), type)
  BY <1>6 DEF None
<1> QED BY <1>3, <1>5, <1>7

\* A report is still there when another event is taken.
LEMMA TailReport ==
  ASSUME NEW es \in Seq(EventTRB), es # <<>>, Head(es).type # "report"
  PROVE  ReportCame(Tail(es)) <=> ReportCame(es)
<1> HIDE DEF EventTRB
<1>1. ASSUME NEW i \in OfType(Tail(es), "report"), Tail(es)[i].ok = TRUE
      PROVE  ReportCame(es)
  <2>1. i + 1 \in OfType(es, "report") /\ Tail(es)[i] = es[i + 1]
    BY TailEvents DEF OfType
  <2> QED BY <1>1, <2>1 DEF ReportCame
<1>2. ASSUME NEW i \in OfType(es, "report"), es[i].ok = TRUE
      PROVE  ReportCame(Tail(es))
  <2>1. i \in 1 .. Len(es) /\ Len(es) \in Nat /\ es[i].type = "report"
    BY DEF OfType
  <2>2. i # 1
    BY <2>1, TailEvents
  <2>3. i - 1 \in DOMAIN Tail(es) /\ (i - 1) + 1 = i
    <3>1. Len(Tail(es)) = Len(es) - 1 /\ DOMAIN Tail(es) = 1 .. Len(Tail(es))
      OBVIOUS
    <3> QED BY <2>1, <2>2, <3>1
  <2>4. Tail(es)[i - 1] = es[(i - 1) + 1]
    BY <2>3, TailEvents
  <2>5. i - 1 \in OfType(Tail(es), "report") /\ Tail(es)[i - 1].ok = TRUE
    BY <1>2, <2>1, <2>3, <2>4 DEF OfType
  <2> QED BY <2>5 DEF ReportCame
<1> QED BY <1>1, <1>2 DEF ReportCame

\* The kinds of the events when one is added.
LEMMA AppendKinds ==
  ASSUME NEW es \in Seq(EventTRB), NEW new \in EventTRB, NEW type
  PROVE  /\ new.type # type /\ None(es, type) => None(Append(es, new), type)
         /\ new.type # type /\ AtMostOne(es, type) => AtMostOne(Append(es, new), type)
         /\ None(es, type) => AtMostOne(Append(es, new), type)
<1> HIDE DEF EventTRB
<1> DEFINE all == Append(es, new)
           last == Len(es) + 1
<1>1. \A i \in OfType(all, type) : i \in OfType(es, type) \/ i = last
  BY AppendEvents DEF OfType
<1>2. new.type # type => last \notin OfType(all, type)
  BY AppendEvents DEF OfType
<1> HIDE DEF all, last
<1>3. new.type # type /\ None(es, type) => None(all, type)
  BY <1>1, <1>2 DEF None
<1>4. new.type # type /\ AtMostOne(es, type) => AtMostOne(all, type)
  BY <1>1, <1>2 DEF AtMostOne
<1>5. None(es, type) => AtMostOne(all, type)
  BY <1>1 DEF None, AtMostOne
<1> QED BY <1>3, <1>4, <1>5 DEF all

\* A report is there when one was there or has come.
LEMMA AppendReport ==
  ASSUME NEW es \in Seq(EventTRB), NEW new \in EventTRB
  PROVE  ReportCame(Append(es, new)) <=> ReportCame(es) \/ (new.type = "report" /\ new.ok = TRUE)
<1> HIDE DEF EventTRB
<1> DEFINE all == Append(es, new)
           last == Len(es) + 1
<1>1. \A i \in OfType(all, "report") : (i \in OfType(es, "report") /\ all[i] = es[i]) \/ i = last
  BY AppendEvents DEF OfType
<1>2. all[last] = new /\ (new.type = "report" <=> last \in OfType(all, "report"))
  BY AppendEvents DEF OfType
<1>3. \A i \in OfType(es, "report") : i \in OfType(all, "report") /\ all[i] = es[i]
  BY AppendEvents DEF OfType
<1> HIDE DEF all, last
<1>4. ReportCame(all) => ReportCame(es) \/ (new.type = "report" /\ new.ok = TRUE)
  BY <1>1, <1>2 DEF ReportCame
<1>5. ReportCame(es) => ReportCame(all)
  BY <1>3 DEF ReportCame
<1>6. new.type = "report" /\ new.ok = TRUE => ReportCame(all)
  BY <1>2 DEF ReportCame
<1> QED BY <1>4, <1>5, <1>6 DEF all

-----------------------------------------------------------------------------
(* The requests of a device.                                               *)

\* What the control pipe has when nothing is outstanding.
LEMMA FewNothing ==
  ASSUME NEW d, NEW read, NEW es, Table(d.setup_stage_map)
  PROVE  /\ Few(d, read, es, 0) =>
              /\ Used(d.setup_stage_map) = {} /\ Transfers(es) = {}
              /\ read = d.write_index /\ d.write_index \in 0 .. RingSize - 2
         /\ /\ Used(d.setup_stage_map) = {} /\ Transfers(es) = {}
            /\ read = d.write_index /\ d.write_index \in 0 .. RingSize - 2
            => Few(d, read, es, 0) /\ Short(d, read, es, 0)
<1> DEFINE t == d.setup_stage_map
           w == d.write_index
<1>1. ASSUME Few(d, read, es, 0)
      PROVE  Used(t) = {} /\ Transfers(es) = {} /\ read = w /\ w \in 0 .. RingSize - 2
  <2>1. PICK b \in 0 .. RingSize - 2, m \in Nat, x \in Nat, long \in BOOLEAN :
          Requests(d.trbs, t, w, read, es, b, m, x, long) /\ m <= 0
    BY <1>1 DEF Few
  <2>2. m = 0 /\ Span(w, read, b, m, x, long) /\ Entries(t, b, m) /\ Answers(t, es, b, x)
    BY <2>1 DEF Requests
  <2>3. x = 0 /\ read = w /\ w \in 0 .. RingSize - 2
    BY <2>2, RingSizeAssumption DEF Span, Length, Place
  <2>4. Used(t) = {}
    <3> SUFFICES ASSUME NEW i \in Used(t) PROVE FALSE
      OBVIOUS
    <3>1. i \in 1 .. MapSize /\ i <= 0
      BY <2>2, TableEntry DEF Entries
    <3> QED BY <3>1, TablesAssumption
  <2>5. Transfers(es) = {}
    BY <2>2, <2>3 DEF Answers, IsAnswer
  <2> QED BY <2>3, <2>4, <2>5
<1>2. ASSUME Used(t) = {}, Transfers(es) = {}, read = w, w \in 0 .. RingSize - 2
      PROVE  Few(d, read, es, 0) /\ Short(d, read, es, 0)
  <2> DEFINE no == FALSE
  <2>0. no \in BOOLEAN /\ ~no
    OBVIOUS
  <2> HIDE DEF no
  <2>1. Requests(d.trbs, t, w, read, es, w, 0, 0, no)
    <3> HIDE DEF t, w
    <3> QED BY <1>2, <2>0, NoneOutstanding
  <2>2. Short(d, read, es, 0)
    BY <1>2, <2>0, <2>1 DEF Short, t, w
  <2>3. Few(d, read, es, 0)
    BY <1>2, <2>0, <2>1 DEF Few, t, w
  <2> QED BY <2>2, <2>3
<1> QED BY <1>1, <1>2

\* An event that has nothing to do with the control pipe, or a failed answer.
LEMMA FewDropped ==
  ASSUME NEW es \in Seq(EventTRB), es # <<>>, NEW d, NEW read, NEW n
  PROVE  /\ Few(d, read, es, n) => Few(d, read, Tail(es), n)
         /\ Short(d, read, es, n) => Short(d, read, Tail(es), n)
<1>1. Few(d, read, es, n) => Few(d, read, Tail(es), n)
  BY EventDropped DEF Few
<1>2. Short(d, read, es, n) => Short(d, read, Tail(es), n)
  BY EventDropped DEF Short
<1> QED BY <1>1, <1>2

\* A new event that is no answer leaves the requests alone.
LEMMA FewPosted ==
  ASSUME NEW es \in Seq(EventTRB), NEW new \in EventTRB, new.type # "transfer",
         NEW d, NEW read, NEW n
  PROVE  /\ Few(d, read, es, n) => Few(d, read, Append(es, new), n)
         /\ Short(d, read, es, n) => Short(d, read, Append(es, new), n)
<1>1. Few(d, read, es, n) => Few(d, read, Append(es, new), n)
  BY EventPosted DEF Few
<1>2. Short(d, read, es, n) => Short(d, read, Append(es, new), n)
  BY EventPosted DEF Short
<1> QED BY <1>1, <1>2

\* An answer that was taken out of the table; the only one there was.
LEMMA FewTaken ==
  ASSUME NEW es \in Seq(EventTRB), es # <<>>, Head(es).type = "transfer",
         NEW d, NEW c, NEW read, NEW n, Table(d.setup_stage_map),
         c.trbs = d.trbs, c.write_index = d.write_index,
         c.setup_stage_map = Delete(d.setup_stage_map, Head(es).pointer)
  PROVE  /\ Few(d, read, es, n) \/ Short(d, read, es, n) => Table(c.setup_stage_map)
         /\ Few(d, read, es, n) => Few(c, read, Tail(es), n)
         /\ Short(d, read, es, n) => Short(c, read, Tail(es), n)
         /\ n = 1 /\ Few(d, read, es, n) => Few(c, read, Tail(es), 0)
<1> DEFINE t == d.setup_stage_map
           u == c.setup_stage_map
<1>1. \A b, x : \A m \in Nat, long \in BOOLEAN :
        Requests(d.trbs, t, d.write_index, read, es, b, m, x, long) =>
          /\ Table(u)
          /\ Requests(c.trbs, u, c.write_index, read, Tail(es), b, m, x, long)
          /\ m <= 1 => Quiet(u, Tail(es), c.write_index, read)
  <2> TAKE b, x
  <2> TAKE m \in Nat, long \in BOOLEAN
  <2> HAVE Requests(d.trbs, t, d.write_index, read, es, b, m, x, long)
  <2>1. Table(t) /\ Requests(d.trbs, t, d.write_index, read, es, b, m, x, long)
    OBVIOUS
  <2> DEFINE v == Delete(t, Head(es).pointer)
  <2> HIDE DEF t
  <2>2. /\ Table(v)
        /\ Requests(d.trbs, v, d.write_index, read, Tail(es), b, m, x, long)
        /\ m <= 1 => Quiet(v, Tail(es), d.write_index, read)
    <3>1. Table(v)
      BY <2>1, AnswerTaken
    <3>2. Requests(d.trbs, v, d.write_index, read, Tail(es), b, m, x, long)
      BY <2>1, AnswerTaken
    <3>3. m <= 1 => Quiet(v, Tail(es), d.write_index, read)
      BY <2>1, AnswerTaken
    <3> QED BY <3>1, <3>2, <3>3
  <2>3. u = v
    BY DEF t
  <2> HIDE DEF u, v
  <2> QED BY <2>2, <2>3
<1> HIDE DEF t, u
<1>2. Few(d, read, es, n) \/ Short(d, read, es, n) => Table(u)
  BY <1>1 DEF Few, Short, t
<1>3. Few(d, read, es, n) => Few(c, read, Tail(es), n)
  BY <1>1 DEF Few, t, u
<1>4. Short(d, read, es, n) => Short(c, read, Tail(es), n)
  BY <1>1 DEF Short, t, u
<1>5. ASSUME n = 1, Few(d, read, es, n) PROVE Few(c, read, Tail(es), 0)
  <2>1. PICK b \in 0 .. RingSize - 2, m \in Nat, x \in Nat, long \in BOOLEAN :
          Requests(d.trbs, t, d.write_index, read, es, b, m, x, long) /\ m <= 1
    BY <1>5 DEF Few, t
  <2>2. Used(u) = {} /\ Transfers(Tail(es)) = {} /\ c.write_index = read /\ Table(u)
    BY <1>1, <2>1 DEF Quiet
  <2>3. c.write_index \in 0 .. RingSize - 2
    <3>1. Length(m, long) \in Nat /\ Length(m, long) < RingSize - 1
      BY <2>1 DEF Requests, Span, Length
    <3>2. c.write_index = Place(b, Length(m, long))
      BY <2>1 DEF Requests, Span
    <3> QED BY <3>1, <3>2, PlaceAfter
  <2> QED BY <2>2, <2>3, FewNothing DEF u
<1> QED BY <1>2, <1>3, <1>4, <1>5 DEF u

\* A new request.
LEMMA FewGiven ==
  ASSUME NEW es, NEW d, Device(d), Buffer(d.trbs), Table(d.setup_stage_map),
         NEW setup, NEW issuer \in BOOLEAN, NEW read, Few(d, read, es, 0)
  PROVE  LET c == ControlTransfer(d, setup, issuer)
         IN  Buffer(c.trbs) /\ Table(c.setup_stage_map) /\ Few(c, read, es, 1)
<1> DEFINE c == ControlTransfer(d, setup, issuer)
           long == HasDataStage(setup)
           w == d.write_index
<1>1. /\ Used(d.setup_stage_map) = {} /\ Transfers(es) = {}
      /\ read = w /\ w \in 0 .. RingSize - 2
  BY FewNothing
<1>2. long \in BOOLEAN
  BY DEF HasDataStage
<1>3. Requests(d.trbs, d.setup_stage_map, w, read, es, w, 0, 0, long)
  <2> HIDE DEF long, w
  <2> QED BY <1>1, <1>2, NoneOutstanding
<1>4. 0 < MapSize /\ Length(0 + 1, long) < RingSize - 1
  BY TablesAssumption, RingSizeAssumption DEF Length
<1>5. /\ Buffer(c.trbs) /\ Table(c.setup_stage_map)
      /\ Requests(c.trbs, c.setup_stage_map, c.write_index, read, es, w, 0 + 1, 0, long)
  <2> DEFINE l == long
  <2>1. l \in BOOLEAN /\ (l <=> HasDataStage(setup)) /\ l = long
    BY <1>2
  <2> HIDE DEF l
  <2> QED BY <1>3, <1>4, <2>1, RequestGiven
<1> HIDE DEF c, long
<1>6. Few(c, read, es, 1)
  BY <1>1, <1>2, <1>5 DEF Few
<1> QED BY <1>5, <1>6 DEF c

\* One more request without a data stage.
LEMMA ShortGiven ==
  ASSUME NEW es, NEW d, Device(d), Buffer(d.trbs), Table(d.setup_stage_map),
         NEW setup, ~HasDataStage(setup), NEW issuer \in BOOLEAN, NEW read, NEW n \in Nat,
         Short(d, read, es, n), n < MapSize, 2 * (n + 1) < RingSize - 1
  PROVE  LET c == ControlTransfer(d, setup, issuer)
         IN  Buffer(c.trbs) /\ Table(c.setup_stage_map) /\ Short(c, read, es, n + 1)
<1> DEFINE c == ControlTransfer(d, setup, issuer)
<1>1. PICK b \in 0 .. RingSize - 2, m \in Nat, x \in Nat, long \in BOOLEAN :
        /\ Requests(d.trbs, d.setup_stage_map, d.write_index, read, es, b, m, x, long)
        /\ m <= n /\ ~long
  BY DEF Short
<1>2. m < MapSize /\ Length(m + 1, long) < RingSize - 1
  BY <1>1, TablesAssumption, RingSizeAssumption DEF Length
<1>3. /\ Buffer(c.trbs) /\ Table(c.setup_stage_map)
      /\ Requests(c.trbs, c.setup_stage_map, c.write_index, read, es, b, m + 1, x, long)
  BY <1>1, <1>2, RequestGiven
<1> HIDE DEF c
<1>4. m + 1 \in Nat /\ m + 1 <= n + 1
  BY <1>1
<1>5. Short(c, read, es, n + 1)
  BY <1>1, <1>3, <1>4 DEF Short
<1> QED BY <1>3, <1>5 DEF c

\* The controller's step.
LEMMA FewDone ==
  ASSUME NEW es \in Seq(EventTRB), NEW ok \in BOOLEAN, NEW d, NEW read, NEW n,
         read # d.write_index
  PROVE  LET next == IF HasDataStage(d.trbs[read].setup) THEN After(After(After(read)))
                     ELSE After(After(read))
             new == TransferEvent(After(read), ok)
         IN  /\ Few(d, read, es, n) => new \in EventTRB /\ Few(d, next, Append(es, new), n)
             /\ Short(d, read, es, n) => new \in EventTRB /\ Short(d, next, Append(es, new), n)
<1> DEFINE next == IF HasDataStage(d.trbs[read].setup) THEN After(After(After(read)))
                   ELSE After(After(read))
           new == TransferEvent(After(read), ok)
<1>1. \A b, m, x, long :
        Requests(d.trbs, d.setup_stage_map, d.write_index, read, es, b, m, x, long) =>
          /\ new \in EventTRB
          /\ Requests(d.trbs, d.setup_stage_map, d.write_index, next, Append(es, new),
                      b, m, x + 1, long)
  BY RequestDone
<1> HIDE DEF next, new
<1>2. Few(d, read, es, n) => new \in EventTRB /\ Few(d, next, Append(es, new), n)
  BY <1>1 DEF Few
<1>3. Short(d, read, es, n) => new \in EventTRB /\ Short(d, next, Append(es, new), n)
  <2> SUFFICES ASSUME Short(d, read, es, n)
               PROVE  new \in EventTRB /\ Short(d, next, Append(es, new), n)
    OBVIOUS
  <2>1. PICK b \in 0 .. RingSize - 2, m \in Nat, x \in Nat, long \in BOOLEAN :
          /\ Requests(d.trbs, d.setup_stage_map, d.write_index, read, es, b, m, x, long)
          /\ m <= n /\ ~long
    BY DEF Short
  <2>2. /\ new \in EventTRB /\ x + 1 \in Nat
        /\ Requests(d.trbs, d.setup_stage_map, d.write_index, next, Append(es, new),
                    b, m, x + 1, long)
    BY <1>1, <2>1
  <2> QED BY <2>1, <2>2 DEF Short
<1> QED BY <1>2, <1>3 DEF next, new
-----------------------------------------------------------------------------
(* The invariant: the first state, and the steps one by one.               *)

\* The invariant holds when the device has got its address.
LEMMA InitInv == Init => IInv
<1> SUFFICES ASSUME Init PROVE IInv
  OBVIOUS
<1> USE DEF Init
<1>1. /\ Device(dev) /\ dev.initialize_phase = 0 /\ dev.hid_phase = 0
      /\ dev.hid_buf = {} /\ dev.previous_buf = {} /\ dev.write_index = 0
      /\ dev.setup_stage_map = EmptyTable(MapSize)
      /\ dev.trbs = [i \in 0 .. RingSize - 2 |-> NoTRB]
  BY DEF NewDevice, Device, Fields
<1>2. None(events, "command") /\ None(events, "report") /\ Transfers(events) = {}
  BY DEF None, OfType, Transfers
<1>3. Typed
  BY <1>1 DEF Typed
<1>4. PhaseInv
  BY <1>1 DEF PhaseInv
<1>5. CommandInv /\ ReportInv
  BY <1>1, <1>2 DEF CommandInv, ReportInv, AtMostOne, None
<1>6. NotifyInv
  BY <1>1, <1>2 DEF NotifyInv, ReportCame, None
<1>7. RequestInv
  <2> DEFINE t == EmptyTable(MapSize)
             no == FALSE
  <2>0. no \in BOOLEAN /\ no # TRUE
    OBVIOUS
  <2> HIDE DEF no
  <2>1. t = [i \in 1 .. MapSize |-> [used |-> no, key |-> NoValue, value |-> NoValue]]
    BY DEF EmptyTable, no
  <2> HIDE DEF t
  <2>2. Table(t) /\ Used(t) = {}
    BY <2>0, <2>1 DEF Table, Used
  <2>3. Buffer(dev.trbs)
    BY <1>1 DEF Buffer
  <2>4. 0 \in 0 .. RingSize - 2 /\ dev.setup_stage_map = t
    BY <1>1, RingSizeAssumption DEF t
  <2>5. Few(dev, dequeue, events, 0)
    BY <1>1, <1>2, <2>2, <2>4, FewNothing
  <2> QED BY <1>1, <2>2, <2>3, <2>4, <2>5 DEF RequestInv
<1>8. PoolInv
  <2> DEFINE a == Sizes.alignment
  <2>1. a \in Nat
    BY SizesAssumption
  <2>2. Rest = kMemoryPoolSize - a
    BY <1>1 DEF Rest
  <2>3. alloc_ptr \in PoolStart .. PoolStart + a /\ blocks = {}
    OBVIOUS
  <2> HIDE DEF a
  <2>4. Sound(alloc_ptr, blocks)
    BY <2>1, <2>3, PoolAssumption DEF Sound
  <2> QED BY <2>1, <2>2, <2>3, <2>4, PoolAssumption DEF PoolInv, PoolEnd
<1>9. LoopInv
  BY FS_EmptySet DEF LoopInv
<1> QED BY <1>3, <1>4, <1>5, <1>6, <1>7, <1>8, <1>9 DEF IInv

\* What the invariant does not speak of may change.
LEMMA SameInv ==
  ASSUME IInv, UNCHANGED <<conf, dev, pool, port, dequeue, asked, events, loop, user>>
  PROVE  IInv'
<1>1. Typed' /\ PhaseInv' /\ CommandInv' /\ LoopInv'
  BY DEF IInv, Typed, PhaseInv, CommandInv, LoopInv, loop
<1>2. ReportInv' /\ NotifyInv'
  BY DEF IInv, ReportInv, NotifyInv, loop, user
<1>3. RequestInv'
  BY DEF IInv, RequestInv, Called, Drivers, loop
<1>4. PoolInv'
  BY DEF IInv, PoolInv, Rest, loop, pool
<1> QED BY <1>1, <1>2, <1>3, <1>4 DEF IInv

\* What an EXCEPT of other fields leaves of the pipe.
LEMMA SamePipe ==
  ASSUME NEW c, NEW d, NEW read, NEW es, NEW n, c.trbs = d.trbs,
         c.setup_stage_map = d.setup_stage_map, c.write_index = d.write_index
  PROVE  /\ Few(d, read, es, n) => Few(c, read, es, n)
         /\ Short(d, read, es, n) => Short(c, read, es, n)
  BY DEF Few, Short

\* The invariant's parts that an event of the interrupt endpoint leaves alone.
LEMMA ReportFrame ==
  ASSUME IInv, UNCHANGED <<conf, pool, port, dequeue, loop>>,
         events' \in Seq(EventTRB), Device(dev'),
         dev'.trbs = dev.trbs, dev'.setup_stage_map = dev.setup_stage_map,
         dev'.write_index = dev.write_index,
         dev'.initialize_phase = dev.initialize_phase,
         dev'.ep_configs = dev.ep_configs, dev'.class_drivers = dev.class_drivers,
         \A n : /\ Few(dev, dequeue, events, n) => Few(dev, dequeue, events', n)
                /\ Short(dev, dequeue, events, n) => Short(dev, dequeue, events', n)
  PROVE  Typed' /\ PhaseInv' /\ RequestInv' /\ PoolInv' /\ LoopInv'
<1>1. Typed' /\ PhaseInv' /\ LoopInv'
  BY DEF IInv, Typed, PhaseInv, LoopInv, loop
<1>2. \A n : /\ Few(dev, dequeue, events, n) => Few(dev', dequeue, events', n)
             /\ Short(dev, dequeue, events, n) => Short(dev', dequeue, events', n)
  <2>1. \A n : /\ Few(dev, dequeue, events', n) => Few(dev', dequeue, events', n)
               /\ Short(dev, dequeue, events', n) => Short(dev', dequeue, events', n)
    BY SamePipe
  <2> QED BY <2>1
<1>3. Called' = Called
  BY DEF Called, Drivers, loop
<1>4. RequestInv'
  BY <1>2, <1>3 DEF IInv, RequestInv
<1>5. PoolInv'
  BY DEF IInv, PoolInv, Rest, loop, pool
<1> QED BY <1>1, <1>4, <1>5

\* Events by their kind.
LEMMA EventKinds ==
  /\ ConfigureCompletion \in EventTRB /\ ConfigureCompletion.type = "command"
  /\ \A ok \in BOOLEAN : /\ ReportEvent(ok) \in EventTRB /\ ReportEvent(ok).type = "report"
                         /\ ReportEvent(ok).ok = ok
<1>1. ConfigureCompletion \in EventTRB /\ ConfigureCompletion.type = "command"
  BY DEF EventTRB, ConfigureCompletion
<1>2. ASSUME NEW ok \in BOOLEAN
      PROVE  /\ ReportEvent(ok) \in EventTRB /\ ReportEvent(ok).type = "report"
             /\ ReportEvent(ok).ok = ok
  BY DEF EventTRB, ReportEvent
<1> QED BY <1>1, <1>2

\* A report arrives where none was under way.
LEMMA SendReportInv == IInv /\ SendReport => IInv'
<1> SUFFICES ASSUME IInv, SendReport PROVE IInv'
  OBVIOUS
<1>1. PICK report \in Reports :
        /\ dev' = [dev EXCEPT !.hid_buf = report]
        /\ sent' = report
        /\ owed' = owed \cup (IF dev.class_driver = "keyboard" THEN report \ sent ELSE report)
  BY DEF SendReport
<1> DEFINE new == ReportEvent(TRUE)
<1>2. new \in EventTRB /\ new.type = "report" /\ new.ok = TRUE
  BY EventKinds
<1>3. events' = Append(events, new) /\ asked > 0 /\ asked' = asked - 1
      /\ UNCHANGED <<conf, pool, port, dequeue, loop>>
  BY DEF SendReport
<1> HIDE DEF new
<1>4. events \in Seq(EventTRB) /\ Device(dev)
  BY DEF IInv, Typed
<1>5. asked = 1 /\ None(events, "report") /\ dev.hid_phase = 2 /\ asked' = 0
  BY <1>3 DEF IInv, ReportInv
<1>6. events' \in Seq(EventTRB)
  BY <1>2, <1>3, <1>4, AppendEvents
<1>7. /\ Device(dev') /\ dev'.hid_buf = report
      /\ dev'.trbs = dev.trbs /\ dev'.setup_stage_map = dev.setup_stage_map
      /\ dev'.write_index = dev.write_index /\ dev'.initialize_phase = dev.initialize_phase
      /\ dev'.ep_configs = dev.ep_configs /\ dev'.class_drivers = dev.class_drivers
      /\ dev'.hid_phase = dev.hid_phase /\ dev'.class_driver = dev.class_driver
      /\ dev'.previous_buf = dev.previous_buf
  <2>1. DOMAIN dev = Fields
    BY <1>4 DEF Device
  <2>2. Device(dev')
    BY <1>1, <2>1 DEF Device
  <2> QED BY <1>1, <2>1, <2>2 DEF Fields
<1>8. \A n : /\ Few(dev, dequeue, events, n) => Few(dev, dequeue, events', n)
             /\ Short(dev, dequeue, events, n) => Short(dev, dequeue, events', n)
  BY <1>2, <1>3, <1>4, FewPosted
<1>9. Typed' /\ PhaseInv' /\ RequestInv' /\ PoolInv' /\ LoopInv'
  BY <1>3, <1>6, <1>7, <1>8, ReportFrame
<1>10. AtMostOne(events', "report")
  BY <1>2, <1>3, <1>4, <1>5, AppendKinds
<1>11. CommandInv'
  <2>1. None(events, "command") => None(events', "command")
    BY <1>2, <1>3, <1>4, AppendKinds
  <2>2. AtMostOne(events, "command") => AtMostOne(events', "command")
    BY <1>2, <1>3, <1>4, AppendKinds
  <2> QED BY <1>3, <2>1, <2>2 DEF IInv, CommandInv
<1>12. ReportInv'
  BY <1>3, <1>5, <1>7, <1>10 DEF IInv, ReportInv, loop
<1>13. NotifyInv'
  <2>1. ReportCame(events')
    BY <1>2, <1>3, <1>4, AppendReport
  <2>2. ~ReportCame(events)
    BY <1>5 DEF None, ReportCame
  <2>3. owed = {} /\ dev.previous_buf = sent
    BY <2>2 DEF IInv, NotifyInv
  <2>4. owed' = Notified(dev')
    BY <1>1, <1>7, <2>3 DEF Notified
  <2> QED BY <1>1, <1>7, <2>1, <2>4 DEF NotifyInv
<1> QED BY <1>9, <1>11, <1>12, <1>13 DEF IInv

\* A transfer that fails tells nothing.
LEMMA FailReportInv == IInv /\ FailReport => IInv'
<1> SUFFICES ASSUME IInv, FailReport PROVE IInv'
  OBVIOUS
<1> DEFINE new == ReportEvent(FALSE)
<1>2. new \in EventTRB /\ new.type = "report" /\ new.ok # TRUE
  BY EventKinds
<1>3. events' = Append(events, new) /\ asked > 0 /\ asked' = asked - 1
      /\ UNCHANGED <<conf, dev, pool, port, dequeue, loop, user>>
  BY DEF FailReport
<1> HIDE DEF new
<1>4. events \in Seq(EventTRB) /\ Device(dev) /\ dev' = dev
  BY <1>3 DEF IInv, Typed
<1>5. asked = 1 /\ None(events, "report") /\ dev.hid_phase = 2 /\ asked' = 0
  BY <1>3 DEF IInv, ReportInv
<1>6. events' \in Seq(EventTRB)
  BY <1>2, <1>3, <1>4, AppendEvents
<1>8. \A n : /\ Few(dev, dequeue, events, n) => Few(dev, dequeue, events', n)
             /\ Short(dev, dequeue, events, n) => Short(dev, dequeue, events', n)
  BY <1>2, <1>3, <1>4, FewPosted
<1>9. Typed' /\ PhaseInv' /\ RequestInv' /\ PoolInv' /\ LoopInv'
  BY <1>3, <1>4, <1>6, <1>8, ReportFrame
<1>10. AtMostOne(events', "report")
  BY <1>2, <1>3, <1>4, <1>5, AppendKinds
<1>11. CommandInv'
  <2>1. None(events, "command") => None(events', "command")
    BY <1>2, <1>3, <1>4, AppendKinds
  <2>2. AtMostOne(events, "command") => AtMostOne(events', "command")
    BY <1>2, <1>3, <1>4, AppendKinds
  <2> QED BY <1>3, <2>1, <2>2 DEF IInv, CommandInv
<1>12. ReportInv'
  BY <1>3, <1>4, <1>5, <1>10 DEF IInv, ReportInv, loop
<1>13. NotifyInv'
  <2>1. ReportCame(events') <=> ReportCame(events)
    BY <1>2, <1>3, <1>4, AppendReport
  <2> QED BY <1>3, <2>1 DEF IInv, NotifyInv, user
<1> QED BY <1>9, <1>11, <1>12, <1>13 DEF IInv

\* The report is kept and the next one asked for.
LEMMA OnReportInv == IInv /\ OnReport => IInv'
<1> SUFFICES ASSUME IInv, OnReport PROVE IInv'
  OBVIOUS
<1>1. /\ at = "events" /\ events # <<>> /\ Head(events).type = "report"
      /\ events' = Tail(events)
      /\ dev' = [dev EXCEPT !.previous_buf = dev.hid_buf]
      /\ Ask /\ owed' = {} /\ sent' = sent
      /\ UNCHANGED <<conf, pool, port, dequeue, loop>>
  BY DEF OnReport, Event
<1>2. events \in Seq(EventTRB) /\ Device(dev)
  BY DEF IInv, Typed
<1>3. events' \in Seq(EventTRB)
  BY <1>1, <1>2, TailEvents
<1>4. /\ Device(dev') /\ dev'.hid_buf = dev.hid_buf
      /\ dev'.trbs = dev.trbs /\ dev'.setup_stage_map = dev.setup_stage_map
      /\ dev'.write_index = dev.write_index /\ dev'.initialize_phase = dev.initialize_phase
      /\ dev'.ep_configs = dev.ep_configs /\ dev'.class_drivers = dev.class_drivers
      /\ dev'.hid_phase = dev.hid_phase /\ dev'.class_driver = dev.class_driver
      /\ dev'.previous_buf = dev.hid_buf
  <2>1. DOMAIN dev = Fields
    BY <1>2 DEF Device
  <2>2. Device(dev')
    BY <1>1, <2>1 DEF Device
  <2> QED BY <1>1, <2>1, <2>2 DEF Fields
<1>5. \A n : /\ Few(dev, dequeue, events, n) => Few(dev, dequeue, events', n)
             /\ Short(dev, dequeue, events, n) => Short(dev, dequeue, events', n)
  BY <1>1, <1>2, FewDropped
<1>6. Typed' /\ PhaseInv' /\ RequestInv' /\ PoolInv' /\ LoopInv'
  BY <1>1, <1>3, <1>4, <1>5, ReportFrame
<1>7. None(events', "report")
  BY <1>1, <1>2, TailKinds DEF IInv, ReportInv
<1>8. ~None(events, "report")
  BY <1>1, <1>2, TailEvents DEF None, OfType
<1>9. asked = 0 /\ dev.hid_phase = 2 /\ asked' \in {0, 1}
  BY <1>1, <1>8 DEF IInv, ReportInv, Ask
<1>10. ReportInv'
  BY <1>1, <1>4, <1>7, <1>9 DEF IInv, ReportInv, AtMostOne, None, loop
<1>11. CommandInv'
  <2>1. None(events, "command") => None(events', "command")
    BY <1>1, <1>2, TailKinds
  <2>2. AtMostOne(events, "command") => AtMostOne(events', "command")
    BY <1>1, <1>2, TailKinds
  <2> QED BY <1>1, <2>1, <2>2 DEF IInv, CommandInv
<1>12. NotifyInv'
  <2>1. ~ReportCame(events')
    BY <1>7 DEF None, ReportCame
  <2> QED BY <1>1, <1>4, <2>1 DEF IInv, NotifyInv
<1> QED BY <1>6, <1>10, <1>11, <1>12 DEF IInv

\* The parts that a step of the control pipe leaves alone.
LEMMA ControlFrame ==
  ASSUME IInv, UNCHANGED <<conf, pool, port, loop>>,
         events' \in Seq(EventTRB), Device(dev'),
         Buffer(dev'.trbs), Table(dev'.setup_stage_map),
         dev'.initialize_phase = dev.initialize_phase,
         dev'.ep_configs = dev.ep_configs, dev'.class_drivers = dev.class_drivers,
         \A n : /\ Few(dev, dequeue, events, n) => Few(dev', dequeue', events', n)
                /\ Short(dev, dequeue, events, n) => Short(dev', dequeue', events', n)
  PROVE  Typed' /\ PhaseInv' /\ RequestInv' /\ PoolInv' /\ LoopInv'
<1>1. Typed' /\ PhaseInv' /\ LoopInv'
  BY DEF IInv, Typed, PhaseInv, LoopInv, loop
<1>2. Called' = Called
  BY DEF Called, Drivers, loop
<1>3. RequestInv'
  BY <1>2 DEF IInv, RequestInv
<1>4. PoolInv'
  BY DEF IInv, PoolInv, Rest, loop, pool
<1> QED BY <1>1, <1>3, <1>4

\* The kinds of the events after an answer was taken.
LEMMA AnswerKinds ==
  ASSUME IInv, events # <<>>, Head(events).type = "transfer", events' = Tail(events)
  PROVE  /\ events' \in Seq(EventTRB)
         /\ None(events, "command") => None(events', "command")
         /\ None(events, "report") => None(events', "report")
         /\ AtMostOne(events', "command") /\ AtMostOne(events', "report")
         /\ ReportCame(events') <=> ReportCame(events)
<1>1. events \in Seq(EventTRB) /\ AtMostOne(events, "command") /\ AtMostOne(events, "report")
  BY DEF IInv, Typed, CommandInv, ReportInv
<1>2. events' \in Seq(EventTRB)
  BY <1>1, TailEvents
<1>3. (None(events, "command") => None(events', "command")) /\ AtMostOne(events', "command")
  BY <1>1, TailKinds
<1>4. (None(events, "report") => None(events', "report")) /\ AtMostOne(events', "report")
  BY <1>1, TailKinds
<1>5. ReportCame(events') <=> ReportCame(events)
  BY <1>1, TailReport
<1> QED BY <1>2, <1>3, <1>4, <1>5

\* The Device without the entry of the answer.
LEMMA TakenFields ==
  ASSUME Device(dev)
  PROVE  /\ Device(Taken) /\ SameRest(Taken, dev)
         /\ Taken.trbs = dev.trbs /\ Taken.write_index = dev.write_index
         /\ Taken.setup_stage_map = Delete(dev.setup_stage_map, Head(events).pointer)
<1> DEFINE t == Delete(dev.setup_stage_map, Head(events).pointer)
           d == [dev EXCEPT !.setup_stage_map = t]
<1>1. Taken = d
  BY DEF Taken
<1>2. DOMAIN dev = Fields
  BY DEF Device
<1> HIDE DEF t
<1>3. Device(d)
  BY <1>2 DEF Device
<1>4. d.trbs = dev.trbs /\ d.write_index = dev.write_index /\ d.setup_stage_map = t
  BY <1>2 DEF Fields
<1>5. SameRest(d, dev)
  BY <1>2 DEF Fields, SameRest
<1> HIDE DEF d
<1> QED BY <1>1, <1>3, <1>4, <1>5 DEF t

\* The answer's entry is gone and the other requests are as they were.
LEMMA TakenRequests ==
  ASSUME IInv, events # <<>>, Head(events).type = "transfer"
  PROVE  /\ Buffer(Taken.trbs) /\ Table(Taken.setup_stage_map)
         /\ \A n : /\ Few(dev, dequeue, events, n) => Few(Taken, dequeue, Tail(events), n)
                   /\ Short(dev, dequeue, events, n) => Short(Taken, dequeue, Tail(events), n)
         /\ Few(dev, dequeue, events, 1) => Few(Taken, dequeue, Tail(events), 0)
<1>1. events \in Seq(EventTRB) /\ Device(dev) /\ Buffer(dev.trbs) /\ Table(dev.setup_stage_map)
  BY DEF IInv, Typed, RequestInv
<1>2. /\ Taken.trbs = dev.trbs /\ Taken.write_index = dev.write_index
      /\ Taken.setup_stage_map = Delete(dev.setup_stage_map, Head(events).pointer)
  BY <1>1, TakenFields
<1>3. \A n : /\ Few(dev, dequeue, events, n) \/ Short(dev, dequeue, events, n)
                  => Table(Taken.setup_stage_map)
             /\ Few(dev, dequeue, events, n) => Few(Taken, dequeue, Tail(events), n)
             /\ Short(dev, dequeue, events, n) => Short(Taken, dequeue, Tail(events), n)
  BY <1>1, <1>2, FewTaken
<1>4. Few(dev, dequeue, events, 1) => Few(Taken, dequeue, Tail(events), 0)
  BY <1>1, <1>2, FewTaken
<1>5. \E n : Few(dev, dequeue, events, n) \/ Short(dev, dequeue, events, n)
  BY DEF IInv, RequestInv
<1> QED BY <1>1, <1>2, <1>3, <1>4, <1>5

\* The controller executes a request.
LEMMA ExecuteControlInv ==
  ASSUME IInv, NEW ok \in BOOLEAN, ExecuteControl(ok)
  PROVE  IInv'
<1> DEFINE setup == dev.trbs[dequeue].setup
           new == TransferEvent(After(dequeue), ok)
<1>1. /\ dequeue # dev.write_index
      /\ dequeue' = IF HasDataStage(setup) THEN After(After(After(dequeue)))
                    ELSE After(After(dequeue))
      /\ dev' = IF ok /\ HasDataStage(setup) THEN [dev EXCEPT !.buf = setup.value] ELSE dev
      /\ events' = Append(events, new)
      /\ UNCHANGED <<conf, pool, port, asked, loop, user>>
  BY DEF ExecuteControl
<1>2. events \in Seq(EventTRB) /\ Device(dev) /\ Buffer(dev.trbs) /\ Table(dev.setup_stage_map)
  BY DEF IInv, Typed, RequestInv
<1>3. \A n : /\ Few(dev, dequeue, events, n) => new \in EventTRB /\ Few(dev, dequeue', events', n)
             /\ Short(dev, dequeue, events, n) => new \in EventTRB /\ Short(dev, dequeue', events', n)
  BY <1>1, <1>2, FewDone
<1>4. \E n : Few(dev, dequeue, events, n) \/ Short(dev, dequeue, events, n)
  BY DEF IInv, RequestInv
<1>5. new \in EventTRB /\ new.type = "transfer"
  BY <1>3, <1>4 DEF TransferEvent
<1>6. /\ Device(dev') /\ SameRest(dev', dev)
      /\ dev'.trbs = dev.trbs /\ dev'.setup_stage_map = dev.setup_stage_map
      /\ dev'.write_index = dev.write_index
  <2> DEFINE v == setup.value
             d == [dev EXCEPT !.buf = v]
  <2>1. dev' = d \/ dev' = dev
    BY <1>1
  <2>2. DOMAIN dev = Fields
    BY <1>2 DEF Device
  <2> HIDE DEF v
  <2>3. Device(d)
    BY <2>2 DEF Device
  <2>4. SameRest(d, dev)
    BY <2>2 DEF Fields, SameRest
  <2>5. d.trbs = dev.trbs /\ d.setup_stage_map = dev.setup_stage_map
        /\ d.write_index = dev.write_index
    BY <2>2 DEF Fields
  <2> HIDE DEF d
  <2>6. SameRest(dev, dev)
    BY DEF SameRest
  <2> QED BY <1>2, <2>1, <2>3, <2>4, <2>5, <2>6
<1> HIDE DEF new, setup
<1>7. events' \in Seq(EventTRB)
  BY <1>1, <1>2, <1>5, AppendEvents
<1>8. \A n : /\ Few(dev, dequeue, events, n) => Few(dev', dequeue', events', n)
             /\ Short(dev, dequeue, events, n) => Short(dev', dequeue', events', n)
  BY <1>3, <1>6 DEF Few, Short
<1>9. Typed' /\ PhaseInv' /\ RequestInv' /\ PoolInv' /\ LoopInv'
  BY <1>1, <1>2, <1>6, <1>7, <1>8, ControlFrame DEF SameRest
<1>10. /\ None(events, "command") => None(events', "command")
       /\ AtMostOne(events, "command") => AtMostOne(events', "command")
  BY <1>1, <1>2, <1>5, AppendKinds
<1>11. /\ None(events, "report") => None(events', "report")
       /\ AtMostOne(events, "report") => AtMostOne(events', "report")
  BY <1>1, <1>2, <1>5, AppendKinds
<1>12. ReportCame(events') <=> ReportCame(events)
  BY <1>1, <1>2, <1>5, AppendReport
<1>13. CommandInv'
  BY <1>1, <1>10 DEF IInv, CommandInv
<1>14. ReportInv'
  BY <1>1, <1>6, <1>11 DEF IInv, ReportInv, SameRest, loop
<1>15. NotifyInv'
  BY <1>1, <1>6, <1>12 DEF IInv, NotifyInv, Notified, SameRest, user
<1> QED BY <1>9, <1>13, <1>14, <1>15 DEF IInv

\* SetProtocol is answered: the first answer asks for a report.
LEMMA OnProtocolSetInv == IInv /\ OnProtocolSet => IInv'
<1> SUFFICES ASSUME IInv, OnProtocolSet PROVE IInv'
  OBVIOUS
<1>1. /\ at = "events" /\ events # <<>> /\ Head(events).type = "transfer"
      /\ events' = Tail(events)
      /\ IF dev.hid_phase = 1 THEN dev' = [Taken EXCEPT !.hid_phase = 2] /\ Ask
         ELSE dev' = Taken /\ asked' = asked
      /\ UNCHANGED <<conf, pool, port, dequeue, loop, user>>
  BY DEF OnProtocolSet, ControlCompleted, Event
<1>2. Device(dev)
  BY DEF IInv, Typed
<1>3. Device(Taken) /\ SameRest(Taken, dev)
  BY <1>2, TakenFields
<1>4. /\ Device(dev')
      /\ dev'.trbs = Taken.trbs /\ dev'.setup_stage_map = Taken.setup_stage_map
      /\ dev'.write_index = Taken.write_index
      /\ dev'.initialize_phase = dev.initialize_phase
      /\ dev'.ep_configs = dev.ep_configs /\ dev'.class_drivers = dev.class_drivers
      /\ dev'.class_driver = dev.class_driver
      /\ dev'.hid_buf = dev.hid_buf /\ dev'.previous_buf = dev.previous_buf
      /\ dev'.hid_phase = (IF dev.hid_phase = 1 THEN 2 ELSE dev.hid_phase)
  <2>1. CASE dev.hid_phase = 1
    <3> DEFINE t == Taken
    <3>1. dev' = [t EXCEPT !.hid_phase = 2] /\ DOMAIN t = Fields
      BY <1>1, <1>3, <2>1 DEF Device
    <3> HIDE DEF t
    <3>2. Device(dev')
      BY <3>1 DEF Device
    <3>3. /\ dev'.trbs = t.trbs /\ dev'.setup_stage_map = t.setup_stage_map
          /\ dev'.write_index = t.write_index
          /\ dev'.initialize_phase = t.initialize_phase
          /\ dev'.ep_configs = t.ep_configs /\ dev'.class_drivers = t.class_drivers
          /\ dev'.class_driver = t.class_driver
          /\ dev'.hid_buf = t.hid_buf /\ dev'.previous_buf = t.previous_buf
          /\ dev'.hid_phase = 2
      BY <3>1 DEF Fields
    <3> QED BY <1>3, <2>1, <3>2, <3>3 DEF SameRest, t
  <2>2. CASE dev.hid_phase # 1
    BY <1>1, <1>3, <2>2 DEF SameRest
  <2> QED BY <2>1, <2>2
<1>5. /\ Buffer(Taken.trbs) /\ Table(Taken.setup_stage_map)
      /\ \A n : /\ Few(dev, dequeue, events, n) => Few(Taken, dequeue, events', n)
                /\ Short(dev, dequeue, events, n) => Short(Taken, dequeue, events', n)
  BY <1>1, TakenRequests
<1>6. \A n : /\ Few(dev, dequeue, events, n) => Few(dev', dequeue', events', n)
             /\ Short(dev, dequeue, events, n) => Short(dev', dequeue', events', n)
  BY <1>1, <1>4, <1>5 DEF Few, Short
<1>7. /\ events' \in Seq(EventTRB)
      /\ None(events, "command") => None(events', "command")
      /\ None(events, "report") => None(events', "report")
      /\ AtMostOne(events', "command") /\ AtMostOne(events', "report")
      /\ ReportCame(events') <=> ReportCame(events)
  BY <1>1, AnswerKinds
<1>8. Typed' /\ PhaseInv' /\ RequestInv' /\ PoolInv' /\ LoopInv'
  BY <1>1, <1>4, <1>5, <1>6, <1>7, ControlFrame
<1>9. CommandInv'
  BY <1>1, <1>7 DEF IInv, CommandInv
<1>10. ReportInv'
  <2>1. CASE dev.hid_phase = 1
    <3>1. asked' \in {0, 1} /\ None(events', "report") /\ port = "kConfigured"
      BY <1>1, <1>7, <2>1 DEF IInv, ReportInv, Ask
    <3> QED BY <1>1, <1>4, <1>7, <2>1, <3>1 DEF ReportInv, loop
  <2>2. CASE dev.hid_phase # 1
    BY <1>1, <1>4, <1>7, <2>2 DEF IInv, ReportInv, loop
  <2> QED BY <2>1, <2>2
<1>11. NotifyInv'
  BY <1>1, <1>4, <1>7 DEF IInv, NotifyInv, Notified, user
<1> QED BY <1>8, <1>9, <1>10, <1>11 DEF IInv

\* An event that is answered with an error changes nothing but the table.
LEMMA OnErrorInv == IInv /\ OnError => IInv'
<1> SUFFICES ASSUME IInv, OnError PROVE IInv'
  OBVIOUS
<1>1. /\ events # <<>> /\ Head(events).type \in {"transfer", "report"}
      /\ events' = Tail(events)
      /\ dev' = dev \/ (Head(events).type = "transfer" /\ dev' = Taken)
      /\ UNCHANGED <<conf, pool, port, dequeue, asked, loop, user>>
  BY DEF OnError, Event
<1>2. Head(events).type = "report" => Head(events).ok # TRUE
  BY DEF OnError, Event
<1>3. events \in Seq(EventTRB) /\ Device(dev) /\ Buffer(dev.trbs) /\ Table(dev.setup_stage_map)
  BY DEF IInv, Typed, RequestInv
<1>4. Device(Taken) /\ SameRest(Taken, dev)
  BY <1>3, TakenFields
<1>5. Device(dev') /\ SameRest(dev', dev)
  BY <1>1, <1>3, <1>4 DEF SameRest
<1>6. /\ Buffer(dev'.trbs) /\ Table(dev'.setup_stage_map)
      /\ \A n : /\ Few(dev, dequeue, events, n) => Few(dev', dequeue', events', n)
                /\ Short(dev, dequeue, events, n) => Short(dev', dequeue', events', n)
  <2>1. CASE dev' = dev
    <3>1. \A n : /\ Few(dev, dequeue, events, n) => Few(dev, dequeue, Tail(events), n)
                 /\ Short(dev, dequeue, events, n) => Short(dev, dequeue, Tail(events), n)
      BY <1>1, <1>3, FewDropped
    <3> QED BY <1>1, <1>3, <2>1, <3>1
  <2>2. CASE Head(events).type = "transfer" /\ dev' = Taken
    BY <1>1, <2>2, TakenRequests
  <2> QED BY <1>1, <2>1, <2>2
<1>7. /\ events' \in Seq(EventTRB)
      /\ None(events, "command") => None(events', "command")
      /\ AtMostOne(events, "command") => AtMostOne(events', "command")
  BY <1>1, <1>3, TailEvents, TailKinds
<1>8. /\ None(events, "report") => None(events', "report")
      /\ AtMostOne(events, "report") => AtMostOne(events', "report")
  BY <1>1, <1>3, TailKinds
<1>9. ReportCame(events') <=> ReportCame(events)
  <2>1. CASE Head(events).type = "report"
    <3>1. AtMostOne(events, "report")
      BY DEF IInv, ReportInv
    <3>2. None(events', "report")
      BY <1>1, <1>3, <2>1, <3>1, TailKinds
    <3>3. 1 \in OfType(events, "report") /\ events[1].ok # TRUE
      BY <1>1, <1>2, <1>3, <2>1, TailEvents DEF OfType
    <3> QED BY <3>1, <3>2, <3>3 DEF ReportCame, None, AtMostOne
  <2>2. CASE Head(events).type # "report"
    BY <1>1, <1>3, <2>2, TailReport
  <2> QED BY <2>1, <2>2
<1>10. Typed' /\ PhaseInv' /\ RequestInv' /\ PoolInv' /\ LoopInv'
  BY <1>1, <1>5, <1>6, <1>7, ControlFrame DEF SameRest
<1>11. CommandInv'
  BY <1>1, <1>7 DEF IInv, CommandInv
<1>12. ReportInv'
  BY <1>1, <1>5, <1>8 DEF IInv, ReportInv, SameRest, loop
<1>13. NotifyInv'
  BY <1>1, <1>5, <1>9 DEF IInv, NotifyInv, Notified, SameRest, user
<1> QED BY <1>10, <1>11, <1>12, <1>13 DEF IInv

\* The endpoints of a device with a driver, as the assumptions bound them.
LEMMA ConfigsAssumed ==
  ASSUME conf \in Configurations, Supported(conf) # {}
  PROVE  LET configs == EndpointConfigs(conf)
         IN  /\ Len(configs) \in Nat /\ DOMAIN configs = 1 .. Len(configs)
             /\ EndpointNumbers(configs) \in SUBSET Nat
             /\ IsFiniteSet(EndpointNumbers(configs)) /\ Drivers \in Nat
             /\ Drivers <= MapSize /\ 2 * Drivers < RingSize - 1
             /\ Sizes.alignment + Sizes.driver + Len(configs) * RingSpace <= kMemoryPoolSize
<1> DEFINE configs == EndpointConfigs(conf)
           E == [type : {"endpoint"}, number : Nat, dir_in : BOOLEAN, interrupt : BOOLEAN]
           number(i) == configs[i].number
<1>1. /\ configs \in Seq(E) /\ Drivers <= MapSize /\ 2 * Drivers < RingSize - 1
  BY EndpointsAssumption DEF Drivers
<1>2. Sizes.alignment + Sizes.driver + Len(configs) * RingSpace <= kMemoryPoolSize
  BY SizesAssumption
<1>3. \A e \in E : e.number \in Nat
  OBVIOUS
<1> HIDE DEF configs, E
<1>4. Len(configs) \in Nat /\ DOMAIN configs = 1 .. Len(configs)
      /\ \A i \in DOMAIN configs : configs[i] \in E
  BY <1>1
<1>5. EndpointNumbers(configs) \in SUBSET Nat
  BY <1>3, <1>4 DEF EndpointNumbers
<1>6. IsFiniteSet(DOMAIN configs)
  BY <1>4, FS_Interval
<1>7. IsFiniteSet(EndpointNumbers(configs))
  <2> DEFINE f == [i \in DOMAIN configs |-> configs[i].number]
             S == DOMAIN configs
  <2>1. f \in [S -> Nat] /\ EndpointNumbers(configs) = {f[i] : i \in S}
    BY <1>3, <1>4 DEF EndpointNumbers
  <2> HIDE DEF f
  <2>2. f \in Surjection(S, EndpointNumbers(configs))
    BY <2>1 DEF Surjection
  <2> HIDE DEF S
  <2> QED BY <1>6, <2>2, FS_Surjection DEF S
<1>8. Drivers \in Nat
  BY <1>7, FS_CardinalityType DEF Drivers, configs
<1> QED BY <1>1, <1>2, <1>4, <1>5, <1>7, <1>8 DEF configs

\* The controller completes the Configure Endpoint Command.
LEMMA EndpointsConfiguredInv == IInv /\ EndpointsConfigured => IInv'
<1> SUFFICES ASSUME IInv, EndpointsConfigured PROVE IInv'
  OBVIOUS
<1> DEFINE new == ConfigureCompletion
<1>1. /\ port = "kConfiguringEndpoints"
      /\ new \notin {events[i] : i \in DOMAIN events}
      /\ events' = Append(events, new)
      /\ UNCHANGED <<conf, dev, pool, port, dequeue, asked, loop, user>>
  BY DEF EndpointsConfigured
<1>2. events \in Seq(EventTRB) /\ Device(dev) /\ dev' = dev
  BY <1>1 DEF IInv, Typed
<1>3. new \in EventTRB /\ new.type = "command"
  BY EventKinds
<1>4. None(events, "command")
  <2> SUFFICES ASSUME NEW i \in DOMAIN events, events[i].type = "command" PROVE FALSE
    BY DEF None, OfType
  <2>1. events[i] \in EventTRB
    <3> HIDE DEF EventTRB
    <3> QED BY <1>2
  <2>2. events[i] = new
    BY <2>1 DEF EventTRB
  <2> QED BY <1>1, <2>2
<1> HIDE DEF new
<1>5. events' \in Seq(EventTRB)
  BY <1>1, <1>2, <1>3, AppendEvents
<1>6. \A n : /\ Few(dev, dequeue, events, n) => Few(dev, dequeue, events', n)
             /\ Short(dev, dequeue, events, n) => Short(dev, dequeue, events', n)
  BY <1>1, <1>2, <1>3, FewPosted
<1>7. Typed' /\ PhaseInv' /\ RequestInv' /\ PoolInv' /\ LoopInv'
  BY <1>1, <1>2, <1>5, <1>6, ReportFrame
<1>8. AtMostOne(events', "command")
  BY <1>1, <1>2, <1>3, <1>4, AppendKinds
<1>9. /\ None(events, "report") => None(events', "report")
      /\ AtMostOne(events, "report") => AtMostOne(events', "report")
  BY <1>1, <1>2, <1>3, AppendKinds
<1>10. ReportCame(events') <=> ReportCame(events)
  BY <1>1, <1>2, <1>3, AppendReport
<1>11. CommandInv'
  BY <1>1, <1>8 DEF CommandInv
<1>12. ReportInv'
  BY <1>1, <1>2, <1>9 DEF IInv, ReportInv, loop
<1>13. NotifyInv'
  BY <1>1, <1>2, <1>10 DEF IInv, NotifyInv, user
<1> QED BY <1>7, <1>11, <1>12, <1>13 DEF IInv

\* The loops end.
LEMMA EndpointsReadyInv == IInv /\ EndpointsReady => IInv'
<1> SUFFICES ASSUME IInv, EndpointsReady PROVE IInv'
  OBVIOUS
<1>1. /\ at = "rings" /\ at' = "events" /\ port' = "kConfiguringEndpoints"
      /\ UNCHANGED <<conf, dev, pool, dequeue, asked, events, left, user>>
  BY DEF EndpointsReady
<1>2. dev.initialize_phase = 4 /\ port = "kInitializingDevice"
  BY <1>1 DEF IInv, PhaseInv
<1>3. Typed' /\ PhaseInv' /\ LoopInv'
  BY <1>1, <1>2 DEF IInv, Typed, PhaseInv, LoopInv
<1>4. CommandInv' /\ NotifyInv'
  BY <1>1 DEF IInv, CommandInv, NotifyInv, user
<1>5. ReportInv'
  BY <1>1, <1>2 DEF IInv, ReportInv
<1>6. RequestInv'
  BY <1>1, <1>2 DEF IInv, RequestInv
<1>7. PoolInv'
  <2>1. Rest' = 0
    BY <1>1, <1>2 DEF Rest
  <2>2. Sound(alloc_ptr, blocks) /\ alloc_ptr + Rest <= PoolEnd
    BY DEF IInv, PoolInv
  <2>3. left = {}
    BY DEF EndpointsReady
  <2>4. Rest = 0
    <3>1. Rest = Cardinality(left) * RingSpace
      BY <1>1, <1>2 DEF Rest
    <3>2. Cardinality(left) = 0 /\ RingSpace \in Int
      BY <2>3, FS_EmptySet, SizesAssumption DEF RingSpace
    <3> QED BY <3>1, <3>2
  <2>5. alloc_ptr \in Nat
    BY <2>2 DEF Sound
  <2> QED BY <1>1, <2>1, <2>2, <2>4, <2>5 DEF PoolInv, PoolEnd, pool
<1> QED BY <1>3, <1>4, <1>5, <1>6, <1>7 DEF IInv

\* The last endpoint number has been gone through.
LEMMA DriversCalledInv == IInv /\ DriversCalled => IInv'
<1> SUFFICES ASSUME IInv, DriversCalled PROVE IInv'
  OBVIOUS
<1>1. /\ at = "drivers" /\ left = {} /\ at' = "events"
      /\ UNCHANGED <<conf, dev, pool, port, dequeue, asked, events, left, user>>
  BY DEF DriversCalled
<1>2. port = "kConfigured" /\ dev.initialize_phase = 4
  BY <1>1 DEF IInv, PhaseInv
<1>3. Typed' /\ PhaseInv' /\ LoopInv'
  BY <1>1, <1>2 DEF IInv, Typed, PhaseInv, LoopInv
<1>4. CommandInv' /\ NotifyInv'
  BY <1>1 DEF IInv, CommandInv, NotifyInv, user
<1>5. ReportInv'
  BY <1>1, <1>2 DEF IInv, ReportInv
<1>6. RequestInv'
  <2>1. Cardinality(left) = 0
    BY <1>1, FS_EmptySet
  <2>2. Drivers \in Nat
    BY <1>2, ConfigsAssumed DEF IInv, PhaseInv, Typed
  <2>3. Called' = Called
    BY <1>1, <2>1, <2>2 DEF Called, Drivers
  <2> QED BY <1>1, <1>2, <2>3 DEF IInv, RequestInv
<1>7. PoolInv'
  BY <1>1, <1>2 DEF IInv, PoolInv, Rest, pool
<1> QED BY <1>3, <1>4, <1>5, <1>6, <1>7 DEF IInv

\* A step of the initialization: another phase, and maybe another request.
LEMMA InitializeFrame ==
  ASSUME IInv, port \notin {"kConfiguringEndpoints", "kConfigured"},
         UNCHANGED <<conf, dequeue, asked, user>>, port' = "kInitializingDevice",
         dev'.initialize_phase \in 1 .. 4, LoopInv',
         at' = "events" \/ (at' = "rings" /\ dev'.initialize_phase = 4),
         Device(dev'), dev'.hid_phase = dev.hid_phase,
         dev'.hid_buf = dev.hid_buf, dev'.previous_buf = dev.previous_buf,
         dev'.initialize_phase >= 3 =>
           /\ Supported(conf) # {} /\ dev'.ep_configs = EndpointConfigs(conf)
           /\ dev'.class_drivers = EndpointNumbers(EndpointConfigs(conf)),
         Buffer(dev'.trbs), Table(dev'.setup_stage_map),
         Few(dev', dequeue, events', IF dev'.initialize_phase \in 1 .. 3 THEN 1 ELSE 0),
         \/ UNCHANGED events
         \/ events # <<>> /\ Head(events).type = "transfer" /\ events' = Tail(events)
  PROVE  Typed' /\ PhaseInv' /\ CommandInv' /\ ReportInv' /\ NotifyInv' /\ RequestInv'
<1>1. /\ events' \in Seq(EventTRB)
      /\ None(events, "command") => None(events', "command")
      /\ None(events, "report") => None(events', "report")
      /\ AtMostOne(events', "command") /\ AtMostOne(events', "report")
  <2>1. CASE UNCHANGED events
    BY <2>1 DEF IInv, Typed, CommandInv, ReportInv
  <2>2. CASE events # <<>> /\ Head(events).type = "transfer" /\ events' = Tail(events)
    BY <2>2, AnswerKinds
  <2> QED BY <2>1, <2>2
<1>2. dev.hid_phase = 0 /\ asked = 0 /\ None(events, "report") /\ None(events, "command")
  BY DEF IInv, ReportInv, CommandInv
<1>3. Typed' /\ PhaseInv'
  BY <1>1 DEF IInv, Typed, PhaseInv
<1>4. CommandInv' /\ ReportInv'
  BY <1>1, <1>2 DEF CommandInv, ReportInv
<1>5. ~ReportCame(events) /\ ~ReportCame(events')
  BY <1>1, <1>2 DEF None, ReportCame
<1>6. NotifyInv'
  BY <1>5 DEF IInv, NotifyInv, user
<1>7. RequestInv'
  BY DEF RequestInv
<1> QED BY <1>3, <1>4, <1>6, <1>7

\* The first request.
LEMMA StartInitializeInv == IInv /\ StartInitialize => IInv'
<1> SUFFICES ASSUME IInv, StartInitialize PROVE IInv'
  OBVIOUS
<1> DEFINE d == [dev EXCEPT !.initialize_phase = 1]
           setup == GetDescriptor("device")
           no == FALSE
<1>1. /\ port = "kAddressingDevice" /\ port' = "kInitializingDevice"
      /\ dev' = ControlTransfer(d, setup, no) /\ no \in BOOLEAN
      /\ UNCHANGED <<conf, pool, dequeue, asked, events, loop, user>>
  BY DEF StartInitialize
<1>2. /\ Device(dev) /\ Buffer(dev.trbs) /\ Table(dev.setup_stage_map)
      /\ dev.initialize_phase = 0 /\ at = "events"
      /\ Few(dev, dequeue, events, 0)
  BY <1>1 DEF IInv, Typed, PhaseInv, RequestInv
<1>3. DOMAIN dev = Fields
  BY <1>2 DEF Device
<1>4. Device(d)
  BY <1>3 DEF Device
<1>5. /\ d.initialize_phase = 1 /\ d.trbs = dev.trbs
      /\ d.setup_stage_map = dev.setup_stage_map /\ d.write_index = dev.write_index
      /\ d.hid_phase = dev.hid_phase /\ d.hid_buf = dev.hid_buf
      /\ d.previous_buf = dev.previous_buf
  BY <1>3 DEF Fields
<1> HIDE DEF d, setup, no
<1>7. Few(d, dequeue, events, 0)
  BY <1>2, <1>5, SamePipe
<1>8. Device(dev') /\ SameRest(dev', d)
  BY <1>1, <1>4, ControlTransferFields
<1>9. Buffer(dev'.trbs) /\ Table(dev'.setup_stage_map) /\ Few(dev', dequeue, events', 1)
  BY <1>1, <1>2, <1>4, <1>5, <1>7, FewGiven
<1>10. /\ dev'.initialize_phase = 1 /\ dev'.hid_phase = dev.hid_phase
       /\ dev'.hid_buf = dev.hid_buf /\ dev'.previous_buf = dev.previous_buf
  BY <1>5, <1>8 DEF SameRest
<1>11. Few(dev', dequeue, events', IF dev'.initialize_phase \in 1 .. 3 THEN 1 ELSE 0)
  BY <1>9, <1>10
<1>12. LoopInv' /\ at' = "events"
  BY <1>1, <1>2 DEF IInv, LoopInv, loop
<1>13. Typed' /\ PhaseInv' /\ CommandInv' /\ ReportInv' /\ NotifyInv' /\ RequestInv'
  BY <1>1, <1>8, <1>9, <1>10, <1>11, <1>12, InitializeFrame
<1>14. PoolInv'
  <2>1. Rest' = Rest
    BY <1>1, <1>2, <1>10 DEF Rest
  <2> QED BY <1>1, <2>1 DEF IInv, PoolInv, pool
<1> QED BY <1>12, <1>13, <1>14 DEF IInv

\* An answer in the phases of the initialization was the only one.
LEMMA OnlyAnswer ==
  ASSUME IInv, NEW request, ControlCompleted(request), dev.initialize_phase \in 1 .. 3
  PROVE  /\ at = "events" /\ events # <<>> /\ Head(events).type = "transfer"
         /\ events' = Tail(events) /\ port = "kInitializingDevice"
         /\ Device(Taken) /\ SameRest(Taken, dev)
         /\ Buffer(Taken.trbs) /\ Table(Taken.setup_stage_map)
         /\ Few(Taken, dequeue, events', 0)
<1>1. /\ at = "events" /\ events # <<>> /\ Head(events).type = "transfer"
      /\ events' = Tail(events)
  BY DEF ControlCompleted, Event
<1>2. port = "kInitializingDevice" /\ Device(dev) /\ Few(dev, dequeue, events, 1)
  BY DEF IInv, Typed, PhaseInv, RequestInv
<1>3. Device(Taken) /\ SameRest(Taken, dev)
  BY <1>2, TakenFields
<1>4. /\ Buffer(Taken.trbs) /\ Table(Taken.setup_stage_map)
      /\ Few(Taken, dequeue, Tail(events), 0)
  BY <1>1, <1>2, TakenRequests
<1> QED BY <1>1, <1>2, <1>3, <1>4

\* The device descriptor is there; the configuration descriptor is asked for.
LEMMA OnDeviceDescriptorInv == IInv /\ OnDeviceDescriptor => IInv'
<1> SUFFICES ASSUME IInv, OnDeviceDescriptor PROVE IInv'
  OBVIOUS
<1> DEFINE t == Taken
           d == [t EXCEPT !.initialize_phase = 2]
           setup == GetDescriptor("configuration")
           no == FALSE
<1>1. /\ ControlCompleted("kGetDescriptor") /\ dev.initialize_phase = 1
      /\ dev' = ControlTransfer(d, setup, no) /\ no \in BOOLEAN
      /\ UNCHANGED <<conf, pool, port, dequeue, asked, loop, user>>
  BY DEF OnDeviceDescriptor, InitializePhase1
<1>2. /\ at = "events" /\ events # <<>> /\ Head(events).type = "transfer"
      /\ events' = Tail(events) /\ port = "kInitializingDevice"
      /\ Device(t) /\ SameRest(t, dev)
      /\ Buffer(t.trbs) /\ Table(t.setup_stage_map)
      /\ Few(t, dequeue, events', 0)
  BY <1>1, OnlyAnswer
<1> HIDE DEF t
<1>3. DOMAIN t = Fields
  BY <1>2 DEF Device
<1>4. Device(d)
  BY <1>3 DEF Device
<1>5. /\ d.initialize_phase = 2 /\ d.trbs = t.trbs
      /\ d.setup_stage_map = t.setup_stage_map /\ d.write_index = t.write_index
      /\ d.hid_phase = t.hid_phase /\ d.hid_buf = t.hid_buf
      /\ d.previous_buf = t.previous_buf
  BY <1>3 DEF Fields
<1> HIDE DEF d, setup, no
<1>7. Few(d, dequeue, events', 0)
  BY <1>2, <1>5, SamePipe
<1>8. Device(dev') /\ SameRest(dev', d)
  BY <1>1, <1>4, ControlTransferFields
<1>9. Buffer(dev'.trbs) /\ Table(dev'.setup_stage_map) /\ Few(dev', dequeue, events', 1)
  BY <1>1, <1>2, <1>4, <1>5, <1>7, FewGiven
<1>10. /\ dev'.initialize_phase = 2 /\ dev'.hid_phase = dev.hid_phase
       /\ dev'.hid_buf = dev.hid_buf /\ dev'.previous_buf = dev.previous_buf
  BY <1>2, <1>5, <1>8 DEF SameRest
<1>11. Few(dev', dequeue, events', IF dev'.initialize_phase \in 1 .. 3 THEN 1 ELSE 0)
  BY <1>9, <1>10
<1>12. LoopInv' /\ at' = "events"
  BY <1>1, <1>2 DEF IInv, LoopInv, loop
<1>13. Typed' /\ PhaseInv' /\ CommandInv' /\ ReportInv' /\ NotifyInv' /\ RequestInv'
  BY <1>1, <1>2, <1>8, <1>9, <1>10, <1>11, <1>12, InitializeFrame
<1>14. PoolInv'
  BY <1>1, <1>10 DEF IInv, PoolInv, Rest, pool
<1> QED BY <1>12, <1>13, <1>14 DEF IInv

\* The space a ring may take is a natural number.
LEMMA RingSpaceNat == RingSpace \in Nat
<1> DEFINE u == Sizes.alignment
           v == Sizes.ring
           w == Sizes.buffer
<1>1. u \in Nat \ {0} /\ v \in Nat \ {0} /\ w \in Nat \ {0}
  BY SizesAssumption
<1>2. RingSpace = 2 * (u + v + w - 2)
  BY DEF RingSpace
<1> HIDE DEF u, v, w
<1> QED BY <1>1, <1>2

\* The configuration descriptor is there; the device stays as it is, or gets a
\* class driver and is asked to use the configuration.
LEMMA OnConfigurationDescriptorInv == IInv /\ OnConfigurationDescriptor => IInv'
<1> SUFFICES ASSUME IInv, OnConfigurationDescriptor PROVE IInv'
  OBVIOUS
<1> DEFINE t == Taken
           x == conf[Min(Supported(conf))].protocol
           cs == EndpointConfigs(conf)
           ns == EndpointNumbers(cs)
           d == [t EXCEPT !.initialize_phase = 3, !.class_driver = x, !.ep_configs = cs,
                          !.class_drivers = ns]
           setup == SetConfiguration
           no == FALSE
           a == AllocMem(alloc_ptr, Sizes.driver, 0, 0)
           new == Allocation(a, Sizes.driver, 0, 0)
<1>1. /\ ControlCompleted("kGetDescriptor") /\ dev.initialize_phase = 2
      /\ UNCHANGED <<conf, port, dequeue, asked, loop, user>>
  BY DEF OnConfigurationDescriptor
<1>2. /\ at = "events" /\ events # <<>> /\ Head(events).type = "transfer"
      /\ events' = Tail(events) /\ port = "kInitializingDevice"
      /\ Device(t) /\ SameRest(t, dev)
      /\ Buffer(t.trbs) /\ Table(t.setup_stage_map)
      /\ Few(t, dequeue, events', 0)
  BY <1>1, OnlyAnswer
<1>3. /\ Sound(alloc_ptr, blocks) /\ alloc_ptr + (kMemoryPoolSize - Sizes.alignment) <= PoolEnd
      /\ conf \in Configurations
  BY <1>1 DEF IInv, PoolInv, Rest, Typed
<1>4. LoopInv' /\ at' = "events"
  BY <1>1, <1>2 DEF IInv, LoopInv, loop
<1>5. CASE Supported(conf) = {}
  <2>1. dev' = t /\ UNCHANGED pool
    BY <1>5 DEF OnConfigurationDescriptor
  <2> HIDE DEF t
  <2>2. /\ dev'.initialize_phase = 2 /\ dev'.hid_phase = dev.hid_phase
        /\ dev'.hid_buf = dev.hid_buf /\ dev'.previous_buf = dev.previous_buf
    BY <1>1, <1>2, <2>1 DEF SameRest
  <2>3. Few(dev', dequeue, events', 1)
    BY <1>2, <2>1 DEF Few
  <2>4. Few(dev', dequeue, events', IF dev'.initialize_phase \in 1 .. 3 THEN 1 ELSE 0)
    BY <2>2, <2>3
  <2>5. Device(dev') /\ Buffer(dev'.trbs) /\ Table(dev'.setup_stage_map)
    BY <1>2, <2>1
  <2>6. Typed' /\ PhaseInv' /\ CommandInv' /\ ReportInv' /\ NotifyInv' /\ RequestInv'
    BY <1>1, <1>2, <1>4, <2>2, <2>4, <2>5, InitializeFrame
  <2>7. PoolInv'
    BY <1>3, <2>1, <2>2 DEF PoolInv, Rest, pool
  <2> QED BY <1>4, <2>6, <2>7 DEF IInv
<1>6. CASE Supported(conf) # {}
  <2>1. /\ dev' = ControlTransfer(d, setup, no) /\ no \in BOOLEAN
        /\ alloc_ptr' = a.ptr /\ blocks' = blocks \cup {new}
    BY <1>6 DEF OnConfigurationDescriptor, InitializePhase2
  <2> HIDE DEF t, x
  <2>2. DOMAIN t = Fields
    BY <1>2 DEF Device
  <2> HIDE DEF cs, ns
  <2>3. Device(d)
    BY <2>2 DEF Device
  <2>4. /\ d.initialize_phase = 3 /\ d.trbs = t.trbs
        /\ d.setup_stage_map = t.setup_stage_map /\ d.write_index = t.write_index
        /\ d.hid_phase = t.hid_phase /\ d.hid_buf = t.hid_buf
        /\ d.previous_buf = t.previous_buf
        /\ d.ep_configs = cs /\ d.class_drivers = ns
    BY <2>2 DEF Fields
  <2> HIDE DEF d, setup, no
  <2>5. Few(d, dequeue, events', 0)
    BY <1>2, <2>4, SamePipe
  <2>6. Device(dev') /\ SameRest(dev', d)
    BY <2>1, <2>3, ControlTransferFields
  <2>7. Buffer(dev'.trbs) /\ Table(dev'.setup_stage_map) /\ Few(dev', dequeue, events', 1)
    BY <1>2, <2>1, <2>3, <2>4, <2>5, FewGiven
  <2>8. /\ dev'.initialize_phase = 3 /\ dev'.hid_phase = dev.hid_phase
        /\ dev'.hid_buf = dev.hid_buf /\ dev'.previous_buf = dev.previous_buf
        /\ dev'.ep_configs = cs /\ dev'.class_drivers = ns
    BY <1>2, <2>4, <2>6 DEF SameRest
  <2>9. Few(dev', dequeue, events', IF dev'.initialize_phase \in 1 .. 3 THEN 1 ELSE 0)
    BY <2>7, <2>8
  <2>10. Typed' /\ PhaseInv' /\ CommandInv' /\ ReportInv' /\ NotifyInv' /\ RequestInv'
    <3>1. dev'.ep_configs = EndpointConfigs(conf)
          /\ dev'.class_drivers = EndpointNumbers(EndpointConfigs(conf))
      BY <2>8 DEF cs, ns
    <3> QED BY <1>1, <1>2, <1>4, <1>6, <2>6, <2>7, <2>8, <2>9, <3>1, InitializeFrame
  <2>11. PoolInv'
    <3> DEFINE rest == Len(cs) * RingSpace
    <3>1. Sizes.alignment + Sizes.driver + rest <= kMemoryPoolSize /\ Len(cs) \in Nat
      BY <1>3, <1>6, ConfigsAssumed DEF cs
    <3>2. /\ Sizes.alignment \in Nat /\ Sizes.driver \in Nat /\ kMemoryPoolSize \in Nat
          /\ PoolEnd \in Nat /\ alloc_ptr \in Nat
      BY <1>3, SizesAssumption, PoolAssumption DEF Sound, PoolEnd
    <3>3. RingSpace \in Nat
      BY RingSpaceNat
    <3>4. rest \in Nat
      BY <3>1, <3>3
    <3> HIDE DEF rest
    <3>5. alloc_ptr + Sizes.driver + rest <= PoolEnd
      BY <1>3, <3>1, <3>2, <3>4
    <3>6. alloc_ptr + Sizes.driver <= PoolEnd
      BY <3>2, <3>4, <3>5
    <3>7. Sound(a.ptr, blocks \cup {new}) /\ a.ptr = alloc_ptr + Sizes.driver
      BY <1>3, <3>6, AddDriver
    <3> HIDE DEF a, new
    <3>8. Rest' = rest
      <4>1. cs' = cs
        BY <1>1 DEF cs
      <4> QED BY <1>1, <2>8, <4>1 DEF Rest, rest, cs
    <3> QED BY <2>1, <3>5, <3>7, <3>8 DEF PoolInv, PoolEnd
  <2> QED BY <1>4, <2>10, <2>11 DEF IInv
<1> QED BY <1>5, <1>6

\* The configuration is set: the device is initialized, and the main task
\* begins with its endpoints if the port still has a device.
LEMMA OnConfigurationSetInv == IInv /\ OnConfigurationSet => IInv'
<1> SUFFICES ASSUME IInv, OnConfigurationSet PROVE IInv'
  OBVIOUS
<1> DEFINE t == Taken
           x == InterruptIn(t.ep_configs)
           d == [t EXCEPT !.ep_interrupt_in = x, !.initialize_phase = 4, !.is_initialized = TRUE]
           cs == EndpointConfigs(conf)
<1>1. /\ ControlCompleted("kSetConfiguration") /\ dev.initialize_phase = 3 /\ dev' = d
      /\ UNCHANGED <<conf, pool, port, dequeue, asked, user>>
      /\ \/ at' = "rings" /\ left' = DOMAIN dev.ep_configs
         \/ UNCHANGED loop
  BY DEF OnConfigurationSet, InitializePhase3
<1>2. /\ at = "events" /\ events # <<>> /\ Head(events).type = "transfer"
      /\ events' = Tail(events) /\ port = "kInitializingDevice"
      /\ Device(t) /\ SameRest(t, dev)
      /\ Buffer(t.trbs) /\ Table(t.setup_stage_map)
      /\ Few(t, dequeue, events', 0)
  BY <1>1, OnlyAnswer
<1> HIDE DEF t, x
<1>3. /\ conf \in Configurations /\ Supported(conf) # {} /\ dev.ep_configs = cs
      /\ dev.class_drivers = EndpointNumbers(EndpointConfigs(conf))
  BY <1>1 DEF IInv, Typed, PhaseInv
<1>4. Len(cs) \in Nat /\ DOMAIN cs = 1 .. Len(cs)
  BY <1>3, ConfigsAssumed
<1>5. /\ IsFiniteSet(1 .. Len(cs)) /\ Cardinality(1 .. Len(cs)) = Len(cs)
  <2>1. 1 \in Int /\ Len(cs) \in Int
    BY <1>4
  <2>2. IsFiniteSet(1 .. Len(cs)) /\ Cardinality(1 .. Len(cs)) = IF 1 > Len(cs) THEN 0 ELSE Len(cs) - 1 + 1
    <3> DEFINE n == Len(cs)
    <3> HIDE DEF n
    <3>1. n \in Int
      BY <2>1 DEF n
    <3>2. IsFiniteSet(1 .. n) /\ Cardinality(1 .. n) = IF 1 > n THEN 0 ELSE n - 1 + 1
      BY <3>1, FS_Interval
    <3> QED BY <3>2 DEF n
  <2> QED BY <1>4, <2>2
<1>6. DOMAIN t = Fields
  BY <1>2 DEF Device
<1>7. Device(d)
  BY <1>6 DEF Device
<1>8. /\ d.initialize_phase = 4 /\ d.trbs = t.trbs
      /\ d.setup_stage_map = t.setup_stage_map /\ d.write_index = t.write_index
      /\ d.hid_phase = t.hid_phase /\ d.hid_buf = t.hid_buf
      /\ d.previous_buf = t.previous_buf
      /\ d.ep_configs = t.ep_configs /\ d.class_drivers = t.class_drivers
  BY <1>6 DEF Fields
<1> HIDE DEF d
<1>9. Few(dev', dequeue, events', 0)
  BY <1>1, <1>2, <1>8, SamePipe
<1>10. /\ dev'.initialize_phase = 4 /\ dev'.hid_phase = dev.hid_phase
       /\ dev'.hid_buf = dev.hid_buf /\ dev'.previous_buf = dev.previous_buf
       /\ dev'.ep_configs = dev.ep_configs /\ dev'.class_drivers = dev.class_drivers
  BY <1>1, <1>2, <1>8 DEF SameRest
<1>11. Few(dev', dequeue, events', IF dev'.initialize_phase \in 1 .. 3 THEN 1 ELSE 0)
  BY <1>9, <1>10
<1>12. Device(dev') /\ Buffer(dev'.trbs) /\ Table(dev'.setup_stage_map)
  BY <1>1, <1>2, <1>7, <1>8
<1>13. /\ LoopInv'
       /\ at' = "events" \/ (at' = "rings" /\ left' = 1 .. Len(cs))
  <2>1. CASE at' = "rings" /\ left' = DOMAIN dev.ep_configs
    <3>1. left' = 1 .. Len(cs)
      BY <1>3, <1>4, <2>1
    <3>2. 1 .. Len(cs) \in SUBSET Nat
      BY <1>4
    <3> QED BY <1>5, <2>1, <3>1, <3>2 DEF LoopInv
  <2>2. CASE UNCHANGED loop
    BY <1>2, <2>2 DEF IInv, LoopInv, loop
  <2> QED BY <1>1, <2>1, <2>2
<1>14. Typed' /\ PhaseInv' /\ CommandInv' /\ ReportInv' /\ NotifyInv' /\ RequestInv'
  <2>1. /\ Supported(conf) # {} /\ dev'.ep_configs = EndpointConfigs(conf)
        /\ dev'.class_drivers = EndpointNumbers(EndpointConfigs(conf))
    BY <1>3, <1>10
  <2>2. at' = "events" \/ (at' = "rings" /\ dev'.initialize_phase = 4)
    BY <1>10, <1>13
  <2> QED BY <1>1, <1>2, <1>10, <1>11, <1>12, <1>13, <2>1, <2>2, InitializeFrame
<1>15. PoolInv'
  <2> DEFINE rest == Len(cs) * RingSpace
  <2>1. Sound(alloc_ptr, blocks) /\ alloc_ptr + rest <= PoolEnd
    BY <1>1 DEF IInv, PoolInv, Rest
  <2>2. RingSpace \in Nat
    BY RingSpaceNat
  <2>3. rest \in Nat /\ alloc_ptr \in Nat /\ PoolEnd \in Nat
    BY <1>4, <2>1, <2>2, PoolAssumption DEF Sound, PoolEnd
  <2>4. Rest' = 0 \/ Rest' = rest
    <3>1. CASE at' = "rings" /\ left' = 1 .. Len(cs)
      <4>1. Cardinality(left') = Len(cs)
        BY <1>5, <3>1
      <4> QED BY <1>10, <3>1, <4>1 DEF Rest
    <3>2. CASE at' = "events"
      BY <1>10, <3>2 DEF Rest
    <3> QED BY <1>13, <3>1, <3>2
  <2> HIDE DEF rest
  <2>5. alloc_ptr + Rest' <= PoolEnd
    BY <2>1, <2>3, <2>4
  <2> QED BY <1>1, <2>1, <2>5 DEF PoolInv, PoolEnd, pool
<1> QED BY <1>13, <1>14, <1>15 DEF IInv

\* One endpoint less to do: another ring.
LEMMA ConfigureEndpointInv == IInv /\ ConfigureEndpoint => IInv'
<1> SUFFICES ASSUME IInv, ConfigureEndpoint PROVE IInv'
  OBVIOUS
<1> DEFINE x == dev.rings \cup {Address(dev.ep_configs[Min(left)])}
           d == [dev EXCEPT !.rings = x]
<1>1. /\ at = "rings" /\ left # {} /\ AllocTransferRing /\ dev' = d
      /\ left' = left \ {Min(left)}
      /\ UNCHANGED <<conf, port, dequeue, asked, events, at, user>>
  BY DEF ConfigureEndpoint
<1>2. /\ Device(dev) /\ dev.initialize_phase = 4 /\ port = "kInitializingDevice"
      /\ left \in SUBSET Nat /\ IsFiniteSet(left)
  BY <1>1 DEF IInv, Typed, PhaseInv, LoopInv
<1>3. DOMAIN dev = Fields
  BY <1>2 DEF Device
<1> HIDE DEF x
<1>4. Device(d)
  BY <1>3 DEF Device
<1>5. /\ SameRest(d, dev) /\ d.trbs = dev.trbs
      /\ d.setup_stage_map = dev.setup_stage_map /\ d.write_index = dev.write_index
  BY <1>3 DEF Fields, SameRest
<1> HIDE DEF d
<1>6. Min(left) \in left
  BY <1>1, <1>2, MinMember
<1>7. /\ IsFiniteSet(left') /\ left' \in SUBSET Nat
      /\ Cardinality(left') = Cardinality(left) - 1 /\ Cardinality(left) \in Nat
  <2> DEFINE m == Min(left)
  <2>1. m \in left /\ left' = left \ {m}
    BY <1>1, <1>6
  <2> HIDE DEF m
  <2> QED BY <1>2, <2>1, FS_RemoveElement, FS_CardinalityType
<1>8. Typed' /\ PhaseInv' /\ LoopInv'
  <2>1. LoopInv'
    BY <1>7 DEF LoopInv
  <2>2. Typed'
    BY <1>1, <1>4 DEF IInv, Typed
  <2>3. PhaseInv'
    BY <1>1, <1>2, <1>5 DEF IInv, PhaseInv, SameRest
  <2> QED BY <2>1, <2>2, <2>3
<1>9. CommandInv' /\ ReportInv'
  BY <1>1, <1>5 DEF IInv, CommandInv, ReportInv, SameRest
<1>10. NotifyInv'
  BY <1>1, <1>5 DEF IInv, NotifyInv, Notified, SameRest, user
<1>11. RequestInv'
  <2>1. Buffer(dev.trbs) /\ Table(dev.setup_stage_map) /\ Few(dev, dequeue, events, 0)
    BY <1>2 DEF IInv, RequestInv
  <2>2. Few(d, dequeue, events, 0)
    BY <1>5, <2>1, SamePipe
  <2>3. d.initialize_phase = 4
    BY <1>2, <1>5 DEF SameRest
  <2> QED BY <1>1, <1>2, <1>5, <2>1, <2>2, <2>3 DEF RequestInv
<1>12. PoolInv'
  <2> DEFINE n == Cardinality(left)
             r == RingSpace
  <2>1. Sound(alloc_ptr, blocks) /\ alloc_ptr + n * r <= PoolEnd
    BY <1>1, <1>2 DEF IInv, PoolInv, Rest
  <2>2. n \in Nat /\ n # 0 /\ r \in Nat
    BY <1>1, <1>2, <1>7, FS_EmptySet, RingSpaceNat
  <2>3. Rest' = (n - 1) * r
    <3>1. r' = r
      BY DEF RingSpace
    <3>2. dev'.initialize_phase = 4 /\ at' = "rings"
      BY <1>1, <1>2, <1>5 DEF SameRest
    <3> QED BY <1>7, <3>1, <3>2 DEF Rest
  <2> HIDE DEF n, r
  <2>4. (n - 1) * r \in Nat /\ n * r = (n - 1) * r + r
    BY <2>2
  <2>5. alloc_ptr \in Nat /\ PoolEnd \in Nat
    BY <2>1, PoolAssumption DEF Sound, PoolEnd
  <2> DEFINE rest == (n - 1) * r
  <2>6. rest \in Nat /\ alloc_ptr + (rest + r) <= PoolEnd /\ Rest' = rest
    BY <2>1, <2>3, <2>4
  <2> HIDE DEF rest
  <2>7. alloc_ptr + RingSpace <= PoolEnd
    BY <2>2, <2>5, <2>6 DEF r
  <2>8. Sound(alloc_ptr', blocks') /\ alloc_ptr' <= alloc_ptr + RingSpace
    BY <1>1, <2>1, <2>7, AddRing
  <2>9. alloc_ptr' \in Nat
    BY <2>8 DEF Sound
  <2>10. alloc_ptr' + rest <= PoolEnd
    <3>1. alloc_ptr' <= alloc_ptr + r
      BY <2>8 DEF r
    <3>2. \A p, q, s, k, e \in Nat : p + (s + k) <= e /\ q <= p + k => q + s <= e
      OBVIOUS
    <3>3. alloc_ptr + (rest + r) <= PoolEnd /\ rest \in Nat
      BY <2>6
    <3> QED BY <2>2, <2>5, <2>9, <3>1, <3>2, <3>3
  <2> QED BY <2>6, <2>8, <2>10 DEF PoolInv, PoolEnd
<1> QED BY <1>8, <1>9, <1>10, <1>11, <1>12 DEF IInv

\* The endpoints are configured: the class driver's endpoint numbers are gone
\* through, and no request has been given yet.
LEMMA OnEndpointsConfiguredInv == IInv /\ OnEndpointsConfigured => IInv'
<1> SUFFICES ASSUME IInv, OnEndpointsConfigured PROVE IInv'
  OBVIOUS
<1>1. /\ at = "events" /\ events # <<>> /\ Head(events).type = "command"
      /\ events' = Tail(events) /\ port' = "kConfigured" /\ at' = "drivers"
      /\ left' = dev.class_drivers
      /\ UNCHANGED <<conf, dev, pool, dequeue, asked, user>>
  BY DEF OnEndpointsConfigured, Event
<1>2. /\ events \in Seq(EventTRB) /\ conf \in Configurations
      /\ AtMostOne(events, "command") /\ AtMostOne(events, "report")
  BY DEF IInv, Typed, CommandInv, ReportInv
<1>3. port = "kConfiguringEndpoints"
  <2>1. 1 \in OfType(events, "command")
    BY <1>1, <1>2, TailEvents DEF OfType
  <2> QED BY <2>1 DEF IInv, CommandInv, None
<1>4. /\ dev.initialize_phase = 4 /\ Supported(conf) # {}
      /\ dev.class_drivers = EndpointNumbers(EndpointConfigs(conf))
  BY <1>3 DEF IInv, PhaseInv
<1>5. /\ EndpointNumbers(EndpointConfigs(conf)) \in SUBSET Nat
      /\ IsFiniteSet(EndpointNumbers(EndpointConfigs(conf))) /\ Drivers \in Nat
  BY <1>2, <1>4, ConfigsAssumed
<1>6. /\ dev.hid_phase = 0 /\ asked = 0 /\ None(events, "report")
  BY <1>3 DEF IInv, ReportInv
<1>7. /\ events' \in Seq(EventTRB) /\ None(events', "command")
  BY <1>1, <1>2, TailEvents, TailKinds
<1>8. None(events', "report") /\ AtMostOne(events', "report")
  BY <1>1, <1>2, <1>6, TailKinds
<1>9. ReportCame(events') <=> ReportCame(events)
  BY <1>1, <1>2, TailReport
<1>10. Typed' /\ LoopInv'
  BY <1>1, <1>4, <1>5, <1>7 DEF IInv, Typed, LoopInv
<1>11. PhaseInv'
  BY <1>1, <1>4 DEF IInv, PhaseInv
<1>12. CommandInv' /\ ReportInv'
  BY <1>1, <1>6, <1>7, <1>8 DEF CommandInv, ReportInv, None, AtMostOne
<1>13. NotifyInv'
  BY <1>1, <1>9 DEF IInv, NotifyInv, Notified, user
<1>14. RequestInv'
  <2>1. Buffer(dev.trbs) /\ Table(dev.setup_stage_map) /\ Few(dev, dequeue, events, 0)
    BY <1>3, <1>4 DEF IInv, RequestInv
  <2>2. /\ Used(dev.setup_stage_map) = {} /\ Transfers(events) = {}
        /\ dequeue = dev.write_index /\ dev.write_index \in 0 .. RingSize - 2
    BY <2>1, FewNothing
  <2>3. Short(dev, dequeue, events, 0)
    BY <2>1, <2>2, FewNothing
  <2>4. Short(dev, dequeue, events', 0)
    BY <1>1, <1>2, <2>3, FewDropped
  <2>5. Called' = 0
    <3>1. Drivers' = Drivers /\ Cardinality(left') = Drivers
      BY <1>1, <1>4 DEF Drivers
    <3> QED BY <1>1, <1>5, <3>1 DEF Called
  <2> QED BY <1>1, <2>1, <2>4, <2>5 DEF RequestInv
<1>15. PoolInv'
  <2>1. Rest' = Rest
    BY <1>1, <1>4 DEF Rest
  <2> QED BY <1>1, <2>1 DEF IInv, PoolInv, pool
<1> QED BY <1>10, <1>11, <1>12, <1>13, <1>14, <1>15 DEF IInv

\* The class driver is called once more and asks for the boot protocol.
LEMMA CallDriverInv == IInv /\ CallDriver => IInv'
<1> SUFFICES ASSUME IInv, CallDriver PROVE IInv'
  OBVIOUS
<1> DEFINE d == [dev EXCEPT !.hid_phase = 1]
           setup == SetProtocol
           yes == TRUE
<1>1. /\ at = "drivers" /\ left # {} /\ left' = left \ {Min(left)}
      /\ dev' = ControlTransfer(d, setup, yes) /\ yes \in BOOLEAN
      /\ UNCHANGED <<conf, pool, port, dequeue, asked, events, at, user>>
  BY DEF CallDriver, HIDOnEndpointsConfigured
<1>2. /\ Device(dev) /\ conf \in Configurations /\ events \in Seq(EventTRB)
      /\ dev.initialize_phase = 4 /\ port = "kConfigured" /\ Supported(conf) # {}
      /\ left \in SUBSET Nat /\ IsFiniteSet(left)
  BY <1>1 DEF IInv, Typed, PhaseInv, LoopInv
<1>3. dev.hid_phase # 2 /\ asked = 0 /\ None(events, "report") /\ AtMostOne(events, "report")
  BY <1>1 DEF IInv, ReportInv
<1>4. DOMAIN dev = Fields
  BY <1>2 DEF Device
<1>5. Device(d)
  BY <1>4 DEF Device
<1>6. /\ d.initialize_phase = dev.initialize_phase /\ d.trbs = dev.trbs
      /\ d.setup_stage_map = dev.setup_stage_map /\ d.write_index = dev.write_index
      /\ d.hid_phase = 1 /\ d.hid_buf = dev.hid_buf /\ d.previous_buf = dev.previous_buf
      /\ d.ep_configs = dev.ep_configs /\ d.class_drivers = dev.class_drivers
      /\ d.class_driver = dev.class_driver
  BY <1>4 DEF Fields
<1>7. ~HasDataStage(setup)
  BY DEF HasDataStage, SetProtocol
<1> HIDE DEF d, setup, yes
<1>8. Device(dev') /\ SameRest(dev', d)
  BY <1>1, <1>5, ControlTransferFields
<1>9. /\ dev'.initialize_phase = dev.initialize_phase /\ dev'.hid_phase = 1
      /\ dev'.hid_buf = dev.hid_buf /\ dev'.previous_buf = dev.previous_buf
      /\ dev'.ep_configs = dev.ep_configs /\ dev'.class_drivers = dev.class_drivers
      /\ dev'.class_driver = dev.class_driver
  BY <1>6, <1>8 DEF SameRest
<1>10. Min(left) \in left
  BY <1>1, <1>2, MinMember
<1>11. /\ IsFiniteSet(left') /\ left' \in SUBSET Nat
       /\ Cardinality(left') = Cardinality(left) - 1
       /\ Cardinality(left) \in Nat /\ Cardinality(left) # 0
  <2> DEFINE m == Min(left)
  <2>1. m \in left /\ left' = left \ {m}
    BY <1>1, <1>10
  <2> HIDE DEF m
  <2>2. IsFiniteSet(left') /\ Cardinality(left') = Cardinality(left) - 1
    BY <1>2, <2>1, FS_RemoveElement
  <2>3. Cardinality(left) \in Nat /\ Cardinality(left) # 0
    BY <1>1, <1>2, FS_CardinalityType, FS_EmptySet
  <2> QED BY <1>2, <2>1, <2>2, <2>3
<1>12. /\ Buffer(dev.trbs) /\ Table(dev.setup_stage_map)
       /\ Short(dev, dequeue, events, Called)
  BY <1>2 DEF IInv, RequestInv
<1>13. Drivers \in Nat /\ Drivers <= MapSize /\ 2 * Drivers < RingSize - 1
  BY <1>2, ConfigsAssumed
<1>14. /\ Called = Drivers - Cardinality(left) /\ Called' = Called + 1
       /\ Called \in Nat /\ Called < Drivers
  <2>1. Called = Drivers - Cardinality(left)
    BY <1>1 DEF Called
  <2>2. Called' = Drivers - Cardinality(left')
    BY <1>1 DEF Called, Drivers
  <2>3. PICK m \in Nat : m <= Called
    BY <1>12 DEF Short
  <2> QED BY <1>11, <1>13, <2>1, <2>2, <2>3
<1>15. RequestInv'
  <2> DEFINE n == Called
  <2>1. n \in Nat /\ n < MapSize /\ 2 * (n + 1) < RingSize - 1
    BY <1>13, <1>14, TablesAssumption, RingSizeAssumption
  <2>2. Short(d, dequeue, events, n)
    BY <1>6, <1>12, SamePipe
  <2> HIDE DEF n
  <2>3. Buffer(dev'.trbs) /\ Table(dev'.setup_stage_map) /\ Short(dev', dequeue, events, n + 1)
    BY <1>1, <1>5, <1>6, <1>7, <1>12, <2>1, <2>2, ShortGiven
  <2>4. Short(dev', dequeue', events', Called')
    BY <1>1, <1>14, <2>3 DEF n
  <2> QED BY <1>1, <1>2, <2>3, <2>4 DEF RequestInv
<1>16. Typed' /\ LoopInv'
  BY <1>1, <1>8, <1>11 DEF IInv, Typed, LoopInv
<1>17. PhaseInv'
  BY <1>1, <1>2, <1>9 DEF IInv, PhaseInv
<1>18. CommandInv' /\ ReportInv'
  BY <1>1, <1>2, <1>3, <1>9 DEF IInv, CommandInv, ReportInv
<1>19. NotifyInv'
  BY <1>1, <1>9 DEF IInv, NotifyInv, Notified, user
<1>20. PoolInv'
  <2>1. Rest' = Rest
    BY <1>1, <1>2, <1>9 DEF Rest
  <2> QED BY <1>1, <2>1 DEF IInv, PoolInv, pool
<1> QED BY <1>15, <1>16, <1>17, <1>18, <1>19, <1>20 DEF IInv
-----------------------------------------------------------------------------
(* The theorems.                                                           *)

\* Every step keeps the invariant.
LEMMA NextInv == IInv /\ [Next]_vars => IInv'
<1> SUFFICES ASSUME IInv, [Next]_vars PROVE IInv'
  OBVIOUS
<1>1. CASE DriverStep
  BY <1>1, StartInitializeInv, OnDeviceDescriptorInv, OnConfigurationDescriptorInv,
     OnConfigurationSetInv, ConfigureEndpointInv, EndpointsReadyInv, OnEndpointsConfiguredInv,
     CallDriverInv, DriversCalledInv, OnProtocolSetInv, OnReportInv, OnErrorInv
     DEF DriverStep
<1>2. CASE ControllerStep
  BY <1>2, ExecuteControlInv, EndpointsConfiguredInv DEF ControllerStep
<1>3. CASE SendReport
  BY <1>3, SendReportInv
<1>4. CASE FailReport
  BY <1>4, FailReportInv
<1>5. CASE Unplug
  BY <1>5, SameInv DEF Unplug
<1>6. CASE UNCHANGED vars
  BY <1>6, SameInv DEF vars
<1> QED BY <1>1, <1>2, <1>3, <1>4, <1>5, <1>6 DEF Next

\* The inductive invariant holds of every behaviour.
LEMMA Invariant == Spec => []IInv
  BY InitInv, NextInv, PTL DEF Spec

\* The entry of an answer that is in the event ring leads to its Setup Stage.
LEMMA StageOfAnswer ==
  ASSUME NEW trbs, NEW table, NEW write, NEW read, NEW es \in Seq(EventTRB),
         NEW b \in 0 .. RingSize - 2, NEW m \in Nat, NEW x \in Nat, NEW long \in BOOLEAN,
         Table(table), Requests(trbs, table, write, read, es, b, m, x, long),
         NEW e \in Transfers(es)
  PROVE  LET stage == Get(table, es[e].pointer)
         IN  stage # NoValue /\ After(stage) = es[e].pointer /\ trbs[stage].type = "setup"
<1> DEFINE key == es[e].pointer
<1>1. Has(table, key)
  BY DEF Requests, Answers
<1> HIDE DEF key
<1>2. PICK i \in Used(table) : table[i].key = key
  BY <1>1 DEF Has
<1>3. \A j, k \in Used(table) : table[j].key = table[k].key => j = k
  BY DEF Requests, Entries
<1>4. Get(table, key) = table[i].value
  BY <1>2, <1>3, GetFound
<1>5. PICK j \in 0 .. m - 1 : table[i].key = Place(b, 2 * j + 1) /\ table[i].value = Place(b, 2 * j)
  BY DEF Requests, Entries
<1>6. 2 * j \in 0 .. RingSize - 3
  <2>1. Length(m, long) < RingSize - 1
    BY DEF Requests, Span
  <2> QED BY <2>1, RingSizeAssumption DEF Length
<1>7. Place(b, 2 * j) \in 0 .. RingSize - 2 /\ After(Place(b, 2 * j)) = Place(b, 2 * j + 1)
  <2>1. 2 * j \in Nat /\ 2 * j < RingSize - 1
    BY <1>6, RingSizeAssumption
  <2> DEFINE k == 2 * j
  <2> HIDE DEF k
  <2>2. Place(b, k) \in 0 .. RingSize - 2 /\ After(Place(b, k)) = Place(b, k + 1)
    BY <2>1, PlaceAfter DEF k
  <2> QED BY <2>2 DEF k
<1>8. trbs[Place(b, 2 * j)].type = "setup"
  BY DEF Requests, Stages
<1>9. Place(b, 2 * j) # NoValue
  BY <1>7, RingSizeAssumption DEF NoValue
<1> QED BY <1>2, <1>4, <1>5, <1>7, <1>8, <1>9 DEF key

\* SetupStageFound: OnTransferEventReceived finds, for every answer that may
\* come, the Setup Stage TRB of the request it is for.
THEOREM SetupStageCorrect == Spec => []SetupStageFound
<1>1. IInv => SetupStageFound
  <2> SUFFICES ASSUME IInv, NEW e \in DOMAIN events, events[e].type = "transfer"
               PROVE  LET stage == Get(dev.setup_stage_map, events[e].pointer)
                      IN  /\ stage # NoValue /\ After(stage) = events[e].pointer
                          /\ dev.trbs[stage].type = "setup"
    BY DEF SetupStageFound
  <2>1. events \in Seq(EventTRB) /\ Table(dev.setup_stage_map) /\ e \in Transfers(events)
    BY DEF IInv, Typed, RequestInv, Transfers, OfType
  <2>2. PICK b \in 0 .. RingSize - 2, m \in Nat, x \in Nat, long \in BOOLEAN :
          Requests(dev.trbs, dev.setup_stage_map, dev.write_index, dequeue, events, b, m, x, long)
    BY DEF IInv, RequestInv, Few, Short
  <2> QED BY <2>1, <2>2, StageOfAnswer
<1> QED BY <1>1, Invariant, PTL

\* OneReportAsked: one buffer is enough, the class driver never has two
\* reports under way.
THEOREM OneReportCorrect == Spec => []OneReportAsked
<1>1. IInv => OneReportAsked
  <2> SUFFICES ASSUME IInv PROVE OneReportAsked
    OBVIOUS
  <2> DEFINE R == OfType(events, "report")
  <2>1. /\ asked \in {0, 1} /\ (asked = 1 => R = {}) /\ \A i, j \in R : i = j
    BY DEF IInv, ReportInv, None, AtMostOne
  <2> HIDE DEF R
  <2>2. Cardinality(R) \in {0, 1} /\ (asked = 1 => Cardinality(R) = 0)
    <3>1. CASE R = {}
      BY <3>1, FS_EmptySet
    <3>2. CASE R # {}
      <4>1. PICK i : R = {i}
        BY <2>1, <3>2
      <4> QED BY <2>1, <3>2, <4>1, FS_Singleton
    <3> QED BY <3>1, <3>2
  <2>3. asked + Cardinality(R) <= 1
    BY <2>1, <2>2
  <2> QED BY <2>3 DEF OneReportAsked, R, OfType
<1> QED BY <1>1, Invariant, PTL

\* PoolBlocksOK: the blocks of the class driver and of the transfer rings lie
\* apart in the pool, aligned and within their boundaries.
THEOREM PoolBlocksCorrect == Spec => []PoolBlocksOK
<1>1. IInv => PoolBlocksOK
  BY SoundBlocks DEF IInv, PoolInv
<1> QED BY <1>1, Invariant, PTL

\* NotifiedOnce: OnInterruptCompleted tells of each key press and each move
\* that was reported since the last one, and of nothing else.
THEOREM NotifiedCorrect == Spec => NotifiedOnce
<1>1. IInv /\ [Next]_vars => [OnReport => Notified(dev) = owed]_vars
  <2> SUFFICES ASSUME IInv, OnReport PROVE Notified(dev) = owed
    OBVIOUS
  <2>1. events # <<>> /\ Head(events).type = "report" /\ Head(events).ok
    BY DEF OnReport, Event
  <2>2. events \in Seq(EventTRB)
    BY DEF IInv, Typed
  <2>3. 1 \in OfType(events, "report") /\ events[1] = Head(events) /\ Head(events) \in EventTRB
    BY <2>1, <2>2, TailEvents DEF OfType
  <2>4. Head(events).ok = TRUE
    BY <2>1, <2>3 DEF EventTRB, ConfigureCompletion
  <2>5. ReportCame(events)
    BY <2>3, <2>4 DEF ReportCame
  <2> QED BY <2>5 DEF IInv, NotifyInv
<1> QED BY <1>1, Invariant, PTL DEF Spec, NotifiedOnce
=============================================================================
