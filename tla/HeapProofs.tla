----------------------------- MODULE HeapProofs -----------------------------
(***************************************************************************)
(* Proof, for every extent of the heap, every base address of the memory   *)
(* and all sequences of requests, that the heap of a tile stays a list of  *)
(* blocks that covers its extent and leads both ways, and that allocations *)
(* are kept until they are freed.                                          *)
(*                                                                         *)
(* Every operation of the allocator is made of three changes of the list:  *)
(* a block is split in two, a block takes in the next one, a flag of a     *)
(* header changes.  Each has a lemma that the list stays well formed; the  *)
(* operations are then shown to make such changes only, and what they do   *)
(* to the free blocks and to the allocations follows from where they make  *)
(* them.                                                                   *)
(***************************************************************************)
EXTENDS DeviceHeap, WellFoundedInduction, TLAPS

(* What a header holds *)
Header == [prev : Nat, size : Nat, in_use : BOOLEAN, is_last : BOOLEAN, host : BOOLEAN]

(* The blocks of heap b: aligned, inside the heap, each before the next one *)
Blocks(b) ==
  /\ b \in [DOMAIN b -> Header] /\ HeapStart \in DOMAIN b
  /\ \A a \in DOMAIN b :
       /\ a \in Int /\ a >= HeapStart /\ a % 4 = 0 /\ b[a].size % 4 = 0
       /\ AtEnd(b, a) <= HeapEnd
       /\ b[a].is_last => AtEnd(b, a) = HeapEnd
       /\ ~b[a].is_last => AtEnd(b, a) \in DOMAIN b
  /\ \A a, x \in DOMAIN b : x > a => x >= AtEnd(b, a)

(* The list leads back: prev, and every block but the first one has one before it *)
Back(b) ==
  /\ b[HeapStart].prev = Null
  /\ \A a \in DOMAIN b : ~b[a].is_last => b[AtEnd(b, a)].prev \in {a, DeviceBase + a}
  /\ \A x \in DOMAIN b \ {HeapStart} : \E a \in DOMAIN b : ~b[a].is_last /\ AtEnd(b, a) = x

List(b) == Blocks(b) /\ Back(b)

(* Block x, if it is free, is the last one or followed by one in use *)
Guarded(b, x) == ~b[x].in_use /\ ~b[x].is_last => b[AtEnd(b, x)].in_use

(* No two free blocks in a row; the same, but perhaps before a; and around a *)
Alone(b) == \A x \in DOMAIN b : Guarded(b, x)
AloneAfter(b, a) == \A x \in DOMAIN b : Guarded(b, x) \/ AtEnd(b, x) = a
AloneAround(b, a) == \A x \in DOMAIN b \ {a} : Guarded(b, x) \/ AtEnd(b, x) = a

InUse(b) == {x \in DOMAIN b : b[x].in_use}

(* What was allocated before is kept, with the possible exception of a *)
Kept(b, c, a) ==
  /\ InUse(c) \ {a} = InUse(b) \ {a}
  /\ \A x \in InUse(b) \ {a} : c[x].size = b[x].size /\ (b[x].host => c[x].host)

(* The allocations, by whom they were made and of what size *)
Allocated ==
  /\ DOMAIN owner = InUse(heap) /\ DOMAIN asked = InUse(heap)
  /\ \A a \in InUse(heap) :
       /\ owner[a] \in {"host", "device"} /\ (owner[a] = "host" => heap[a].host)
       /\ asked[a] \in Nat /\ heap[a].size >= asked[a]

HeapInv == /\ List(heap) /\ Allocated /\ NoFalseLeak
           /\ phase \in {"setup", "running", "aborted", "stray", "leak", "done"}
           /\ phase # "stray" => Alone(heap)
-----------------------------------------------------------------------------
(* Blocks have their ends in the order of their beginnings. *)
LEMMA Apart ==
  ASSUME NEW b, Blocks(b), NEW x \in DOMAIN b
  PROVE  /\ x \in Int /\ b[x] \in Header /\ b[x].size \in Nat
         /\ AtEnd(b, x) = x + 8 + b[x].size /\ AtEnd(b, x) \in Int
         /\ AtEnd(b, x) > x /\ AtEnd(b, x) > HeapStart /\ AtEnd(b, x) # Null /\ x # Null
         /\ \A y \in DOMAIN b : x # y => AtEnd(b, x) # AtEnd(b, y)
<1> USE HeapAssumption DEF HeaderSize, Null
<1>1. /\ x \in Int /\ x >= HeapStart /\ b[x] \in Header /\ b[x].size \in Nat
      BY DEF Blocks, Header
<1>2. AtEnd(b, x) = x + 8 + b[x].size
      BY DEF AtEnd
<1>3. ASSUME NEW y \in DOMAIN b, x # y PROVE AtEnd(b, x) # AtEnd(b, y)
  <2>1. y \in Int /\ b[y].size \in Nat
        BY DEF Blocks, Header
  <2>2. AtEnd(b, y) = y + 8 + b[y].size
        BY DEF AtEnd
  <2>3. (x > y => x >= AtEnd(b, y)) /\ (y > x => y >= AtEnd(b, x))
        BY DEF Blocks
  <2> QED BY <1>1, <1>2, <1>3, <2>1, <2>2, <2>3
<1> QED BY <1>1, <1>2, <1>3

(* A header that differs from another one by its prev at most *)
Like(h, k) == /\ h.size = k.size /\ (h.in_use <=> k.in_use)
              /\ (h.is_last <=> k.is_last) /\ (h.host <=> k.host)

(* Block a of b is cut after n bytes, the rest being a free block of c *)
SplitTo(b, c, a, n) ==
  LET new == a + 8 + n
  IN /\ DOMAIN c = DOMAIN b \union {new} /\ c \in [DOMAIN c -> Header]
     /\ c[new].prev \in {a, DeviceBase + a} /\ c[new].size = b[a].size - n - 8
     /\ ~c[new].in_use /\ (c[new].is_last <=> b[a].is_last)
     /\ c[a].size = n /\ ~c[a].is_last /\ c[a].prev = b[a].prev
     /\ (c[a].in_use <=> b[a].in_use) /\ (c[a].host <=> b[a].host)
     /\ \A x \in DOMAIN b \ {a} :
          /\ Like(c[x], b[x])
          /\ IF ~b[a].is_last /\ x = AtEnd(b, a) THEN c[x].prev \in {new, DeviceBase + new}
                                                 ELSE c[x].prev = b[x].prev

(* The ends of the blocks then *)
SplitEnds(b, c, a, new) ==
  /\ new \notin DOMAIN b /\ new # HeapStart
  /\ AtEnd(c, a) = new /\ AtEnd(c, new) = AtEnd(b, a)
  /\ \A x \in DOMAIN b \ {a} : AtEnd(c, x) = AtEnd(b, x)

(* A block that is cut, with room for a header and min_alloc_size bytes. *)
LEMMA SplitBlocks ==
  ASSUME NEW b, NEW c, NEW a \in DOMAIN b, NEW n \in Nat, n % 4 = 0,
         Blocks(b), b[a].size >= n + 16, SplitTo(b, c, a, n)
  PROVE  Blocks(c) /\ SplitEnds(b, c, a, a + 8 + n)
<1> DEFINE new == a + 8 + n
<1> USE HeapAssumption
<1>a. /\ a \in Int /\ b[a].size \in Nat /\ AtEnd(b, a) = a + 8 + b[a].size /\ a >= HeapStart
      /\ a % 4 = 0 /\ b[a].size % 4 = 0 /\ AtEnd(b, a) <= HeapEnd
      BY Apart DEF Blocks
<1>1. /\ DOMAIN c = DOMAIN b \union {new} /\ c \in [DOMAIN c -> Header]
      /\ c[new].size = b[a].size - n - 8 /\ c[a].size = n /\ ~c[a].is_last
      /\ (c[new].is_last <=> b[a].is_last)
      BY DEF SplitTo
<1>2. \A x \in DOMAIN b \ {a} : c[x].size = b[x].size /\ (c[x].is_last <=> b[x].is_last)
      BY DEF SplitTo, Like
<1>3. /\ new \in Int /\ new > a /\ new >= HeapStart /\ new + 8 <= AtEnd(b, a) /\ new # HeapStart
      /\ new % 4 = 0 /\ (b[a].size - n - 8) % 4 = 0
      BY <1>a
<1>4. AtEnd(c, a) = new /\ AtEnd(c, new) = AtEnd(b, a)
      BY <1>1, <1>a DEF AtEnd, HeaderSize
<1>5. \A x \in DOMAIN b \ {a} : AtEnd(c, x) = AtEnd(b, x)
      BY <1>2 DEF AtEnd
<1>6. new \notin DOMAIN b
  <2>1. new \in DOMAIN b => new >= AtEnd(b, a)
        BY <1>3, <1>a DEF Blocks
  <2> QED BY <2>1, <1>3, <1>a
<1> HIDE DEF new
<1>7. ASSUME NEW x \in DOMAIN c
      PROVE  /\ x \in Int /\ x >= HeapStart /\ x % 4 = 0 /\ c[x].size % 4 = 0
             /\ AtEnd(c, x) <= HeapEnd
             /\ c[x].is_last => AtEnd(c, x) = HeapEnd
             /\ ~c[x].is_last => AtEnd(c, x) \in DOMAIN c
  <2>1. CASE x = new
        BY <1>1, <1>3, <1>4, <1>a, <2>1 DEF Blocks
  <2>2. CASE x = a
        BY <1>1, <1>3, <1>4, <1>a, <2>2 DEF Blocks
  <2>3. CASE x \in DOMAIN b \ {a}
        BY <1>1, <1>2, <1>5, <2>3 DEF Blocks
  <2> QED BY <1>1, <2>1, <2>2, <2>3
<1>8. ASSUME NEW x \in DOMAIN c, NEW y \in DOMAIN c, y > x PROVE y >= AtEnd(c, x)
  <2>1. \A z \in DOMAIN b : z \in Int /\ AtEnd(b, z) \in Int /\ AtEnd(b, z) > z
        BY Apart
  <2>2. \A z \in DOMAIN b : (z > a => z >= AtEnd(b, a)) /\ (a > z => a >= AtEnd(b, z))
        BY DEF Blocks
  <2>3. CASE x = new
    <3>1. y \in DOMAIN b /\ y > a
          BY <1>1, <1>3, <1>8, <2>1, <2>3, <1>a
    <3> QED BY <1>4, <2>2, <2>3, <3>1
  <2>4. CASE x = a
    <3>1. CASE y = new
          BY <1>3, <1>4, <2>4, <3>1
    <3>2. CASE y \in DOMAIN b
          BY <1>3, <1>4, <1>8, <2>1, <2>2, <2>4, <3>2
    <3> QED BY <1>1, <3>1, <3>2
  <2>5. CASE x \in DOMAIN b \ {a}
    <3>1. CASE y = new
      <4>1. ~(x > a)
            BY <1>3, <1>8, <2>1, <2>2, <2>5, <3>1, <1>a
      <4> QED BY <1>3, <1>5, <2>1, <2>2, <2>5, <3>1, <4>1, <1>a
    <3>2. CASE y \in DOMAIN b
          BY <1>5, <1>8, <2>5, <3>2 DEF Blocks
    <3> QED BY <1>1, <3>1, <3>2
  <2> QED BY <1>1, <2>3, <2>4, <2>5
<1>9. HeapStart \in DOMAIN c
      BY <1>1 DEF Blocks
<1>10. Blocks(c)
      BY <1>1, <1>7, <1>8, <1>9 DEF Blocks
<1> QED BY <1>10, <1>3, <1>4, <1>5, <1>6 DEF new, SplitEnds

(* The two parts lead to each other, and the next block to the second one. *)
LEMMA SplitList ==
  ASSUME NEW b, NEW c, NEW a \in DOMAIN b, NEW n \in Nat, n % 4 = 0,
         List(b), b[a].size >= n + 16, SplitTo(b, c, a, n)
  PROVE  List(c)
<1> DEFINE new == a + 8 + n
<1>0. Blocks(b)
      BY DEF List
<1>1. /\ Blocks(c) /\ new \notin DOMAIN b /\ new # HeapStart
      /\ AtEnd(c, a) = new /\ AtEnd(c, new) = AtEnd(b, a)
      /\ \A x \in DOMAIN b \ {a} : AtEnd(c, x) = AtEnd(b, x)
  <2>1. Blocks(c) /\ SplitEnds(b, c, a, new)
        BY <1>0, SplitBlocks
  <2> QED BY <2>1 DEF SplitEnds
<1>2. /\ DOMAIN c = DOMAIN b \union {new} /\ c[new].prev \in {a, DeviceBase + a}
      /\ (c[new].is_last <=> b[a].is_last) /\ ~c[a].is_last /\ c[a].prev = b[a].prev
      BY DEF SplitTo
<1>3. \A x \in DOMAIN b \ {a} :
        /\ c[x].is_last <=> b[x].is_last
        /\ ~(~b[a].is_last /\ x = AtEnd(b, a)) => c[x].prev = b[x].prev
        /\ ~b[a].is_last /\ x = AtEnd(b, a) => c[x].prev \in {new, DeviceBase + new}
      BY DEF SplitTo, Like
<1> HIDE DEF new
<1>4. /\ AtEnd(b, a) # a /\ AtEnd(b, a) # HeapStart
      /\ \A x \in DOMAIN b \ {a} : AtEnd(b, x) # AtEnd(b, a)
  <2>1. /\ a \in Int /\ AtEnd(b, a) \in Int /\ AtEnd(b, a) > a /\ AtEnd(b, a) > HeapStart
        /\ \A x \in DOMAIN b : a # x => AtEnd(b, a) # AtEnd(b, x)
        BY Apart DEF List
  <2> QED BY <2>1, HeapAssumption
<1>5. HeapStart \in DOMAIN b
      BY DEF List, Blocks
<1>6. c[HeapStart].prev = Null
      BY <1>2, <1>3, <1>4, <1>5 DEF List, Back
<1>7. ASSUME NEW x \in DOMAIN c, ~c[x].is_last PROVE c[AtEnd(c, x)].prev \in {x, DeviceBase + x}
  <2>1. CASE x = new
    <3>1. AtEnd(b, a) \in DOMAIN b \ {a}
          BY <1>2, <1>4, <1>7, <2>1 DEF List, Blocks
    <3> QED BY <1>1, <1>2, <1>3, <1>7, <2>1, <3>1
  <2>2. CASE x = a
        BY <1>1, <1>2, <2>2
  <2>3. CASE x \in DOMAIN b \ {a}
    <3>1. AtEnd(b, x) \in DOMAIN b /\ b[AtEnd(b, x)].prev \in {x, DeviceBase + x}
          BY <1>3, <1>7, <2>3 DEF List, Blocks, Back
    <3>2. c[AtEnd(b, x)].prev = b[AtEnd(b, x)].prev
          BY <1>2, <1>3, <1>4, <2>3, <3>1
    <3> QED BY <1>1, <2>3, <3>1, <3>2
  <2> QED BY <1>2, <2>1, <2>2, <2>3
<1>8. ASSUME NEW y \in DOMAIN c \ {HeapStart} PROVE \E x \in DOMAIN c : ~c[x].is_last /\ AtEnd(c, x) = y
  <2>1. CASE y = new
        BY <1>1, <1>2, <2>1
  <2>2. CASE y \in DOMAIN b
    <3>1. PICK p \in DOMAIN b : ~b[p].is_last /\ AtEnd(b, p) = y
          BY <2>2 DEF List, Back
    <3>2. CASE p = a
          BY <1>1, <1>2, <3>1, <3>2
    <3>3. CASE p # a
          BY <1>1, <1>2, <1>3, <3>1, <3>3
    <3> QED BY <3>2, <3>3
  <2> QED BY <1>2, <2>1, <2>2
<1> QED BY <1>1, <1>6, <1>7, <1>8 DEF List, Back

(* Block a of b takes in the next one *)
MergeTo(b, c, a) ==
  LET next == AtEnd(b, a)
  IN /\ ~b[a].is_last /\ ~b[next].in_use
     /\ DOMAIN c = DOMAIN b \ {next} /\ c \in [DOMAIN c -> Header]
     /\ c[a].size = b[a].size + 8 + b[next].size /\ (c[a].is_last <=> b[next].is_last)
     /\ c[a].prev = b[a].prev /\ (c[a].in_use <=> b[a].in_use) /\ (c[a].host <=> b[a].host)
     /\ \A x \in DOMAIN c \ {a} :
          /\ Like(c[x], b[x])
          /\ IF ~b[next].is_last /\ x = AtEnd(b, next) THEN c[x].prev = DeviceBase + a
                                                       ELSE c[x].prev = b[x].prev

(* The ends of the blocks when a takes in the next one. *)
LEMMA MergeEnds ==
  ASSUME NEW b, NEW c, NEW a \in DOMAIN b, Blocks(b), MergeTo(b, c, a)
  PROVE  /\ AtEnd(b, a) \in DOMAIN b /\ AtEnd(b, a) # a /\ AtEnd(b, a) # HeapStart /\ a \in DOMAIN c
         /\ AtEnd(c, a) = AtEnd(b, AtEnd(b, a))
         /\ \A x \in DOMAIN c \ {a} : AtEnd(c, x) = AtEnd(b, x) /\ AtEnd(b, x) # AtEnd(b, a)
         /\ AtEnd(b, AtEnd(b, a)) # a /\ AtEnd(b, AtEnd(b, a)) # AtEnd(b, a)
<1> DEFINE next == AtEnd(b, a)
<1>1. next \in DOMAIN b
      BY DEF MergeTo, Blocks
<1>2. /\ DOMAIN c = DOMAIN b \ {next} /\ c[a].size = b[a].size + 8 + b[next].size
      /\ \A x \in DOMAIN c \ {a} : c[x].size = b[x].size
      BY DEF MergeTo, Like
<1>3. /\ a \in Int /\ b[a].size \in Nat /\ next = a + 8 + b[a].size /\ next # HeapStart
      /\ \A x \in DOMAIN b : x # a => AtEnd(b, x) # next
      BY Apart, HeapAssumption
<1>4. next \in Int /\ b[next].size \in Nat /\ AtEnd(b, next) = next + 8 + b[next].size
      BY <1>1, Apart
<1> HIDE DEF next
<1>5. AtEnd(c, a) = AtEnd(b, next)
  <2>1. AtEnd(c, a) = a + 8 + (b[a].size + 8 + b[next].size)
        BY <1>2 DEF AtEnd, HeaderSize
  <2> QED BY <1>3, <1>4, <2>1
<1>6. \A x \in DOMAIN c \ {a} : AtEnd(c, x) = AtEnd(b, x)
      BY <1>2 DEF AtEnd
<1> QED BY <1>1, <1>2, <1>3, <1>4, <1>5, <1>6 DEF next

(* The blocks when a takes in the next one. *)
LEMMA MergeBlocks ==
  ASSUME NEW b, NEW c, NEW a \in DOMAIN b, Blocks(b), MergeTo(b, c, a)
  PROVE  Blocks(c)
<1> DEFINE next == AtEnd(b, a)
<1>1. /\ next \in DOMAIN b /\ next # a /\ next # HeapStart /\ a \in DOMAIN c
      /\ AtEnd(c, a) = AtEnd(b, next)
      /\ \A x \in DOMAIN c \ {a} : AtEnd(c, x) = AtEnd(b, x) /\ AtEnd(b, x) # next
      /\ AtEnd(b, next) # next
      BY MergeEnds
<1>2. /\ DOMAIN c = DOMAIN b \ {next} /\ c \in [DOMAIN c -> Header]
      /\ c[a].size = b[a].size + 8 + b[next].size /\ (c[a].is_last <=> b[next].is_last)
      /\ \A x \in DOMAIN c \ {a} : c[x].size = b[x].size /\ (c[x].is_last <=> b[x].is_last)
      BY DEF MergeTo, Like
<1>3. /\ a \in Int /\ next \in Int /\ next > a /\ b[a].size \in Nat /\ b[next].size \in Nat
      /\ AtEnd(b, next) \in Int /\ AtEnd(b, next) > next
      BY <1>1, Apart
<1>4. b[a].size % 4 = 0 /\ b[next].size % 4 = 0
      BY <1>1 DEF Blocks
<1> HIDE DEF next
<1>5. c[a].size % 4 = 0
      BY <1>2, <1>3, <1>4
<1>6. ASSUME NEW x \in DOMAIN c
      PROVE  /\ x \in Int /\ x >= HeapStart /\ x % 4 = 0 /\ c[x].size % 4 = 0
             /\ AtEnd(c, x) <= HeapEnd
             /\ c[x].is_last => AtEnd(c, x) = HeapEnd
             /\ ~c[x].is_last => AtEnd(c, x) \in DOMAIN c
  <2>1. CASE x = a
        BY <1>1, <1>2, <1>5, <2>1 DEF Blocks
  <2>2. CASE x # a
        BY <1>1, <1>2, <2>2 DEF Blocks
  <2> QED BY <2>1, <2>2
<1>7. ASSUME NEW x \in DOMAIN c, NEW y \in DOMAIN c, y > x PROVE y >= AtEnd(c, x)
  <2>1. CASE x = a
    <3>1. y \in DOMAIN b /\ y \in Int /\ y # next
          BY <1>2, Apart
    <3>2. y >= next
          BY <1>7, <2>1, <3>1 DEF Blocks, next
    <3>3. y > next => y >= AtEnd(b, next)
          BY <1>1, <3>1 DEF Blocks
    <3> QED BY <1>1, <1>3, <2>1, <3>1, <3>2, <3>3
  <2>2. CASE x # a
        BY <1>1, <1>2, <1>7, <2>2 DEF Blocks
  <2> QED BY <2>1, <2>2
<1>8. HeapStart \in DOMAIN c
      BY <1>1, <1>2 DEF Blocks
<1> QED BY <1>2, <1>6, <1>7, <1>8 DEF Blocks

(* The block after the one taken in leads back to a. *)
LEMMA MergeList ==
  ASSUME NEW b, NEW c, NEW a \in DOMAIN b, List(b), MergeTo(b, c, a)
  PROVE  List(c)
<1> DEFINE next == AtEnd(b, a)
<1>0. Blocks(b) /\ Back(b)
      BY DEF List
<1>1. /\ next \in DOMAIN b /\ next # a /\ next # HeapStart /\ a \in DOMAIN c
      /\ AtEnd(c, a) = AtEnd(b, next)
      /\ \A x \in DOMAIN c \ {a} : AtEnd(c, x) = AtEnd(b, x) /\ AtEnd(b, x) # next
      /\ AtEnd(b, next) # next /\ AtEnd(b, next) # a
      BY <1>0, MergeEnds
<1>2. /\ DOMAIN c = DOMAIN b \ {next} /\ (c[a].is_last <=> b[next].is_last)
      /\ c[a].prev = b[a].prev
      /\ \A x \in DOMAIN c \ {a} :
           /\ c[x].is_last <=> b[x].is_last
           /\ ~b[next].is_last /\ x = AtEnd(b, next) => c[x].prev = DeviceBase + a
           /\ ~(~b[next].is_last /\ x = AtEnd(b, next)) => c[x].prev = b[x].prev
      BY DEF MergeTo, Like
<1>3. /\ AtEnd(b, next) # HeapStart
      /\ \A x \in DOMAIN b : x # next => AtEnd(b, x) # AtEnd(b, next)
  <2>1. /\ AtEnd(b, next) \in Int /\ AtEnd(b, next) > HeapStart
        /\ \A x \in DOMAIN b : next # x => AtEnd(b, next) # AtEnd(b, x)
        BY <1>0, <1>1, Apart
  <2> QED BY <2>1, HeapAssumption
<1>4. HeapStart \in DOMAIN b
      BY <1>0 DEF Blocks
<1> HIDE DEF next
<1>5. c[HeapStart].prev = Null
      BY <1>0, <1>1, <1>2, <1>3, <1>4 DEF Back
<1>6. ASSUME NEW x \in DOMAIN c, ~c[x].is_last PROVE c[AtEnd(c, x)].prev \in {x, DeviceBase + x}
  <2>1. CASE x = a
    <3>1. AtEnd(b, next) \in DOMAIN b \ {next, a} /\ ~b[next].is_last
          BY <1>0, <1>1, <1>2, <1>6, <2>1 DEF Blocks
    <3> QED BY <1>1, <1>2, <2>1, <3>1
  <2>2. CASE x # a
    <3>1. AtEnd(b, x) \in DOMAIN b /\ b[AtEnd(b, x)].prev \in {x, DeviceBase + x}
          BY <1>0, <1>2, <1>6, <2>2 DEF Blocks, Back
    <3>2. AtEnd(b, x) # next /\ AtEnd(b, x) # AtEnd(b, next)
          BY <1>1, <1>2, <1>3, <2>2
    <3>3. c[AtEnd(b, x)].prev = b[AtEnd(b, x)].prev
          BY <1>2, <3>1, <3>2
    <3> QED BY <1>1, <2>2, <3>1, <3>3
  <2> QED BY <2>1, <2>2
<1>7. ASSUME NEW y \in DOMAIN c \ {HeapStart} PROVE \E x \in DOMAIN c : ~c[x].is_last /\ AtEnd(c, x) = y
  <2>1. PICK p \in DOMAIN b : ~b[p].is_last /\ AtEnd(b, p) = y
        BY <1>0, <1>2 DEF Back
  <2>2. CASE p = next
        BY <1>1, <1>2, <2>1, <2>2
  <2>3. CASE p = a
        BY <1>2, <2>1, <2>3 DEF next
  <2>4. CASE p \notin {a, next}
        BY <1>1, <1>2, <2>1, <2>4
  <2> QED BY <2>2, <2>3, <2>4
<1>8. Blocks(c)
      BY <1>0, MergeBlocks
<1> QED BY <1>5, <1>6, <1>7, <1>8 DEF List, Back

(* Only flags differ: in_use, is_host_allocated *)
SameList(b, c) ==
  /\ DOMAIN c = DOMAIN b /\ c \in [DOMAIN c -> Header]
  /\ \A x \in DOMAIN b : /\ c[x].size = b[x].size /\ c[x].prev = b[x].prev
                         /\ c[x].is_last <=> b[x].is_last

(* A change of flags leaves the list as it is. *)
LEMMA FlagList ==
  ASSUME NEW b, NEW c, List(b), SameList(b, c)
  PROVE  List(c) /\ \A x \in DOMAIN b : AtEnd(c, x) = AtEnd(b, x)
<1>1. /\ DOMAIN c = DOMAIN b /\ c \in [DOMAIN c -> Header]
      /\ \A x \in DOMAIN b : /\ c[x].size = b[x].size /\ c[x].prev = b[x].prev
                             /\ c[x].is_last <=> b[x].is_last
      BY DEF SameList
<1>2. \A x \in DOMAIN b : AtEnd(c, x) = AtEnd(b, x)
      BY <1>1 DEF AtEnd
<1>3. Blocks(b) /\ Back(b)
      BY DEF List
<1>4. Blocks(c)
      BY <1>1, <1>2, <1>3 DEF Blocks
<1>5. c[HeapStart].prev = Null
      BY <1>1, <1>3 DEF Blocks, Back
<1>6. \A a \in DOMAIN c : ~c[a].is_last => c[AtEnd(c, a)].prev \in {a, DeviceBase + a}
      BY <1>1, <1>2, <1>3 DEF Blocks, Back
<1>7. \A x \in DOMAIN c \ {HeapStart} : \E a \in DOMAIN c : ~c[a].is_last /\ AtEnd(c, a) = x
      BY <1>1, <1>2, <1>3 DEF Back
<1> QED BY <1>2, <1>4, <1>5, <1>6, <1>7 DEF List, Back
-----------------------------------------------------------------------------
(* The code of split, on the device and on the host, and of try_merge_next. *)

(* The headers after Cut *)
CutHeaders(b, k, a, new, n, p, h) ==
  /\ DOMAIN k = DOMAIN b \union {new} /\ k \in [DOMAIN k -> Header]
  /\ k[new] = [prev |-> p, size |-> b[a].size - n - 8, in_use |-> FALSE,
               is_last |-> b[a].is_last, host |-> h]
  /\ k[a] = [b[a] EXCEPT !.size = n, !.is_last = FALSE]
  /\ \A x \in DOMAIN b \ {a} : k[x] = b[x]

(* Cut, by the headers of its result. *)
LEMMA CutIs ==
  ASSUME NEW b, Blocks(b), NEW a \in DOMAIN b, NEW n \in Nat, b[a].size >= n + 16,
         NEW p \in Nat, NEW h \in BOOLEAN, a + 8 + n \notin DOMAIN b
  PROVE  CutHeaders(b, Cut(b, a, n, p, h), a, a + 8 + n, n, p, h)
<1> DEFINE k == Cut(b, a, n, p, h)
           new == a + 8 + n
           rest == [prev |-> p, size |-> b[a].size - n - 8, in_use |-> FALSE,
                    is_last |-> b[a].is_last, host |-> h]
<1>1. /\ b \in [DOMAIN b -> Header] /\ b[a].size \in Nat /\ b[a] \in Header
      BY Apart DEF Blocks
<1>2. b[a].size - n - 8 \in Nat
      BY <1>1
<1>3. rest \in Header /\ [b[a] EXCEPT !.size = n, !.is_last = FALSE] \in Header
      BY Zenon, <1>1, <1>2 DEF Header
<1>4. k = [x \in DOMAIN b \union {new} |->
             CASE x = new -> rest
               [] x = a -> [b[a] EXCEPT !.size = n, !.is_last = FALSE]
               [] OTHER -> b[x]]
      BY DEF Cut, HeaderSize
<1>5. new \notin DOMAIN b
      OBVIOUS
<1> HIDE DEF new, rest, k
<1>6. /\ DOMAIN k = DOMAIN b \union {new} /\ k[new] = rest
      /\ k[a] = [b[a] EXCEPT !.size = n, !.is_last = FALSE]
      /\ \A x \in DOMAIN b \ {a} : k[x] = b[x]
      BY <1>4, <1>5
<1>7. k \in [DOMAIN k -> Header]
      BY <1>1, <1>3, <1>4, <1>5
<1> QED BY <1>6, <1>7 DEF new, rest, k, CutHeaders

(* A block has no header inside it. *)
LEMMA NewIsNew ==
  ASSUME NEW b, Blocks(b), NEW a \in DOMAIN b, NEW n \in Nat, b[a].size >= n + 16
  PROVE  /\ a + 8 + n \notin DOMAIN b /\ a + 8 + n \in Nat /\ a \in Nat
         /\ ~b[a].is_last => AtEnd(b, a) \in DOMAIN b \ {a, a + 8 + n}
<1> USE HeapAssumption
<1>1. /\ a \in Int /\ b[a].size \in Nat /\ AtEnd(b, a) = a + 8 + b[a].size /\ a >= HeapStart
      BY Apart DEF Blocks
<1>2. a + 8 + n \in DOMAIN b => a + 8 + n >= AtEnd(b, a)
  <2>1. \A x \in DOMAIN b : x > a => x >= AtEnd(b, a)
        BY DEF Blocks
  <2> QED BY <1>1, <2>1
<1>3. ~b[a].is_last => AtEnd(b, a) \in DOMAIN b
      BY DEF Blocks
<1> QED BY <1>1, <1>2, <1>3

(* Cut, then the prev of the next block, if there is one. *)
LEMMA CutSplits ==
  ASSUME NEW b, Blocks(b), NEW a \in DOMAIN b, NEW n \in Nat, b[a].size >= n + 16,
         NEW p \in {a, DeviceBase + a}, NEW h \in BOOLEAN, NEW k, k = Cut(b, a, n, p, h),
         NEW q \in {a + 8 + n, DeviceBase + (a + 8 + n)}, NEW c,
         c = IF b[a].is_last THEN k ELSE [k EXCEPT ![AtEnd(b, a)].prev = q]
  PROVE  SplitTo(b, c, a, n)
<1> DEFINE new == a + 8 + n
           y == AtEnd(b, a)
<1>1. /\ new \notin DOMAIN b /\ new \in Nat /\ a \in Nat
      /\ ~b[a].is_last => y \in DOMAIN b \ {a, new}
      BY NewIsNew
<1>2. p \in Nat /\ q \in Nat
      BY <1>1, HeapAssumption
<1>3. /\ DOMAIN k = DOMAIN b \union {new} /\ k \in [DOMAIN k -> Header]
      /\ k[new] = [prev |-> p, size |-> b[a].size - n - 8, in_use |-> FALSE,
                   is_last |-> b[a].is_last, host |-> h]
      /\ k[a] = [b[a] EXCEPT !.size = n, !.is_last = FALSE]
      /\ \A x \in DOMAIN b \ {a} : k[x] = b[x]
  <2>1. CutHeaders(b, k, a, new, n, p, h)
        BY <1>1, <1>2, CutIs
  <2> QED BY <2>1 DEF CutHeaders
<1>4. b \in [DOMAIN b -> Header] /\ b[a] \in Header
      BY Apart DEF Blocks
<1>5. /\ k[new].prev = p /\ k[new].size = b[a].size - n - 8 /\ ~k[new].in_use
      /\ k[new].is_last <=> b[a].is_last
      BY <1>3
<1>6. /\ k[a].size = n /\ ~k[a].is_last /\ k[a].prev = b[a].prev
      /\ (k[a].in_use <=> b[a].in_use) /\ (k[a].host <=> b[a].host)
      BY <1>3, <1>4 DEF Header
<1> HIDE DEF new, y
<1>7. CASE b[a].is_last
  <2>1. c = k
        BY <1>7
  <2>2. \A x \in DOMAIN b \ {a} :
          /\ Like(c[x], b[x])
          /\ IF ~b[a].is_last /\ x = AtEnd(b, a) THEN c[x].prev \in {new, DeviceBase + new}
                                                 ELSE c[x].prev = b[x].prev
        BY <1>3, <1>7, <2>1 DEF Like
  <2> QED BY Zenon, <1>3, <1>5, <1>6, <2>1, <2>2 DEF SplitTo, new
<1>8. CASE ~b[a].is_last
  <2>1. c = [k EXCEPT ![y].prev = q] /\ y \in DOMAIN k
        BY <1>1, <1>3, <1>8 DEF y
  <2>2. k[y] \in Header
        BY <1>3, <2>1
  <2>3. DOMAIN c = DOMAIN k /\ (\A x \in DOMAIN k \ {y} : c[x] = k[x]) /\ c[y] = [k[y] EXCEPT !.prev = q]
        BY <2>1
  <2>4. c[y] \in Header /\ c[y].prev = q /\ Like(c[y], k[y])
        BY <1>2, <2>2, <2>3 DEF Header, Like
  <2>5. c \in [DOMAIN c -> Header]
        BY Zenon, <1>2, <1>3, <2>1, <2>3, <2>4
  <2>6. c[new] = k[new] /\ c[a] = k[a]
        BY Zenon, <1>1, <1>3, <1>8, <2>3
  <2>7. ASSUME NEW x \in DOMAIN b \ {a}
        PROVE  /\ Like(c[x], b[x])
               /\ x = y => c[x].prev \in {new, DeviceBase + new}
               /\ x # y => c[x].prev = b[x].prev
    <3>1. CASE x = y
          BY <1>3, <2>4, <3>1 DEF new
    <3>2. CASE x # y
          BY Zenon, <1>3, <2>3, <3>2 DEF Like
    <3> QED BY <3>1, <3>2
  <2>8. \A x \in DOMAIN b \ {a} :
          /\ Like(c[x], b[x])
          /\ IF ~b[a].is_last /\ x = AtEnd(b, a) THEN c[x].prev \in {new, DeviceBase + new}
                                                 ELSE c[x].prev = b[x].prev
        BY <1>8, <2>7 DEF y
  <2>9. /\ DOMAIN c = DOMAIN b \union {new} /\ c \in [DOMAIN c -> Header]
        /\ c[new].prev \in {a, DeviceBase + a} /\ c[new].size = b[a].size - n - 8
        /\ ~c[new].in_use /\ (c[new].is_last <=> b[a].is_last)
        BY <1>3, <1>5, <2>3, <2>5, <2>6
  <2>10. /\ c[a].size = n /\ ~c[a].is_last /\ c[a].prev = b[a].prev
         /\ (c[a].in_use <=> b[a].in_use) /\ (c[a].host <=> b[a].host)
        BY Zenon, <1>6, <2>6
  <2> QED BY <2>8, <2>9, <2>10 DEF SplitTo, new
<1> QED BY <1>7, <1>8

(* split, on the device. *)
LEMMA SplitIs ==
  ASSUME NEW b, Blocks(b), NEW a \in DOMAIN b, NEW n \in Nat, b[a].size >= n + 16, NEW h \in BOOLEAN
  PROVE  SplitTo(b, split(b, a, n, h), a, n)
<1> DEFINE new == a + 8 + n
           k == Cut(b, a, n, DeviceBase + a, h)
<1>1. /\ new \notin DOMAIN b /\ new \in Nat /\ a \in Nat
      BY NewIsNew
<1>2. k[new] = [prev |-> DeviceBase + a, size |-> b[a].size - n - 8, in_use |-> FALSE,
                is_last |-> b[a].is_last, host |-> h]
  <2>1. DeviceBase + a \in Nat
        BY <1>1, HeapAssumption
  <2>2. CutHeaders(b, k, a, new, n, DeviceBase + a, h)
        BY <1>1, <2>1, CutIs
  <2> QED BY <2>2 DEF CutHeaders
<1>3. b[a].size \in Nat /\ AtEnd(b, a) = a + 8 + b[a].size /\ AtEnd(b, a) # Null
      BY Apart
<1>4. AtEnd(k, new) = new + 8 + (b[a].size - n - 8)
      BY <1>2 DEF AtEnd, HeaderSize
<1>5. AtEnd(k, new) = AtEnd(b, a)
      BY <1>1, <1>3, <1>4
<1>6. get_next(k, new) = IF b[a].is_last THEN Null ELSE AtEnd(b, a)
      BY <1>2, <1>5 DEF get_next
<1>7. split(b, a, n, h) = IF b[a].is_last THEN k ELSE [k EXCEPT ![AtEnd(b, a)].prev = DeviceBase + new]
      BY <1>3, <1>6 DEF split, correct_next, SetPrev, HeaderSize
<1> QED BY <1>7, CutSplits

(* split, on the host. *)
LEMMA HostSplitIs ==
  ASSUME NEW b, Blocks(b), NEW a \in DOMAIN b, NEW n \in Nat, b[a].size >= n + 16
  PROVE  SplitTo(b, host_split(b, a, n), a, n)
<1> DEFINE new == a + 8 + n
           k == Cut(b, a, n, set_offset(Null, a), TRUE)
           q == set_offset(b[AtEnd(b, a)].prev, new)
<1>1. /\ new \in Nat /\ a \in Nat
      BY NewIsNew
<1>2. AtEnd(b, a) # Null
      BY Apart
<1>3. set_offset(Null, a) = a
      BY <1>1, HeapAssumption DEF set_offset, Null
<1>4. ~b[a].is_last => q \in {new, DeviceBase + new}
      BY <1>1 DEF set_offset
<1>5. host_split(b, a, n) = IF b[a].is_last THEN k ELSE [k EXCEPT ![AtEnd(b, a)].prev = q]
      BY Zenon, <1>2 DEF host_split, get_next, SetPrev, HeaderSize
<1>6. CASE b[a].is_last
      BY Zenon, <1>3, <1>5, <1>6, CutSplits
<1>7. CASE ~b[a].is_last
      BY Zenon, <1>3, <1>4, <1>5, <1>7, CutSplits
<1> QED BY <1>6, <1>7

(* try_merge_next, when there is nothing to merge and when there is. *)
LEMMA NotMerged ==
  ASSUME NEW b, Blocks(b), NEW a \in DOMAIN b, b[a].is_last \/ b[AtEnd(b, a)].in_use
  PROVE  try_merge_next(b, a) = b
BY Apart DEF try_merge_next, get_next

LEMMA MergeIs ==
  ASSUME NEW b, Blocks(b), NEW a \in DOMAIN b, ~b[a].is_last, ~b[AtEnd(b, a)].in_use
  PROVE  MergeTo(b, try_merge_next(b, a), a)
<1> DEFINE next == AtEnd(b, a)
           y == AtEnd(b, next)
           big == [b[a] EXCEPT !.size = @ + HeaderSize + b[next].size, !.is_last = b[next].is_last]
           k == [x \in DOMAIN b \ {next} |-> IF x = a THEN big ELSE b[x]]
           c == try_merge_next(b, a)
<1>1. next \in DOMAIN b
      BY DEF Blocks
<1>2. /\ a \in Int /\ b[a] \in Header /\ b[a].size \in Nat /\ next = a + 8 + b[a].size
      /\ next > a /\ next # Null
      BY Apart
<1>3. /\ next \in Int /\ b[next] \in Header /\ b[next].size \in Nat
      /\ y = next + 8 + b[next].size /\ y > next /\ y # Null
      BY <1>1, Apart
<1>4. b \in [DOMAIN b -> Header] /\ (~b[next].is_last => y \in DOMAIN b)
      BY <1>1 DEF Blocks
<1>5. b[a].size + 8 + b[next].size \in Nat
      BY <1>2, <1>3
<1>6. /\ big \in Header /\ big.size = b[a].size + 8 + b[next].size
      /\ (big.is_last <=> b[next].is_last) /\ big.prev = b[a].prev
      /\ (big.in_use <=> b[a].in_use) /\ (big.host <=> b[a].host)
      BY Zenon, <1>2, <1>3, <1>5 DEF Header, HeaderSize
<1>7. a \in DOMAIN b \ {next}
      BY <1>2, <1>3
<1>8. /\ DOMAIN k = DOMAIN b \ {next} /\ k[a] = big /\ \A x \in DOMAIN k \ {a} : k[x] = b[x]
      BY <1>7
<1>9. AtEnd(k, a) = y
  <2>1. AtEnd(k, a) = a + 8 + big.size
        BY Zenon, <1>8 DEF AtEnd, HeaderSize
  <2> QED BY <1>2, <1>3, <1>6, <2>1
<1>10. get_next(k, a) = IF b[next].is_last THEN Null ELSE y
      BY Zenon, <1>6, <1>8, <1>9 DEF get_next
<1>11. get_next(b, a) = next
      BY DEF get_next
<1>12. c = correct_next(k, a)
      BY <1>2, <1>11 DEF try_merge_next
<1>13. c = IF b[next].is_last THEN k ELSE [k EXCEPT ![y].prev = DeviceBase + a]
      BY Zenon, <1>3, <1>10, <1>12 DEF correct_next, SetPrev
<1>14. k \in [DOMAIN k -> Header]
      BY <1>4, <1>6, <1>8
<1>15. DeviceBase + a \in Nat
  <2>1. a >= HeapStart
        BY DEF Blocks
  <2> QED BY <1>2, <2>1, HeapAssumption
<1>16. y \notin {a, next}
      BY <1>2, <1>3
<1>17. ~b[a].is_last /\ ~b[next].in_use
      OBVIOUS
<1> HIDE DEF next, y, big, k, c
<1>18. CASE b[next].is_last
  <2>1. c = k
        BY <1>13, <1>18
  <2>2. \A x \in DOMAIN c \ {a} :
          /\ Like(c[x], b[x])
          /\ IF ~b[next].is_last /\ x = AtEnd(b, next) THEN c[x].prev = DeviceBase + a
                                                       ELSE c[x].prev = b[x].prev
        BY <1>8, <1>18, <2>1 DEF Like
  <2>3. MergeTo(b, c, a)
        BY <1>6, <1>8, <1>14, <1>17, <2>1, <2>2 DEF MergeTo, next
  <2> QED BY <2>3 DEF c
<1>19. CASE ~b[next].is_last
  <2>1. c = [k EXCEPT ![y].prev = DeviceBase + a] /\ y \in DOMAIN k /\ y # a
        BY <1>4, <1>8, <1>13, <1>16, <1>19
  <2>2. k[y] \in Header /\ k[y] = b[y]
        BY <1>8, <1>14, <2>1
  <2>3. DOMAIN c = DOMAIN k /\ (\A x \in DOMAIN k \ {y} : c[x] = k[x])
        /\ c[y] = [k[y] EXCEPT !.prev = DeviceBase + a]
        BY <2>1
  <2>4. c[y] \in Header /\ c[y].prev = DeviceBase + a /\ Like(c[y], b[y])
        BY <1>15, <2>2, <2>3 DEF Header, Like
  <2>5. c \in [DOMAIN c -> Header]
        BY <1>14, <1>15, <2>1, <2>3, <2>4
  <2>6. c[a] = big
        BY <1>7, <1>8, <2>1, <2>3
  <2>7. ASSUME NEW x \in DOMAIN c \ {a}
        PROVE  /\ Like(c[x], b[x])
               /\ x = y => c[x].prev = DeviceBase + a
               /\ x # y => c[x].prev = b[x].prev
    <3>1. CASE x = y
          BY <2>4, <3>1
    <3>2. CASE x # y
          BY <1>8, <2>3, <3>2 DEF Like
    <3> QED BY <3>1, <3>2
  <2>8. \A x \in DOMAIN c \ {a} :
          /\ Like(c[x], b[x])
          /\ IF ~b[next].is_last /\ x = AtEnd(b, next) THEN c[x].prev = DeviceBase + a
                                                       ELSE c[x].prev = b[x].prev
        BY <1>19, <2>7 DEF y
  <2>9. MergeTo(b, c, a)
        BY <1>6, <1>8, <1>17, <2>3, <2>5, <2>6, <2>8 DEF MergeTo, next
  <2> QED BY <2>9 DEF c
<1> QED BY <1>18, <1>19

-----------------------------------------------------------------------------
(* What the three changes do to the allocations and to the free blocks. *)

(* A split keeps what is in use; only the block itself may be followed by a free one *)
(* where it was not before.                                                          *)
LEMMA SplitKeeps ==
  ASSUME NEW b, NEW c, NEW a \in DOMAIN b, NEW n \in Nat, n % 4 = 0,
         Blocks(b), b[a].size >= n + 16, SplitTo(b, c, a, n)
  PROVE  /\ InUse(c) = InUse(b) /\ Kept(b, c, a) /\ (c[a].host <=> b[a].host)
         /\ Alone(b) /\ (b[a].is_last \/ b[AtEnd(b, a)].in_use) =>
              \A x \in DOMAIN c \ {a} : Guarded(c, x)
<1> DEFINE new == a + 8 + n
<1>1. /\ new \notin DOMAIN b /\ AtEnd(c, new) = AtEnd(b, a)
      /\ \A x \in DOMAIN b \ {a} : AtEnd(c, x) = AtEnd(b, x)
  <2>1. SplitEnds(b, c, a, new)
        BY Zenon, SplitBlocks
  <2> QED BY <2>1 DEF SplitEnds
<1>2. /\ DOMAIN c = DOMAIN b \union {new} /\ ~c[new].in_use
      /\ (c[new].is_last <=> b[a].is_last)
      /\ (c[a].in_use <=> b[a].in_use) /\ (c[a].host <=> b[a].host)
      BY DEF SplitTo
<1>3. \A x \in DOMAIN b \ {a} :
        /\ c[x].size = b[x].size /\ (c[x].in_use <=> b[x].in_use)
        /\ (c[x].is_last <=> b[x].is_last) /\ (c[x].host <=> b[x].host)
      BY DEF SplitTo, Like
<1> HIDE DEF new
<1>4. InUse(c) = InUse(b)
      BY <1>1, <1>2, <1>3 DEF InUse
<1>5. Kept(b, c, a)
      BY <1>3, <1>4 DEF Kept, InUse
<1>6. ASSUME Alone(b), b[a].is_last \/ b[AtEnd(b, a)].in_use, NEW x \in DOMAIN c \ {a}
      PROVE  Guarded(c, x)
  <2>1. \A y \in DOMAIN b : b[y].in_use => c[y].in_use
        BY <1>2, <1>3
  <2>2. CASE x = new
    <3>1. ~b[a].is_last => AtEnd(b, a) \in DOMAIN b
          BY DEF Blocks
    <3> QED BY <1>1, <1>2, <1>6, <2>1, <2>2, <3>1 DEF Guarded
  <2>3. CASE x \in DOMAIN b
    <3>1. Guarded(b, x) /\ (~b[x].is_last => AtEnd(b, x) \in DOMAIN b)
          BY <1>6, <2>3 DEF Blocks, Alone
    <3> QED BY <1>1, <1>3, <1>6, <2>1, <2>3, <3>1 DEF Guarded
  <2> QED BY <1>2, <1>6, <2>2, <2>3
<1> QED BY <1>2, <1>4, <1>5, <1>6

(* A merge removes a free block, and leaves a followed by what followed that one. *)
LEMMA MergeKeeps ==
  ASSUME NEW b, NEW c, NEW a \in DOMAIN b, Blocks(b), MergeTo(b, c, a)
  PROVE  /\ a \in DOMAIN c /\ InUse(c) = InUse(b) /\ Kept(b, c, a)
         /\ (c[a].host <=> b[a].host) /\ c[a].size >= b[a].size + 8
         /\ \A x \in DOMAIN c \ {a} : Guarded(b, x) => Guarded(c, x)
         /\ Guarded(b, AtEnd(b, a)) => c[a].is_last \/ c[AtEnd(c, a)].in_use
<1> DEFINE next == AtEnd(b, a)
<1>1. /\ next \in DOMAIN b /\ next # a /\ a \in DOMAIN c /\ AtEnd(c, a) = AtEnd(b, next)
      /\ \A x \in DOMAIN c \ {a} : AtEnd(c, x) = AtEnd(b, x) /\ AtEnd(b, x) # next
      /\ AtEnd(b, next) # next /\ AtEnd(b, next) # a
      BY MergeEnds
<1>2. /\ DOMAIN c = DOMAIN b \ {next} /\ ~b[next].in_use
      /\ c[a].size = b[a].size + 8 + b[next].size /\ (c[a].is_last <=> b[next].is_last)
      /\ (c[a].in_use <=> b[a].in_use) /\ (c[a].host <=> b[a].host)
      BY DEF MergeTo
<1>3. \A x \in DOMAIN c \ {a} :
        /\ c[x].size = b[x].size /\ (c[x].in_use <=> b[x].in_use)
        /\ (c[x].is_last <=> b[x].is_last) /\ (c[x].host <=> b[x].host)
      BY DEF MergeTo, Like
<1>4. b[a].size \in Nat /\ b[next].size \in Nat
      BY <1>1, Apart
<1>5. \A x \in DOMAIN b : ~b[x].is_last => AtEnd(b, x) \in DOMAIN b
      BY DEF Blocks
<1> HIDE DEF next
<1>6. InUse(c) = InUse(b)
      BY <1>1, <1>2, <1>3 DEF InUse
<1>7. Kept(b, c, a)
      BY <1>2, <1>3, <1>6 DEF Kept, InUse
<1>8. \A y \in DOMAIN c : b[y].in_use => c[y].in_use
      BY <1>2, <1>3
<1>9. ASSUME NEW x \in DOMAIN c \ {a}, Guarded(b, x) PROVE Guarded(c, x)
  <2>1. ~b[x].is_last => AtEnd(b, x) \in DOMAIN c
        BY <1>1, <1>2, <1>5
  <2> QED BY <1>1, <1>3, <1>8, <1>9, <2>1 DEF Guarded
<1>10. ASSUME Guarded(b, next) PROVE c[a].is_last \/ c[AtEnd(c, a)].in_use
  <2>1. ~b[next].is_last => AtEnd(b, next) \in DOMAIN c
        BY <1>1, <1>2, <1>5
  <2> QED BY <1>1, <1>2, <1>8, <1>10, <2>1 DEF Guarded
<1>11. c[a].size >= b[a].size + 8
      BY <1>2, <1>4
<1> QED BY <1>1, <1>2, <1>6, <1>7, <1>9, <1>10, <1>11 DEF next
-----------------------------------------------------------------------------
(* try_malloc and the malloc of the host.  First, the block that is found. *)

(* A set of natural numbers has a least element. *)
LEMMA MinExists ==
  ASSUME NEW S \in SUBSET Nat, S # {}
  PROVE  Min(S) \in S
<1> DEFINE R == {p \in Nat \X Nat : p[1] < p[2]}
<1>1. IsWellFoundedOn(R, Nat)
      BY NatLessThanWellFounded DEF OpToRel
<1>2. PICK x \in S : \A y \in S : ~(<<y, x>> \in R)
      BY Zenon, <1>1, WFMin
<1>3. \A y \in S : x <= y
  <2> SUFFICES ASSUME NEW y \in S PROVE x <= y
      OBVIOUS
  <2>1. x \in Nat /\ y \in Nat
        OBVIOUS
  <2>2. y < x => <<y, x>> \in R
        BY <2>1
  <2> HIDE DEF R
  <2> QED BY <1>2, <2>1, <2>2
<1> QED BY Zenon, <1>3 DEF Min

(* The search finds a block that is free and large enough, or Null. *)
LEMMA FoundSuits ==
  ASSUME NEW b, Blocks(b), NEW n \in Nat, Found(b, n) # Null
  PROVE  Found(b, n) \in DOMAIN b /\ ~b[Found(b, n)].in_use /\ b[Found(b, n)].size >= n
<1>1. Suitable(b, n) \subseteq Nat
  <2>1. \A x \in DOMAIN b : x \in Int /\ x >= HeapStart
        BY DEF Blocks
  <2> QED BY <2>1, HeapAssumption DEF Suitable
<1>2. Suitable(b, n) # {} /\ Found(b, n) = Min(Suitable(b, n))
      BY DEF Found
<1>3. Found(b, n) \in Suitable(b, n)
      BY <1>1, <1>2, MinExists
<1> QED BY <1>3 DEF Suitable

(* align_size. *)
LEMMA AlignIs ==
  ASSUME NEW n \in Nat
  PROVE  align_size(n) \in Nat /\ align_size(n) >= n /\ align_size(n) % 4 = 0
BY DEF align_size, alloc_align

(* Heap m is b with free block a allocated for n bytes *)
Taken(b, m, a, n) ==
  /\ List(m) /\ Alone(m) /\ a \in DOMAIN m /\ m[a].size >= n
  /\ InUse(m) = InUse(b) \union {a} /\ Kept(b, m, a)

(* The block is marked, after a split or not. *)
LEMMA MarkTakes ==
  ASSUME NEW b, NEW c, NEW m, NEW a \in DOMAIN b, NEW n \in Nat, n % 4 = 0,
         List(b), Alone(b), ~b[a].in_use, b[a].size >= n,
         c = b \/ (b[a].size >= n + 16 /\ SplitTo(b, c, a, n)),
         SameList(c, m), m[a].in_use, \A x \in DOMAIN c \ {a} : m[x] = c[x]
  PROVE  Taken(b, m, a, n)
<1>1. Blocks(b) /\ (b[a].is_last \/ b[AtEnd(b, a)].in_use)
      BY DEF List, Alone, Guarded
<1>2. /\ List(c) /\ a \in DOMAIN c /\ c[a].size >= n
      /\ InUse(c) = InUse(b) /\ Kept(b, c, a) /\ \A x \in DOMAIN c \ {a} : Guarded(c, x)
  <2>1. CASE c = b
        BY <2>1 DEF Kept, InUse, Alone
  <2>2. CASE b[a].size >= n + 16 /\ SplitTo(b, c, a, n)
    <3>1. List(c)
          BY <2>2, SplitList
    <3>2. a \in DOMAIN c /\ c[a].size = n
          BY <2>2 DEF SplitTo
    <3>3. /\ InUse(c) = InUse(b) /\ Kept(b, c, a)
          /\ \A x \in DOMAIN c \ {a} : Guarded(c, x)
          BY <1>1, <2>2, SplitKeeps DEF List
    <3> QED BY <3>1, <3>2, <3>3
  <2> QED BY <2>1, <2>2
<1>3. List(m) /\ \A x \in DOMAIN c : AtEnd(m, x) = AtEnd(c, x)
      BY <1>2, FlagList
<1>4. /\ DOMAIN m = DOMAIN c
      /\ \A x \in DOMAIN c : m[x].size = c[x].size /\ (m[x].is_last <=> c[x].is_last)
      BY DEF SameList
<1>5. \A x \in DOMAIN c : c[x].in_use => m[x].in_use
      OBVIOUS
<1>6. ASSUME NEW x \in DOMAIN m PROVE Guarded(m, x)
  <2>1. CASE x = a
        BY <2>1 DEF Guarded
  <2>2. CASE x # a
    <3>1. Guarded(c, x) /\ m[x] = c[x] /\ AtEnd(m, x) = AtEnd(c, x)
          BY <1>2, <1>3, <1>4, <2>2
    <3>2. ~c[x].is_last => AtEnd(c, x) \in DOMAIN c
          BY <1>2, <1>4 DEF List, Blocks
    <3> QED BY <1>5, <3>1, <3>2 DEF Guarded
  <2> QED BY <2>1, <2>2
<1>7. InUse(m) = InUse(b) \union {a}
  <2>1. InUse(m) = InUse(c) \union {a}
        BY <1>2, <1>4 DEF InUse
  <2> QED BY <1>2, <2>1
<1>8. Kept(b, m, a)
  <2>1. ASSUME NEW x \in InUse(b) \ {a} PROVE m[x].size = b[x].size /\ (b[x].host => m[x].host)
    <3>1. x \in DOMAIN c \ {a} /\ c[x].size = b[x].size /\ (b[x].host => c[x].host)
          BY <1>2, <2>1 DEF Kept, InUse
    <3> QED BY <3>1
  <2> QED BY <1>7, <2>1 DEF Kept
<1> QED BY <1>2, <1>3, <1>4, <1>6, <1>7, <1>8 DEF Taken, Alone

(* try_malloc, once it has found a block. *)
LEMMA MallocTakes ==
  ASSUME NEW b, NEW a \in DOMAIN b, NEW n \in Nat, n % 4 = 0, NEW h \in BOOLEAN,
         List(b), Alone(b), ~b[a].in_use, b[a].size >= n
  PROVE  Taken(b, malloc_at(b, a, n, h), a, n)
<1> DEFINE c == IF is_splitable(b, a, n) THEN split(b, a, n, h) ELSE b
           m == malloc_at(b, a, n, h)
<1>1. Blocks(b) /\ b \in [DOMAIN b -> Header]
      BY DEF List, Blocks
<1>2. c = b \/ (b[a].size >= n + 16 /\ SplitTo(b, c, a, n))
  <2>1. CASE is_splitable(b, a, n)
    <3>1. b[a].size >= n + 16
      <4>1. b[a].size \in Nat /\ b[a].size >= n + 8 + 8
            BY <1>1, <2>1, Apart DEF is_splitable, HeaderSize, min_alloc_size
      <4> QED BY <4>1
    <3> QED BY <1>1, <2>1, <3>1, SplitIs
  <2> QED BY <2>1
<1>3. c \in [DOMAIN c -> Header] /\ a \in DOMAIN c
      BY <1>1, <1>2 DEF SplitTo
<1>4. m = [c EXCEPT ![a].in_use = TRUE]
      BY DEF malloc_at, Used
<1> HIDE DEF c, m
<1>5. c[a] \in Header
      BY <1>3
<1>6. DOMAIN m = DOMAIN c /\ m[a] = [c[a] EXCEPT !.in_use = TRUE] /\ \A x \in DOMAIN c \ {a} : m[x] = c[x]
      BY <1>3, <1>4
<1>7. /\ m[a] \in Header /\ m[a].in_use /\ m[a].size = c[a].size /\ m[a].prev = c[a].prev
      /\ m[a].is_last <=> c[a].is_last
      BY Zenon, <1>5, <1>6 DEF Header
<1>8. m \in [DOMAIN m -> Header]
      BY <1>3, <1>4, <1>6, <1>7
<1>9. SameList(c, m)
      BY Zenon, <1>6, <1>7, <1>8 DEF SameList
<1>10. Taken(b, m, a, n)
      BY Zenon, <1>2, <1>6, <1>7, <1>9, MarkTakes
<1> QED BY <1>10 DEF m

(* The malloc of the host, which marks the block as its own too. *)
LEMMA HostMallocTakes ==
  ASSUME NEW b, NEW a \in DOMAIN b, NEW n \in Nat, n % 4 = 0,
         List(b), Alone(b), ~b[a].in_use, b[a].size >= n
  PROVE  Taken(b, host_malloc_at(b, a, n), a, n) /\ host_malloc_at(b, a, n)[a].host
<1> DEFINE c == IF is_splitable(b, a, n) THEN host_split(b, a, n) ELSE b
           m == host_malloc_at(b, a, n)
<1>1. Blocks(b) /\ b \in [DOMAIN b -> Header]
      BY DEF List, Blocks
<1>2. c = b \/ (b[a].size >= n + 16 /\ SplitTo(b, c, a, n))
  <2>1. CASE is_splitable(b, a, n)
    <3>1. b[a].size >= n + 16
      <4>1. b[a].size \in Nat /\ b[a].size >= n + 8 + 8
            BY <1>1, <2>1, Apart DEF is_splitable, HeaderSize, min_alloc_size
      <4> QED BY <4>1
    <3> QED BY <1>1, <2>1, <3>1, HostSplitIs
  <2> QED BY <2>1
<1>3. c \in [DOMAIN c -> Header] /\ a \in DOMAIN c
      BY <1>1, <1>2 DEF SplitTo
<1>4. m = [[c EXCEPT ![a].in_use = TRUE] EXCEPT ![a].host = TRUE]
      BY DEF host_malloc_at, Used
<1> HIDE DEF c, m
<1>5. c[a] \in Header
      BY <1>3
<1>6. /\ DOMAIN m = DOMAIN c /\ \A x \in DOMAIN c \ {a} : m[x] = c[x]
      /\ m[a] = [[c[a] EXCEPT !.in_use = TRUE] EXCEPT !.host = TRUE]
      BY <1>3, <1>4
<1>7. /\ m[a] \in Header /\ m[a].in_use /\ m[a].host /\ m[a].size = c[a].size /\ m[a].prev = c[a].prev
      /\ m[a].is_last <=> c[a].is_last
      BY Zenon, <1>5, <1>6 DEF Header
<1>8. m \in [DOMAIN m -> Header]
      BY <1>3, <1>4, <1>6, <1>7
<1>9. SameList(c, m)
      BY Zenon, <1>6, <1>7, <1>8 DEF SameList
<1>10. Taken(b, m, a, n)
      BY Zenon, <1>2, <1>6, <1>7, <1>9, MarkTakes
<1> QED BY <1>7, <1>10 DEF m

-----------------------------------------------------------------------------
(* free, up to the merge with the previous block and then with it. *)

(* Heap c is b without the allocation a *)
Freed(b, c, a) == List(c) /\ InUse(c) = InUse(b) \ {a} /\ Kept(b, c, a)

(* The block is marked as free. *)
LEMMA MarkFrees ==
  ASSUME NEW b, NEW a \in DOMAIN b, List(b), Alone(b), b[a].in_use,
         NEW u, u = [b EXCEPT ![a].in_use = FALSE]
  PROVE  /\ Freed(b, u, a) /\ AloneAround(u, a) /\ DOMAIN u = DOMAIN b /\ ~u[a].in_use
         /\ ~u[a].is_last => Guarded(u, AtEnd(u, a))
<1>1. Blocks(b) /\ b \in [DOMAIN b -> Header] /\ b[a] \in Header
      BY DEF List, Blocks
<1>2. DOMAIN u = DOMAIN b /\ u[a] = [b[a] EXCEPT !.in_use = FALSE] /\ \A x \in DOMAIN b \ {a} : u[x] = b[x]
      BY <1>1
<1>3. /\ u[a] \in Header /\ ~u[a].in_use /\ u[a].size = b[a].size /\ u[a].prev = b[a].prev
      /\ u[a].is_last <=> b[a].is_last
      BY Zenon, <1>1, <1>2 DEF Header
<1>4. u \in [DOMAIN u -> Header]
      BY <1>1, <1>2, <1>3
<1>5. SameList(b, u)
      BY <1>2, <1>3, <1>4 DEF SameList
<1>6. List(u) /\ \A x \in DOMAIN b : AtEnd(u, x) = AtEnd(b, x)
      BY Zenon, <1>5, FlagList
<1>7. InUse(u) = InUse(b) \ {a}
      BY <1>2, <1>3 DEF InUse
<1>8. Kept(b, u, a)
      BY <1>2, <1>7 DEF Kept, InUse
<1>9. ASSUME NEW x \in DOMAIN b \ {a} PROVE Guarded(u, x) \/ AtEnd(u, x) = a
  <2>1. Guarded(b, x) /\ (~b[x].is_last => AtEnd(b, x) \in DOMAIN b)
        BY <1>1 DEF Alone, Blocks
  <2> QED BY Zenon, <1>2, <1>6, <2>1 DEF Guarded
<1>10. ASSUME ~u[a].is_last PROVE Guarded(u, AtEnd(u, a))
  <2> DEFINE next == AtEnd(b, a)
  <2>1. next \in DOMAIN b
        BY <1>1, <1>3, <1>10 DEF Blocks
  <2>2. a \in Int /\ next \in Int /\ next > a
        BY <1>1, Apart
  <2>3. AtEnd(b, next) \in Int /\ AtEnd(b, next) > next
        BY <1>1, <2>1, Apart
  <2>4. next # a /\ AtEnd(b, next) # a
        BY <2>2, <2>3
  <2> QED BY Zenon, <1>6, <1>9, <2>1, <2>4
<1> QED BY Zenon, <1>2, <1>3, <1>6, <1>7, <1>8, <1>9, <1>10 DEF Freed, AloneAround

(* Then it takes in the next one, if that is free. *)
LEMMA UnusedFrees ==
  ASSUME NEW b, NEW a \in DOMAIN b, List(b), Alone(b), b[a].in_use
  PROVE  /\ Freed(b, Unused(b, a), a) /\ AloneAfter(Unused(b, a), a)
         /\ a \in DOMAIN Unused(b, a) /\ ~Unused(b, a)[a].in_use
<1> DEFINE u == [b EXCEPT ![a].in_use = FALSE]
           c == Unused(b, a)
<1>1. /\ Freed(b, u, a) /\ AloneAround(u, a) /\ DOMAIN u = DOMAIN b /\ ~u[a].in_use
      /\ ~u[a].is_last => Guarded(u, AtEnd(u, a))
      BY Zenon, MarkFrees
<1>2. c = try_merge_next(u, a)
      BY DEF Unused
<1> HIDE DEF u, c
<1>3. List(u) /\ Blocks(u) /\ InUse(u) = InUse(b) \ {a} /\ Kept(b, u, a)
      BY <1>1 DEF Freed, List
<1>4. CASE u[a].is_last \/ u[AtEnd(u, a)].in_use
  <2>1. c = u
        BY <1>1, <1>2, <1>3, <1>4, NotMerged
  <2>2. AloneAfter(u, a)
        BY <1>1, <1>4 DEF AloneAfter, AloneAround, Guarded
  <2> QED BY <1>1, <2>1, <2>2 DEF c
<1>5. CASE ~(u[a].is_last \/ u[AtEnd(u, a)].in_use)
  <2>1. MergeTo(u, c, a)
        BY <1>1, <1>2, <1>3, <1>5, MergeIs
  <2>2. List(c)
        BY <1>1, <1>3, <2>1, MergeList
  <2>3. /\ a \in DOMAIN c /\ InUse(c) = InUse(u) /\ Kept(u, c, a)
        /\ \A x \in DOMAIN c \ {a} : Guarded(u, x) => Guarded(c, x)
        /\ Guarded(u, AtEnd(u, a)) => c[a].is_last \/ c[AtEnd(c, a)].in_use
        BY <1>1, <1>3, <2>1, MergeKeeps
  <2>4. \A x \in DOMAIN c \ {a} : x \in DOMAIN u /\ AtEnd(c, x) = AtEnd(u, x)
    <3>1. DOMAIN c \subseteq DOMAIN u
          BY <2>1 DEF MergeTo
    <3>2. \A x \in DOMAIN c \ {a} : AtEnd(c, x) = AtEnd(u, x)
          BY <1>1, <1>3, <2>1, MergeEnds
    <3> QED BY <3>1, <3>2
  <2>5. AloneAfter(c, a)
    <3>1. \A x \in DOMAIN c \ {a} : Guarded(c, x) \/ AtEnd(c, x) = a
          BY <1>1, <2>3, <2>4 DEF AloneAround
    <3>2. Guarded(c, a)
          BY <1>1, <1>5, <2>3 DEF Guarded
    <3> QED BY <3>1, <3>2 DEF AloneAfter
  <2>6. Kept(b, c, a)
        BY <1>3, <2>3 DEF Kept
  <2>7. ~c[a].in_use
        BY <1>1, <2>1 DEF MergeTo
  <2> QED BY <1>3, <2>2, <2>3, <2>5, <2>6, <2>7 DEF Freed, c
<1> QED BY <1>4, <1>5

(* try_merge_prev, when prev is null or an address of the core: no two free blocks  *)
(* in a row are left.                                                                *)
LEMMA MergePrev ==
  ASSUME NEW c, NEW a \in DOMAIN c, List(c), AloneAfter(c, a), ~c[a].in_use, ~Stray(c, a)
  PROVE  /\ List(try_merge_prev(c, a)) /\ Alone(try_merge_prev(c, a))
         /\ InUse(try_merge_prev(c, a)) = InUse(c) /\ Kept(c, try_merge_prev(c, a), a)
<1> DEFINE d == try_merge_prev(c, a)
<1> USE HeapAssumption
<1>0. Blocks(c) /\ Back(c)
      BY DEF List
<1>1. CASE a = HeapStart
  <2>1. c[a].prev = Null
        BY <1>0, <1>1 DEF Back
  <2>2. d = c
        BY <2>1 DEF try_merge_prev
  <2>3. \A x \in DOMAIN c : AtEnd(c, x) # a
    <3>1. \A x \in DOMAIN c : AtEnd(c, x) \in Int /\ AtEnd(c, x) > HeapStart
          BY <1>0, Apart
    <3> QED BY <1>1, <3>1
  <2> QED BY <2>2, <2>3 DEF AloneAfter, Alone, Kept
<1>2. CASE a # HeapStart
  <2>1. PICK p \in DOMAIN c : ~c[p].is_last /\ AtEnd(c, p) = a
        BY <1>0, <1>2 DEF Back
  <2>2. c[a].prev \in {p, DeviceBase + p}
        BY <1>0, <2>1 DEF Back
  <2>3. p \in Int /\ p >= HeapStart /\ p < DeviceBase
    <3>1. p \in Int /\ p >= HeapStart /\ AtEnd(c, p) \in Int /\ AtEnd(c, p) > p /\ AtEnd(c, p) <= HeapEnd
          BY <1>0, Apart DEF Blocks
    <3> QED BY <3>1
  <2>4. c[a].prev = DeviceBase + p /\ c[a].prev # Null /\ c[a].prev - DeviceBase = p
        BY <2>2, <2>3 DEF Stray, Null
  <2>5. d = IF c[p].in_use THEN c ELSE try_merge_next(c, p)
        BY <2>4 DEF try_merge_prev
  <2>6. \A x \in DOMAIN c : x # p => Guarded(c, x)
    <3>1. \A x \in DOMAIN c : p # x => AtEnd(c, p) # AtEnd(c, x)
          BY <1>0, Apart
    <3> QED BY <2>1, <3>1 DEF AloneAfter
  <2> HIDE DEF d
  <2>7. CASE c[p].in_use
    <3>1. d = c
          BY <2>5, <2>7
    <3>2. Alone(c)
          BY <2>6, <2>7 DEF Alone, Guarded
    <3> QED BY <3>1, <3>2 DEF Kept, d
  <2>8. CASE ~c[p].in_use
    <3>1. MergeTo(c, d, p)
          BY <1>0, <2>1, <2>5, <2>8, MergeIs
    <3>2. List(d)
          BY <3>1, MergeList
    <3>3. /\ p \in DOMAIN d /\ InUse(d) = InUse(c) /\ Kept(c, d, p)
          /\ \A x \in DOMAIN d \ {p} : Guarded(c, x) => Guarded(d, x)
          /\ Guarded(c, AtEnd(c, p)) => d[p].is_last \/ d[AtEnd(d, p)].in_use
          BY <1>0, <3>1, MergeKeeps
    <3>4. a # p
      <4>1. AtEnd(c, p) \in Int /\ AtEnd(c, p) > p
            BY <1>0, Apart
      <4> QED BY <2>1, <2>3, <4>1
    <3>5. Guarded(d, p)
          BY <2>1, <2>6, <3>3, <3>4 DEF Guarded
    <3>6. \A x \in DOMAIN d \ {p} : Guarded(d, x)
      <4>1. DOMAIN d \subseteq DOMAIN c
            BY <3>1 DEF MergeTo
      <4> QED BY <2>6, <3>3, <4>1
    <3>7. Alone(d)
          BY <3>5, <3>6 DEF Alone
    <3>8. Kept(c, d, a)
          BY <2>8, <3>3 DEF Kept, InUse
    <3> QED BY <3>2, <3>3, <3>7, <3>8 DEF d
  <2> QED BY <2>7, <2>8
<1> QED BY <1>1, <1>2

(* free, whole: the allocation is gone, the others are kept, and unless prev is an  *)
(* address of the host no two free blocks in a row are left.                        *)
LEMMA FreeFrees ==
  ASSUME NEW b, NEW a \in DOMAIN b, List(b), Alone(b), b[a].in_use
  PROVE  Freed(b, free(b, a), a) /\ (~Stray(Unused(b, a), a) => Alone(free(b, a)))
<1> DEFINE c == Unused(b, a)
           d == free(b, a)
<1>1. /\ Freed(b, c, a) /\ AloneAfter(c, a) /\ a \in DOMAIN c /\ ~c[a].in_use
      BY UnusedFrees
<1>2. d = IF Stray(c, a) THEN c ELSE try_merge_prev(c, a)
      BY DEF free
<1> HIDE DEF c, d
<1>3. CASE Stray(c, a)
      BY <1>1, <1>2, <1>3 DEF c, d
<1>4. CASE ~Stray(c, a)
  <2>1. List(d) /\ Alone(d) /\ InUse(d) = InUse(c) /\ Kept(c, d, a)
        BY <1>1, <1>2, <1>4, MergePrev DEF Freed
  <2>2. Kept(b, d, a)
        BY <1>1, <2>1 DEF Freed, Kept
  <2> QED BY <1>1, <2>1, <2>2 DEF Freed, d
<1> QED BY <1>3, <1>4

-----------------------------------------------------------------------------
(* try_realloc. *)

(* Heap g is b where allocation a may have grown; if a has more than n bytes then, it *)
(* is not followed by a free block                                                    *)
GrownTo(b, g, a, n) ==
  /\ List(g) /\ Alone(g) /\ a \in DOMAIN g /\ g[a].in_use
  /\ InUse(g) = InUse(b) /\ Kept(b, g, a) /\ (b[a].host => g[a].host) /\ g[a].size >= b[a].size
  /\ g[a].size > n => g[a].is_last \/ g[AtEnd(g, a)].in_use

(* The next block is taken in when it is free and the two suffice. *)
LEMMA GrownGrows ==
  ASSUME NEW b, NEW a \in DOMAIN b, List(b), Alone(b), b[a].in_use, NEW n \in Nat
  PROVE  GrownTo(b, Grown(b, a, n), a, n)
<1> DEFINE g == Grown(b, a, n)
           next == AtEnd(b, a)
<1>0. Blocks(b)
      BY DEF List
<1>1. b[a].size \in Nat /\ next # Null /\ (~b[a].is_last => next \in DOMAIN b)
      BY <1>0, Apart DEF Blocks
<1>2. get_next(b, a) = IF b[a].is_last THEN Null ELSE next
      BY DEF get_next
<1>3. CASE b[a].is_last \/ b[next].in_use
  <2>1. g = b
        BY <1>1, <1>2, <1>3 DEF Grown
  <2>2. Kept(b, b, a)
        BY DEF Kept
  <2> QED BY <1>1, <1>3, <2>1, <2>2 DEF GrownTo
<1>4. CASE ~b[a].is_last /\ ~b[next].in_use /\ b[a].size + b[next].size + HeaderSize < n
  <2>1. g = b
        BY <1>1, <1>2, <1>4 DEF Grown
  <2>2. ~(b[a].size > n)
    <3>1. b[next].size \in Nat
          BY <1>0, <1>1, <1>4, Apart
    <3> QED BY <1>1, <1>4, <3>1 DEF HeaderSize
  <2> QED BY <1>1, <2>1, <2>2 DEF GrownTo, Kept
<1>5. CASE ~b[a].is_last /\ ~b[next].in_use /\ ~(b[a].size + b[next].size + HeaderSize < n)
  <2>1. g = try_merge_next(b, a)
        BY <1>1, <1>2, <1>5 DEF Grown
  <2> HIDE DEF g
  <2>2. MergeTo(b, g, a)
        BY <1>0, <1>5, <2>1, MergeIs
  <2>3. List(g)
        BY <2>2, MergeList
  <2>4. /\ a \in DOMAIN g /\ InUse(g) = InUse(b) /\ Kept(b, g, a)
        /\ (g[a].host <=> b[a].host) /\ g[a].size >= b[a].size + 8
        /\ \A x \in DOMAIN g \ {a} : Guarded(b, x) => Guarded(g, x)
        /\ Guarded(b, AtEnd(b, a)) => g[a].is_last \/ g[AtEnd(g, a)].in_use
        BY <1>0, <2>2, MergeKeeps
  <2>5. g[a].in_use /\ DOMAIN g \subseteq DOMAIN b
        BY <2>2 DEF MergeTo
  <2>6. Alone(g)
        BY <2>4, <2>5 DEF Alone, Guarded
  <2>7. g[a].is_last \/ g[AtEnd(g, a)].in_use
        BY <1>1, <1>5, <2>4 DEF Alone
  <2>8. g[a].size >= b[a].size
    <3>1. g[a].size \in Nat
          BY <2>3, <2>4, Apart DEF List
    <3> QED BY <1>1, <2>4, <3>1
  <2> QED BY <2>3, <2>4, <2>5, <2>6, <2>7, <2>8 DEF GrownTo, g
<1> QED BY <1>3, <1>4, <1>5

(* The block that suffices gives back what it does not need. *)
LEMMA ShrinkKeeps ==
  ASSUME NEW b, NEW g, NEW a \in DOMAIN b, NEW n \in Nat, n % 4 = 0, NEW h \in BOOLEAN,
         GrownTo(b, g, a, n), FitsInPlace(g, a, n)
  PROVE  /\ List(realloc_in_place(g, a, n, h)) /\ Alone(realloc_in_place(g, a, n, h))
         /\ InUse(realloc_in_place(g, a, n, h)) = InUse(b)
         /\ Kept(b, realloc_in_place(g, a, n, h), a)
         /\ realloc_in_place(g, a, n, h)[a].size >= n
<1> DEFINE c == realloc_in_place(g, a, n, h)
<1>1. /\ List(g) /\ Blocks(g) /\ Alone(g) /\ a \in DOMAIN g /\ g[a].in_use /\ InUse(g) = InUse(b)
      /\ Kept(b, g, a) /\ g[a].size > n /\ (g[a].is_last \/ g[AtEnd(g, a)].in_use)
      BY DEF GrownTo, FitsInPlace, List
<1>2. g[a].size \in Nat
      BY <1>1, Apart
<1>3. CASE ~is_splitable(g, a, n)
  <2>1. c = g
        BY <1>3 DEF realloc_in_place
  <2> QED BY <1>1, <1>2, <2>1
<1>4. CASE is_splitable(g, a, n)
  <2>1. g[a].size >= n + 16
        BY <1>2, <1>4 DEF is_splitable, HeaderSize, min_alloc_size
  <2>2. c = split(g, a, n, h)
        BY <1>4 DEF realloc_in_place
  <2> HIDE DEF c
  <2>3. SplitTo(g, c, a, n)
        BY <1>1, <2>1, <2>2, SplitIs
  <2>4. List(c)
        BY <1>1, <2>1, <2>3, SplitList
  <2>5. /\ InUse(c) = InUse(g) /\ Kept(g, c, a) /\ \A x \in DOMAIN c \ {a} : Guarded(c, x)
        BY Zenon, <1>1, <2>1, <2>3, SplitKeeps
  <2>6. c[a].in_use /\ c[a].size = n
        BY <1>1, <2>3 DEF SplitTo
  <2>7. Alone(c)
        BY <2>5, <2>6 DEF Alone, Guarded
  <2>8. Kept(b, c, a)
        BY <1>1, <2>5 DEF Kept
  <2>9. InUse(c) = InUse(b) /\ c[a].size >= n
        BY <1>1, <2>5, <2>6
  <2> QED BY Zenon, <2>4, <2>7, <2>8, <2>9 DEF c
<1> QED BY <1>3, <1>4

(* Heap d is b with allocation a replaced by one of n bytes at `to' *)
MovedTo(b, d, a, to, n) ==
  /\ to # a /\ to \notin InUse(b) /\ List(d)
  /\ InUse(d) = (InUse(b) \ {a}) \union {to} /\ d[to].size >= n
  /\ \A x \in InUse(b) \ {a} : d[x].size = b[x].size /\ (b[x].host => d[x].host)

(* The block moves: another one is allocated, and the old one is freed. *)
LEMMA MoveKeeps ==
  ASSUME NEW b, NEW g, NEW a \in DOMAIN b, NEW n \in Nat, n % 4 = 0, NEW h \in BOOLEAN, b[a].in_use,
         GrownTo(b, g, a, n), NEW to, to = Found(g, n), to # Null,
         NEW m, m = malloc_at(g, to, n, h)
  PROVE  /\ MovedTo(b, free(m, a), a, to, n)
         /\ ~Stray(Unused(m, a), a) => Alone(free(m, a))
<1> DEFINE d == free(m, a)
<1>1. /\ List(g) /\ Blocks(g) /\ Alone(g) /\ a \in DOMAIN g /\ g[a].in_use /\ InUse(g) = InUse(b)
      /\ Kept(b, g, a)
      BY DEF GrownTo, List
<1>2. to \in DOMAIN g /\ ~g[to].in_use /\ g[to].size >= n
      BY <1>1, FoundSuits
<1>3. Taken(g, m, to, n)
      BY <1>1, <1>2, MallocTakes
<1>4. /\ List(m) /\ Alone(m) /\ to \in DOMAIN m /\ m[to].size >= n
      /\ InUse(m) = InUse(g) \union {to} /\ Kept(g, m, to)
      BY <1>3 DEF Taken
<1>5. to # a /\ to \notin InUse(b)
      BY <1>1, <1>2 DEF InUse
<1>6. a \in InUse(m) /\ to \in InUse(m)
      BY <1>1, <1>4 DEF InUse
<1>7. a \in DOMAIN m /\ m[a].in_use
      BY <1>6 DEF InUse
<1>8. Freed(m, d, a) /\ (~Stray(Unused(m, a), a) => Alone(d))
      BY <1>4, <1>7, FreeFrees
<1> HIDE DEF d
<1>9. List(d) /\ InUse(d) = InUse(m) \ {a} /\ Kept(m, d, a)
      BY <1>8 DEF Freed
<1>10. InUse(d) = (InUse(b) \ {a}) \union {to}
      BY <1>1, <1>4, <1>5, <1>9
<1>11. d[to].size = m[to].size
      BY <1>5, <1>6, <1>9 DEF Kept
<1>12. ASSUME NEW x \in InUse(b) \ {a} PROVE d[x].size = b[x].size /\ (b[x].host => d[x].host)
  <2>1. g[x].size = b[x].size /\ (b[x].host => g[x].host)
        BY <1>1 DEF Kept
  <2>2. m[x].size = g[x].size /\ (g[x].host => m[x].host)
        BY <1>1, <1>4, <1>5 DEF Kept
  <2>3. d[x].size = m[x].size /\ (m[x].host => d[x].host)
        BY <1>1, <1>4, <1>9 DEF Kept
  <2> QED BY <2>1, <2>2, <2>3
<1> QED BY <1>4, <1>5, <1>8, <1>9, <1>10, <1>11, <1>12 DEF d, MovedTo

-----------------------------------------------------------------------------
(* An allocation is recorded: a is in use with at least the bytes asked for. *)
LEMMA RecordKeeps ==
  ASSUME Allocated, NEW a, NEW who \in {"host", "device"}, NEW n \in Nat, Record(a, who, n),
         InUse(heap') = InUse(heap) \union {a}, Kept(heap, heap', a),
         heap'[a].size >= n, who = "host" => heap'[a].host
  PROVE  Allocated'
<1>1. DOMAIN owner' = InUse(heap') /\ DOMAIN asked' = InUse(heap')
      BY DEF Allocated, Record
<1>2. ASSUME NEW x \in InUse(heap')
      PROVE  /\ owner'[x] \in {"host", "device"} /\ (owner'[x] = "host" => heap'[x].host)
             /\ asked'[x] \in Nat /\ heap'[x].size >= asked'[x]
  <2>1. CASE x = a
    <3>1. owner'[x] = who /\ asked'[x] = n
          BY <2>1 DEF Record
    <3> QED BY <2>1, <3>1
  <2>2. CASE x # a
    <3>1. x \in InUse(heap) /\ owner'[x] = owner[x] /\ asked'[x] = asked[x]
          BY <2>2 DEF Record, Allocated
    <3>2. heap'[x].size = heap[x].size /\ (heap[x].host => heap'[x].host)
          BY <2>2, <3>1 DEF Kept
    <3> QED BY <3>1, <3>2 DEF Allocated
  <2> QED BY <2>1, <2>2
<1> QED BY <1>1, <1>2 DEF Allocated, InUse

(* An allocation is forgotten. *)
LEMMA ForgetKeeps ==
  ASSUME Allocated, NEW a, Forget(a), InUse(heap') = InUse(heap) \ {a}, Kept(heap, heap', a)
  PROVE  Allocated'
<1>1. DOMAIN owner' = InUse(heap') /\ DOMAIN asked' = InUse(heap')
      BY DEF Allocated, Forget
<1>2. ASSUME NEW x \in InUse(heap')
      PROVE  /\ owner'[x] \in {"host", "device"} /\ (owner'[x] = "host" => heap'[x].host)
             /\ asked'[x] \in Nat /\ heap'[x].size >= asked'[x]
  <2>1. x \in InUse(heap) \ {a} /\ owner'[x] = owner[x] /\ asked'[x] = asked[x]
        BY DEF Forget, Allocated
  <2>2. heap'[x].size = heap[x].size /\ (heap[x].host => heap'[x].host)
        BY <2>1 DEF Kept
  <2> QED BY <2>1, <2>2 DEF Allocated
<1> QED BY <1>1, <1>2 DEF Allocated, InUse

(* write_lambda: the host allocates the data of an accessor. *)
LEMMA HostMallocKeeps ==
  ASSUME HeapInv, NEW n \in Requests, HostMalloc(n)
  PROVE  HeapInv'
<1> DEFINE size == align_size(n)
           a == Found(heap, size)
<1>1. n \in Nat /\ size \in Nat /\ size >= n /\ size % 4 = 0
      BY HeapAssumption, AlignIs
<1>2. List(heap) /\ Blocks(heap) /\ Alone(heap) /\ Allocated /\ phase = "setup"
      BY DEF HeapInv, HostMalloc, List
<1> HIDE DEF size
<1>3. CASE a = Null /\ phase' = "aborted" /\ UNCHANGED <<heap, owner, asked>>
      BY <1>2, <1>3 DEF HeapInv, Allocated, NoFalseLeak
<1>4. CASE /\ a # Null /\ heap' = host_malloc_at(heap, a, size)
           /\ Record(a, "host", n) /\ UNCHANGED phase
  <2>1. a \in DOMAIN heap /\ ~heap[a].in_use /\ heap[a].size >= size
        BY <1>1, <1>2, <1>4, FoundSuits
  <2> HIDE DEF a
  <2>2. Taken(heap, heap', a, size) /\ heap'[a].host
        BY <1>1, <1>2, <1>4, <2>1, HostMallocTakes
  <2>3. /\ List(heap') /\ Alone(heap') /\ heap'[a].size >= size
        /\ InUse(heap') = InUse(heap) \union {a} /\ Kept(heap, heap', a)
        BY <2>2 DEF Taken
  <2>4. heap'[a].size >= n
    <3>1. heap'[a].size \in Nat
          BY <2>2, Apart DEF Taken, List
    <3> QED BY <1>1, <2>3, <3>1
  <2>5. Allocated'
        BY <1>1, <1>2, <1>4, <2>2, <2>3, <2>4, RecordKeeps
  <2> QED BY <1>2, <1>4, <2>3, <2>5 DEF HeapInv, NoFalseLeak
<1> QED BY <1>3, <1>4 DEF HostMalloc, size, a

(* try_malloc. *)
LEMMA MallocKeeps ==
  ASSUME HeapInv, NEW n \in Requests, Malloc(n)
  PROVE  HeapInv'
<1> DEFINE size == align_size(n)
           a == Found(heap, size)
<1>1. n \in Nat /\ size \in Nat /\ size >= n /\ size % 4 = 0
      BY HeapAssumption, AlignIs
<1>2. List(heap) /\ Blocks(heap) /\ Alone(heap) /\ Allocated /\ phase = "running" /\ phase' = phase
      BY DEF HeapInv, Malloc, List
<1>3. a # Null /\ Record(a, "device", n) /\ \E h \in BOOLEAN : heap' = malloc_at(heap, a, size, h)
      BY DEF Malloc
<1> HIDE DEF size
<1>4. a \in DOMAIN heap /\ ~heap[a].in_use /\ heap[a].size >= size
      BY <1>1, <1>2, <1>3, FoundSuits
<1> HIDE DEF a
<1>5. Taken(heap, heap', a, size)
      BY <1>1, <1>2, <1>3, <1>4, MallocTakes
<1>6. /\ List(heap') /\ Alone(heap') /\ heap'[a].size >= size
      /\ InUse(heap') = InUse(heap) \union {a} /\ Kept(heap, heap', a)
      BY <1>5 DEF Taken
<1>7. heap'[a].size >= n
  <2>1. heap'[a].size \in Nat
        BY <1>5, Apart DEF Taken, List
  <2> QED BY <1>1, <1>6, <2>1
<1>8. Allocated'
      BY <1>1, <1>2, <1>3, <1>6, <1>7, RecordKeeps
<1> QED BY <1>2, <1>6, <1>8 DEF HeapInv, NoFalseLeak

(* free. *)
LEMMA FreeKeeps ==
  ASSUME HeapInv, NEW a \in DOMAIN owner, Free(a)
  PROVE  HeapInv'
<1>1. List(heap) /\ Alone(heap) /\ Allocated /\ phase = "running" /\ heap' = free(heap, a) /\ Forget(a)
      BY DEF HeapInv, Free
<1>2. a \in DOMAIN heap /\ heap[a].in_use
      BY <1>1 DEF Allocated, InUse
<1>3. Freed(heap, heap', a) /\ (~Stray(Unused(heap, a), a) => Alone(heap'))
      BY <1>1, <1>2, FreeFrees
<1>4. List(heap') /\ InUse(heap') = InUse(heap) \ {a} /\ Kept(heap, heap', a)
      BY <1>3 DEF Freed
<1>5. Allocated'
      BY <1>1, <1>4, ForgetKeeps
<1>6. phase' = IF Stray(Unused(heap, a), a) THEN "stray" ELSE "running"
      BY DEF Free, Ended
<1> QED BY <1>3, <1>4, <1>5, <1>6 DEF HeapInv, NoFalseLeak

(* try_realloc: in place, by a move, or not at all. *)
LEMMA ReallocKeeps ==
  ASSUME HeapInv, NEW a \in DOMAIN owner, NEW n \in Requests, Realloc(a, n)
  PROVE  HeapInv'
<1> DEFINE size == align_size(n)
           g == Grown(heap, a, size)
           to == Found(g, size)
<1>1. n \in Nat /\ size \in Nat /\ size >= n /\ size % 4 = 0
      BY HeapAssumption, AlignIs
<1>2. List(heap) /\ Alone(heap) /\ Allocated /\ phase = "running" /\ owner[a] = "device"
      BY DEF HeapInv, Realloc
<1>3. a \in InUse(heap) /\ a \in DOMAIN heap /\ heap[a].in_use
      BY <1>2 DEF Allocated, InUse
<1>4. PICK h \in BOOLEAN :
        \/ /\ FitsInPlace(g, a, size)
           /\ heap' = realloc_in_place(g, a, size, h)
           /\ Record(a, "device", n) /\ UNCHANGED phase
        \/ /\ ~FitsInPlace(g, a, size) /\ to # Null
           /\ LET m == malloc_at(g, to, size, h)
              IN heap' = free(m, a) /\ phase' = Ended(Unused(m, a), a)
           /\ owner' = [x \in (DOMAIN owner \ {a}) \union {to} |-> IF x = to THEN "device" ELSE owner[x]]
           /\ asked' = [x \in (DOMAIN asked \ {a}) \union {to} |-> IF x = to THEN n ELSE asked[x]]
        \/ /\ ~FitsInPlace(g, a, size) /\ to = Null
           /\ heap' = g /\ UNCHANGED <<owner, asked, phase>>
      BY DEF Realloc
<1> HIDE DEF size
<1>5. GrownTo(heap, g, a, size)
      BY <1>1, <1>2, <1>3, GrownGrows
<1> HIDE DEF g
<1>6. CASE /\ FitsInPlace(g, a, size)
           /\ heap' = realloc_in_place(g, a, size, h)
           /\ Record(a, "device", n) /\ UNCHANGED phase
  <2>1. /\ List(heap') /\ Alone(heap') /\ InUse(heap') = InUse(heap) /\ Kept(heap, heap', a)
        /\ heap'[a].size >= size
        BY <1>1, <1>3, <1>5, <1>6, ShrinkKeeps
  <2>2. InUse(heap') = InUse(heap) \union {a} /\ a \in DOMAIN heap'
        BY <1>3, <2>1 DEF InUse
  <2>3. heap'[a].size >= n
    <3>1. heap'[a].size \in Nat
          BY <2>1, <2>2, Apart DEF List
    <3> QED BY <1>1, <2>1, <3>1
  <2>4. Allocated'
        BY <1>1, <1>2, <1>6, <2>1, <2>2, <2>3, RecordKeeps
  <2> QED BY <1>2, <1>6, <2>1, <2>4 DEF HeapInv, NoFalseLeak
<1>7. CASE /\ ~FitsInPlace(g, a, size) /\ to # Null
           /\ LET m == malloc_at(g, to, size, h)
              IN heap' = free(m, a) /\ phase' = Ended(Unused(m, a), a)
           /\ owner' = [x \in (DOMAIN owner \ {a}) \union {to} |-> IF x = to THEN "device" ELSE owner[x]]
           /\ asked' = [x \in (DOMAIN asked \ {a}) \union {to} |-> IF x = to THEN n ELSE asked[x]]
  <2> DEFINE m == malloc_at(g, to, size, h)
  <2>1. /\ to # a /\ to \notin InUse(heap) /\ List(heap')
        /\ ~Stray(Unused(m, a), a) => Alone(heap')
        /\ InUse(heap') = (InUse(heap) \ {a}) \union {to}
        /\ heap'[to].size >= size
        /\ \A x \in InUse(heap) \ {a} : heap'[x].size = heap[x].size /\ (heap[x].host => heap'[x].host)
    <3>1. heap' = free(m, a)
          BY <1>7
    <3>2. MovedTo(heap, free(m, a), a, to, size) /\ (~Stray(Unused(m, a), a) => Alone(free(m, a)))
          BY Zenon, <1>1, <1>3, <1>5, <1>7, MoveKeeps
    <3> QED BY <3>1, <3>2 DEF MovedTo
  <2>2. phase' = IF Stray(Unused(m, a), a) THEN "stray" ELSE "running"
        BY <1>7 DEF Ended
  <2> HIDE DEF m, to
  <2>3. heap'[to].size >= n
    <3>1. heap'[to].size \in Nat
          BY <2>1, Apart DEF List, InUse
    <3> QED BY <1>1, <2>1, <3>1
  <2>4. DOMAIN owner' = InUse(heap') /\ DOMAIN asked' = InUse(heap')
        BY <1>2, <1>7, <2>1 DEF Allocated
  <2>5. ASSUME NEW x \in InUse(heap')
        PROVE  /\ owner'[x] \in {"host", "device"} /\ (owner'[x] = "host" => heap'[x].host)
               /\ asked'[x] \in Nat /\ heap'[x].size >= asked'[x]
    <3>1. CASE x = to
      <4>1. owner'[x] = "device" /\ asked'[x] = n
            BY <1>7, <3>1
      <4> QED BY <1>1, <2>3, <3>1, <4>1
    <3>2. CASE x # to
      <4>1. x \in InUse(heap) \ {a} /\ owner'[x] = owner[x] /\ asked'[x] = asked[x]
            BY <1>2, <1>7, <2>1, <3>2 DEF Allocated
      <4>2. heap'[x].size = heap[x].size /\ (heap[x].host => heap'[x].host)
            BY <2>1, <4>1
      <4> QED BY <1>2, <4>1, <4>2 DEF Allocated
    <3> QED BY <3>1, <3>2
  <2>6. Allocated'
        BY <2>4, <2>5 DEF Allocated, InUse
  <2> QED BY <2>1, <2>2, <2>6 DEF HeapInv, NoFalseLeak
<1>8. CASE /\ ~FitsInPlace(g, a, size) /\ to = Null
           /\ heap' = g /\ UNCHANGED <<owner, asked, phase>>
  <2>1. /\ List(heap') /\ Alone(heap') /\ InUse(heap') = InUse(heap) /\ Kept(heap, heap', a)
        /\ heap'[a].size >= heap[a].size /\ a \in DOMAIN heap'
        BY <1>5, <1>8 DEF GrownTo
  <2>2. ASSUME NEW x \in InUse(heap)
        PROVE  /\ owner[x] \in {"host", "device"} /\ (owner[x] = "host" => heap'[x].host)
               /\ asked[x] \in Nat /\ heap'[x].size >= asked[x]
    <3>1. /\ owner[x] \in {"host", "device"} /\ (owner[x] = "host" => heap[x].host)
          /\ asked[x] \in Nat /\ heap[x].size >= asked[x]
          BY <1>2 DEF Allocated
    <3>2. CASE x = a
      <4>1. heap'[a].size \in Nat /\ heap[a].size \in Nat
            BY <1>2, <1>3, <2>1, Apart DEF List
      <4>2. heap'[a].size >= asked[a]
            BY <2>1, <3>1, <3>2, <4>1
      <4>3. owner[a] = "host" => heap'[a].host
            BY <1>5, <1>8, <3>1, <3>2 DEF GrownTo
      <4> QED BY <3>1, <3>2, <4>2, <4>3
    <3>3. CASE x # a
          BY <2>1, <3>1, <3>3 DEF Kept
    <3> QED BY <3>2, <3>3
  <2>3. Allocated'
        BY <1>2, <1>8, <2>1, <2>2 DEF Allocated, InUse
  <2> QED BY <1>2, <1>8, <2>1, <2>3 DEF HeapInv, NoFalseLeak
<1> QED BY <1>4, <1>6, <1>7, <1>8

(* assert_no_leak: a block in use that the host has not allocated is the kernel's. *)
LEMMA ReturnKeeps ==
  ASSUME HeapInv, Return
  PROVE  HeapInv'
<1>1. UNCHANGED <<heap, owner, asked>> /\ phase = "running" /\ phase' \in {"leak", "done"}
      BY DEF Return
<1>2. ASSUME HasLeak(heap) PROVE \E a \in DOMAIN owner : owner[a] = "device"
      BY <1>2 DEF HasLeak, HeapInv, Allocated, InUse
<1>3. NoFalseLeak'
      BY <1>1, <1>2 DEF Return, NoFalseLeak
<1> QED BY <1>1, <1>3 DEF HeapInv, Allocated

(* Every step of the host and of the kernel keeps the invariant. *)
LEMMA HeapInvStep == HeapInv /\ [HNext]_hvars => HeapInv'
<1> SUFFICES ASSUME HeapInv, [HNext]_hvars PROVE HeapInv'
    OBVIOUS
<1>1. CASE RunKernel
      BY <1>1 DEF RunKernel, HeapInv, Allocated, NoFalseLeak
<1>2. CASE HStopped \/ UNCHANGED hvars
      BY <1>2 DEF HStopped, hvars, HeapInv, Allocated, NoFalseLeak
<1>3. CASE DeviceOp
      BY <1>3, MallocKeeps, FreeKeeps, ReallocKeeps DEF DeviceOp
<1> QED BY <1>1, <1>2, <1>3, HostMallocKeeps, ReturnKeeps DEF HNext

(* init_allocator: one free block. *)
LEMMA HeapInvInit == HInit => HeapInv
<1> SUFFICES ASSUME HInit PROVE HeapInv
    OBVIOUS
<1> USE HeapAssumption
<1> DEFINE first == [prev |-> Null, size |-> HeapEnd - HeapStart - HeaderSize,
                     in_use |-> FALSE, is_last |-> TRUE, host |-> TRUE]
<1>1. heap = [a \in {HeapStart} |-> first] /\ DOMAIN owner = {} /\ DOMAIN asked = {} /\ phase = "setup"
      BY DEF HInit
<1>2. /\ first \in Header /\ first.prev = Null /\ first.size = HeapEnd - HeapStart - 8
      /\ ~first.in_use /\ first.is_last
      BY DEF Header, HeaderSize, Null
<1> HIDE DEF first
<1>3. DOMAIN heap = {HeapStart} /\ heap[HeapStart] = first
      BY <1>1
<1>4. heap \in [DOMAIN heap -> Header]
      BY <1>1, <1>2
<1>5. AtEnd(heap, HeapStart) = HeapEnd
  <2>1. AtEnd(heap, HeapStart) = HeapStart + 8 + (HeapEnd - HeapStart - 8)
        BY <1>2, <1>3 DEF AtEnd, HeaderSize
  <2> QED BY <2>1
<1>6. (HeapEnd - HeapStart - 8) % 4 = 0
      OBVIOUS
<1>7. Blocks(heap)
      BY <1>2, <1>3, <1>4, <1>5, <1>6 DEF Blocks
<1>8. Back(heap)
      BY <1>2, <1>3 DEF Back
<1>9. InUse(heap) = {} /\ Alone(heap)
      BY <1>2, <1>3 DEF InUse, Alone, Guarded
<1> QED BY <1>1, <1>7, <1>8, <1>9 DEF HeapInv, List, Allocated, NoFalseLeak

(* memcpy of try_realloc: the new block has at least the bytes of the old one, which *)
(* did not suffice.                                                                   *)
LEMMA CopyFits == HeapInv => ReallocCopyFits
<1> SUFFICES ASSUME HeapInv, phase = "running", NEW a \in DOMAIN owner, NEW n \in Requests,
                    ~FitsInPlace(Grown(heap, a, align_size(n)), a, align_size(n)),
                    Found(Grown(heap, a, align_size(n)), align_size(n)) # Null
             PROVE  LET size == align_size(n)
                        g == Grown(heap, a, size)
                        to == Found(g, size)
                    IN malloc_at(g, to, size, FALSE)[to].size >= g[a].size
    BY Zenon DEF ReallocCopyFits
<1> DEFINE size == align_size(n)
           g == Grown(heap, a, size)
           to == Found(g, size)
           m == malloc_at(g, to, size, FALSE)
<1>1. size \in Nat /\ size % 4 = 0
      BY HeapAssumption, AlignIs
<1>2. a \in DOMAIN heap /\ heap[a].in_use /\ List(heap) /\ Alone(heap)
      BY DEF HeapInv, Allocated, InUse
<1> HIDE DEF size
<1>3. GrownTo(heap, g, a, size)
      BY <1>1, <1>2, GrownGrows
<1>4. ~(g[a].size > size) /\ to # Null
      BY DEF FitsInPlace, size
<1> HIDE DEF g
<1>5. List(g) /\ Blocks(g) /\ Alone(g) /\ a \in DOMAIN g
      BY <1>3 DEF GrownTo, List
<1>6. to \in DOMAIN g /\ ~g[to].in_use /\ g[to].size >= size
      BY <1>1, <1>4, <1>5, FoundSuits
<1> HIDE DEF to
<1>7. Taken(g, m, to, size)
      BY Zenon, <1>1, <1>5, <1>6, MallocTakes
<1> HIDE DEF m
<1>8. m[to].size >= size /\ m[to].size \in Nat
      BY <1>7, Apart DEF Taken, List
<1>9. g[a].size \in Nat
      BY <1>5, Apart
<1>10. m[to].size >= g[a].size
      BY <1>1, <1>4, <1>8, <1>9
<1> QED BY Zenon, <1>10 DEF m, to, g, size

(* What the invariant says of the heap. *)
LEMMA HeapInvImplies == HeapInv => HeapListSound
<1> SUFFICES ASSUME HeapInv PROVE HeapListSound
    OBVIOUS
<1>1. Blocks(heap) /\ Back(heap)
      BY DEF HeapInv, List
<1>2. \A a \in DOMAIN heap : /\ a \in Int /\ AtEnd(heap, a) \in Int /\ AtEnd(heap, a) > a
                             /\ heap[a].size \in Nat
      BY <1>1, Apart
<1>3. HTypeOK
  <2>1. \A a \in DOMAIN heap : a >= HeapStart /\ AtEnd(heap, a) <= HeapEnd /\ a % 4 = 0
        BY <1>1 DEF Blocks
  <2>2. DOMAIN heap \subseteq {a \in HeapStart .. HeapEnd : a % alloc_align = 0}
        BY <1>2, <2>1, HeapAssumption DEF alloc_align
  <2> QED BY <2>2 DEF HTypeOK, HeapInv, Allocated
<1>4. BlocksTileHeap
      BY <1>1, <1>2 DEF BlocksTileHeap, Blocks
<1>5. PrevOffsetsRight
      BY <1>1 DEF PrevOffsetsRight, Back
<1>6. NoTwoFreeBlocksMeet
      BY DEF NoTwoFreeBlocksMeet, HeapInv, Alone, Guarded
<1>7. AllocationsKept
      BY DEF AllocationsKept, HeapInv, Allocated, InUse
<1> QED BY <1>3, <1>4, <1>5, <1>6, <1>7, CopyFits DEF HeapListSound, HeapInv

(* For every extent of the heap, every base address and every set of sizes asked     *)
(* for, whatever the host and then the kernel allocate, reallocate and free: the     *)
(* blocks cover the heap and lead to each other both ways, no two free ones meet     *)
(* while prev can be followed, every allocation is kept with the size asked for, the *)
(* copy of a reallocation fits, and no leak is reported wrongly (block_header,       *)
(* try_malloc, try_realloc, free, assert_no_leak).                                   *)
THEOREM HeapStaysSound == HSpec => []HeapListSound
<1>1. HInit => HeapInv
      BY HeapInvInit
<1>2. HeapInv /\ [HNext]_hvars => HeapInv'
      BY HeapInvStep
<1>3. HeapInv => HeapListSound
      BY HeapInvImplies
<1> QED BY <1>1, <1>2, <1>3, PTL DEF HSpec

=============================================================================
