-------------------------- MODULE HashTableProofs --------------------------
(***************************************************************************)
(* Theorems about HashTable, for any number of threads, table size, hash   *)
(* function and set of nodes.                                              *)
(***************************************************************************)
EXTENDS HashTable, Integers, TLAPS

-----------------------------------------------------------------------------
(* Division and remainder, for addresses that are made of blocks *)

\* Quotient and remainder.
LEMMA Division ==
  ASSUME NEW x \in Nat, NEW d \in Nat \ {0}
  PROVE  \E q \in Nat, r \in 0 .. d - 1 : x = d * q + r /\ q = x \div d /\ r = x % d
<1>1. ASSUME NEW q \in Int, NEW r \in Int, q = x \div d, r = x % d
      PROVE  x = d * q + r /\ q \in Nat /\ r \in 0 .. d - 1
  <2>1. x = d * q + r
    BY <1>1
  <2>2. r \in 0 .. d - 1
    BY <1>1
  <2>3. ASSUME q < 0 PROVE FALSE
    <3>1. d * q <= -d
      BY <2>3
    <3> QED
      BY <2>1, <2>2, <3>1
  <2> QED
    BY <2>1, <2>2, <2>3
<1>2. x \div d \in Int /\ x % d \in Int
  OBVIOUS
<1> QED
  BY <1>1, <1>2, Zenon

\* They are the only ones.
LEMMA ModUnique ==
  ASSUME NEW d \in Nat \ {0}, NEW a \in Nat, NEW y \in 0 .. d - 1
  PROVE  (d * a + y) % d = y /\ (d * a + y) \div d = a
  OBVIOUS

\* A multiple of the divisor leaves the remainder alone.
LEMMA ModPlus ==
  ASSUME NEW d \in Nat \ {0}, NEW a \in Nat, NEW y \in Nat
  PROVE  (d * a + y) % d = y % d
<1>1. PICK b \in Nat, r \in 0 .. d - 1 : y = d * b + r /\ r = y % d
  BY Division, Zenon
<1>2. d * a + y = d * (a + b) + r /\ a + b \in Nat
  BY <1>1
<1>3. (d * (a + b) + r) % d = r
  BY <1>1, <1>2, ModUnique, Zenon
<1> QED
  BY <1>1, <1>2, <1>3, Zenon

\* Wrapping before an addition does not change the wrapped sum.
LEMMA ModAdd ==
  ASSUME NEW x \in Nat, NEW e \in Nat, NEW w \in Nat \ {0}
  PROVE  ((x % w) + e) % w = (x + e) % w
<1>1. PICK a \in Nat, r \in 0 .. w - 1 : x = w * a + r /\ r = x % w
  BY Division, Zenon
<1>2. x + e = w * a + (r + e) /\ r + e \in Nat
  BY <1>1
<1>3. (w * a + (r + e)) % w = (r + e) % w
  BY <1>2, ModPlus, Zenon
<1> QED
  BY <1>1, <1>2, <1>3, Zenon

\* A number of blocks and a rest, modulo a number of blocks.
LEMMA BlockMod ==
  ASSUME NEW d \in Nat \ {0}, NEW n \in Nat \ {0}, NEW q \in Nat, NEW r \in 0 .. d - 1
  PROVE  q % n \in 0 .. n - 1 /\ (d * q + r) % (d * n) = d * (q % n) + r
<1>1. PICK a \in Nat, b \in 0 .. n - 1 : q = n * a + b /\ b = q % n
  BY Division, Zenon
<1>2. d * n \in Nat \ {0} /\ d * q + r = (d * n) * a + (d * b + r)
  <2>1. d * n \in Nat \ {0}
    OBVIOUS
  <2>2. n * a \in Nat /\ d * (n * a) = (d * n) * a
    OBVIOUS
  <2>3. ASSUME NEW x \in Nat, NEW y \in Nat PROVE d * (x + y) = d * x + d * y
    OBVIOUS
  <2>4. d * (n * a + b) = d * (n * a) + d * b
    BY <2>2, <2>3
  <2>5. d * q = (d * n) * a + d * b
    BY <1>1, <2>2, <2>4
  <2>6. d * b \in Nat /\ (d * n) * a \in Nat
    BY <1>1, <2>1
  <2> QED
    BY <2>1, <2>5, <2>6
<1>3. d * b + r \in 0 .. d * n - 1
  <2>1. b <= n - 1 /\ r <= d - 1 /\ b \in Nat /\ r \in Nat
    BY <1>1
  <2>2. d * b <= d * (n - 1)
    BY <2>1
  <2>3. d * (n - 1) = d * n - d
    OBVIOUS
  <2>4. d * b \in Nat
    BY <2>1
  <2> QED
    BY <1>2, <2>1, <2>2, <2>3, <2>4
<1>4. ((d * n) * a + (d * b + r)) % (d * n) = d * b + r
  BY <1>1, <1>2, <1>3, ModUnique, Zenon
<1> QED
  BY <1>1, <1>2, <1>4, Zenon

\* The same facts as predicates of the numbers, which the provers instantiate
\* without multiplying anything out.
Split(d, a, y) == (d * a + y) % d = y /\ (d * a + y) \div d = a

LEMMA SplitOf == \A d \in Nat \ {0} : \A a \in Nat : \A y \in 0 .. d - 1 : Split(d, a, y)
  BY ModUnique DEF Split

Rest(d, n, q, r) == q % n \in 0 .. n - 1 /\ (d * q + r) % (d * n) = d * (q % n) + r

LEMMA RestOf ==
  \A d, n \in Nat \ {0} : \A q \in Nat : \A r \in 0 .. d - 1 : Rest(d, n, q, r)
  BY BlockMod DEF Rest

\* Modulo one number of blocks, then modulo another.
RestTwice(d, w, n, q, r) ==
  ((d * q + r) % (d * w)) % (d * n) = d * ((q % w) % n) + r

LEMMA RestTwiceOf ==
  ASSUME NEW d \in Nat \ {0}, NEW w \in Nat \ {0}, NEW n \in Nat \ {0},
         NEW q \in Nat, NEW r \in 0 .. d - 1
  PROVE  RestTwice(d, w, n, q, r)
<1>1. Rest(d, w, q, r)
  BY RestOf, Zenon
<1>2. q % w \in Nat /\ (d * q + r) % (d * w) = d * (q % w) + r
  <2>1. \A x \in 0 .. w - 1 : x \in Nat
    OBVIOUS
  <2> QED
    BY <1>1, <2>1, Zenon DEF Rest
<1>3. Rest(d, n, q % w, r)
  BY <1>2, RestOf, Zenon
<1>4. (d * (q % w) + r) % (d * n) = d * ((q % w) % n) + r
  BY <1>3, Zenon DEF Rest
<1> QED
  BY <1>2, <1>4, Zenon DEF RestTwice

-----------------------------------------------------------------------------
(* Addresses *)

\* The bucket at distance d from the home of key k.
Probe(k, d) == StorageAddr((HashOf[k] + d) % Width)

\* The scan of the i-th chunk continues where the one before it ended.
LEMMA ProbeOfChunk ==
  ASSUME NEW k \in Key, NEW c \in Nat, NEW i \in Nat, NEW e \in Nat
  PROVE  ProbeAddr(Start(k, c, i), e) = Probe(k, c * i + e)
<1>1. HashOf[k] \in Nat /\ Width \in Nat \ {0}
  BY TableAssumption
<1>2. c * i \in Nat /\ HashOf[k] + c * i \in Nat
  BY <1>1
<1>3. (((HashOf[k] + c * i) % Width) + e) % Width = ((HashOf[k] + c * i) + e) % Width
  BY <1>1, <1>2, ModAdd, Zenon
<1>4. (HashOf[k] + c * i) + e = HashOf[k] + (c * i + e)
  BY <1>1, <1>2
<1> QED
  BY <1>3, <1>4, Zenon DEF ProbeAddr, Start, Probe

\* A whole number of blocks, and a rest.
LEMMA Sizes ==
         /\ BlockSize \in Nat \ {0} /\ NThreads \in Nat \ {0}
         /\ TotalSize = BlockSize * NThreads
         /\ TotalSize \in Nat \ {0}
         /\ \E w \in Nat : w >= 2 /\ Width = BlockSize * w
<1>1. BlockSize \in Nat \ {0} /\ NThreads \in Nat \ {0} /\ Width \in Nat \ {0}
  BY TableAssumption
<1>2. TotalSize = BlockSize * NThreads /\ TotalSize \in Nat \ {0}
  BY <1>1 DEF TotalSize
<1>3. PICK w \in Nat, r \in 0 .. BlockSize - 1 : Width = BlockSize * w + r /\ r = Width % BlockSize
  BY <1>1, Division, Zenon
<1>4. r = 0 /\ Width >= 2 * BlockSize
  BY <1>3, WidthAssumption
<1>5. Width = BlockSize * w
  <2>1. \A x \in Int : x + 0 = x
    OBVIOUS
  <2>2. BlockSize * w \in Int
    BY <1>1
  <2> QED
    BY <1>3, <1>4, <2>1, <2>2
<1>6. w >= 2
  <2>1. ASSUME w <= 1 PROVE FALSE
    <3>1. w = 0 \/ w = 1
      BY <2>1
    <3>2. BlockSize * w <= BlockSize
      BY <1>1, <3>1
    <3> QED
      BY <1>1, <1>4, <1>5, <3>2
  <2> QED
    BY <2>1
<1> QED
  BY <1>1, <1>2, <1>5, <1>6

\* query_chunk copies to each offset the bucket that the scan expects there:
\* splitting the get at the end of a block is enough, also when the chunk wraps
\* around the range of the hash or the end of the table.
LEMMA FetchesRight ==
  ASSUME NEW h \in 0 .. Width - 1, NEW c \in 1 .. BlockSize, NEW e \in 0 .. c - 1
  PROVE  FetchAddr(h, c, e) = ProbeAddr(h, e)
<1> DEFINE B == BlockSize
           N == NThreads
<1>1. B \in Nat \ {0} /\ N \in Nat \ {0} /\ TotalSize = B * N
  BY Sizes
<1>2. PICK w \in Nat : w >= 2 /\ Width = B * w
  BY Sizes
<1>3. h \in Nat /\ c \in Nat /\ e \in Nat /\ w \in Nat \ {0} /\ h < B * w
  BY <1>1, <1>2
<1>4. PICK q \in Nat, r \in 0 .. B - 1 : h = B * q + r /\ q = h \div B /\ r = h % B
  BY <1>1, <1>3, Division, Zenon
<1> HIDE DEF B, N
<1>5. q + 1 <= w
  <2>1. ASSUME q >= w PROVE FALSE
    <3>1. B * q >= B * w
      BY <1>1, <1>3, <2>1
    <3> QED
      BY <1>1, <1>3, <1>4, <3>1
  <2> QED
    BY <2>1, <1>3
\* What the scan computes for an offset x into block j of the hash's range.
<1>6. ASSUME NEW j \in Nat, NEW x \in 0 .. B - 1
      PROVE  StorageAddr((B * j + x) % Width) = B * ((j % w) % N) + x
  <2>1. RestTwice(B, w, N, j, x)
    BY <1>1, <1>3, RestTwiceOf, Zenon
  <2>2. ((B * j + x) % (B * w)) % (B * N) = B * ((j % w) % N) + x
    BY <2>1, Zenon DEF RestTwice
  <2> QED
    BY <2>2, <1>1, <1>2, Zenon DEF StorageAddr
\* Inside the first block both add e to the offset of h.
<1>7. CASE r + e < B
  <2>1. StorageAddr(h) = B * ((q % w) % N) + r
    <3>1. h % Width = h
      <4>1. Width * 0 + h = h /\ h \in 0 .. Width - 1 /\ Width \in Nat \ {0}
        BY <1>3, TableAssumption
      <4>2. (Width * 0 + h) % Width = h
        BY <4>1, ModUnique, Zenon
      <4> QED
        BY <4>1, <4>2, Zenon
    <3> QED
      BY <1>4, <1>6, <3>1
  <2>2. ProbeAddr(h, e) = StorageAddr(h) + e
    <3>1. h + e = B * q + (r + e) /\ r + e \in 0 .. B - 1
      BY <1>1, <1>3, <1>4, <1>7
    <3>2. StorageAddr((B * q + (r + e)) % Width) = B * ((q % w) % N) + (r + e)
      BY <1>6, <3>1
    <3>3. ProbeAddr(h, e) = B * ((q % w) % N) + (r + e)
      BY <3>1, <3>2 DEF ProbeAddr
    <3>4. ASSUME NEW y \in Int PROVE (y + r) + e = y + (r + e)
      BY <1>1, <1>3
    <3>5. B * ((q % w) % N) \in Int
      BY <1>1, <1>3
    <3> QED
      BY <2>1, <3>3, <3>4, <3>5
  <2>3. ~ (e >= B - r)
    BY <1>1, <1>3, <1>7
  <2>4. FetchAddr(h, c, e) = StorageAddr(h) + e
    BY <1>4, <2>3 DEF FetchAddr, StorageBlock, B
  <2> QED
    BY <2>2, <2>4
\* Past it, the last bucket of the chunk is in another block.
<1>8. CASE r + e >= B
  <2>1. h + c - 1 = B * (q + 1) + (r + c - 1 - B) /\ r + c - 1 - B \in 0 .. B - 1
    BY <1>1, <1>3, <1>4, <1>8 DEF B
  <2>2. StorageThread((h + c - 1) % Width) # StorageThread(h)
    <3>1. (h + c - 1) % Width = B * ((q + 1) % w) + (r + c - 1 - B) /\ (q + 1) % w \in Nat
      <4>1. (B * (q + 1) + (r + c - 1 - B)) % (B * w) = B * ((q + 1) % w) + (r + c - 1 - B)
        <5>1. q + 1 \in Nat
          BY <1>4
        <5> QED
          <6>1. Rest(B, w, q + 1, r + c - 1 - B)
            BY <1>1, <1>3, <2>1, <5>1, RestOf, Zenon
          <6> QED
            BY <6>1, Zenon DEF Rest
      <4>2. (q + 1) % w \in Nat
        BY <1>3
      <4> QED
        BY <1>2, <2>1, <4>1, <4>2
    <3>2. ((h + c - 1) % Width) \div B = (q + 1) % w
      <4>1. Split(B, (q + 1) % w, r + c - 1 - B)
        BY <1>1, <2>1, <3>1, SplitOf, Zenon
      <4> QED
        BY <3>1, <4>1, Zenon DEF Split
    <3>3. (q + 1) % w # q
      <4>1. CASE q + 1 < w
        <5>1. (w * 0 + (q + 1)) % w = q + 1
          <6>1. q + 1 \in 0 .. w - 1 /\ 0 \in Nat
            BY <1>3, <4>1
          <6> QED
            BY <1>3, <6>1, SplitOf, Zenon DEF Split
        <5> QED
          BY <1>3, <5>1
      <4>2. CASE q + 1 = w
        <5>1. (w * 1 + 0) % w = 0
          BY <1>3, ModUnique
        <5> QED
          BY <1>2, <1>3, <4>2, <5>1
      <4> QED
        BY <1>3, <1>5, <4>1, <4>2
    <3> QED
      BY <1>4, <3>2, <3>3 DEF StorageThread, B
  <2>3. e >= B - r
    BY <1>1, <1>3, <1>8
  <2>4. FetchAddr(h, c, e) = StorageAddr((h + (B - r)) % Width) + (e - (B - r))
    BY <1>4, <2>2, <2>3 DEF FetchAddr, StorageBlock, B
  <2>5. StorageAddr((h + (B - r)) % Width) = B * (((q + 1) % w) % N) + 0
    <3>1. h + (B - r) = B * (q + 1) + 0 /\ q + 1 \in Nat /\ 0 \in 0 .. B - 1
      BY <1>1, <1>3, <1>4
    <3> QED
      BY <1>6, <3>1
  <2>6. ProbeAddr(h, e) = B * (((q + 1) % w) % N) + (e - (B - r))
    <3>1. h + e = B * (q + 1) + (e - (B - r)) /\ q + 1 \in Nat /\ e - (B - r) \in 0 .. B - 1
      BY <1>1, <1>3, <1>4, <1>8 DEF B
    <3>2. StorageAddr((B * (q + 1) + (e - (B - r))) % Width)
            = B * (((q + 1) % w) % N) + (e - (B - r))
      BY <1>6, <3>1
    <3> QED
      BY <3>1, <3>2 DEF ProbeAddr
  <2>7. B * (((q + 1) % w) % N) \in Int
    BY <1>1, <1>3
  <2> QED
    BY <2>4, <2>5, <2>6, <2>7
<1> QED
  BY <1>1, <1>3, <1>7, <1>8

\* Probing stays inside the table.
LEMMA ProbeType == \A k \in Key, d \in Nat : Probe(k, d) \in Bucket
<1> SUFFICES ASSUME NEW k \in Key, NEW d \in Nat PROVE Probe(k, d) \in Bucket
  OBVIOUS
<1>1. HashOf[k] + d \in Nat /\ Width \in Nat \ {0} /\ TotalSize \in Nat \ {0}
  BY TableAssumption, Sizes
<1>2. (HashOf[k] + d) % Width \in Nat
  BY <1>1
<1>3. ((HashOf[k] + d) % Width) % TotalSize \in 0 .. TotalSize - 1
  BY <1>1, <1>2
<1> QED
  BY <1>3 DEF Probe, StorageAddr, Bucket

-----------------------------------------------------------------------------
(* The inductive invariant *)

\* How far the lookup of p is from the home of its key.
Dist(p) == size[p] * attempt[p] + pos[p]

\* The bucket that a thread compares or claims is the one at that distance.
Calling(p) == pc[p] # "idle"

\* The local variables of a lookup.
Control(p) ==
  /\ pc[p] = "idle" => attempt[p] = 0 /\ pos[p] = 0 /\ DOMAIN chunk[p] = {}
  /\ Calling(p) =>
       /\ key[p] \in Key /\ size[p] \in ChunkSizes /\ pos[p] <= size[p]
       /\ used[p] < DataSize /\ data[MyRef(p)] = key[p]
       /\ DOMAIN chunk[p] \subseteq 0 .. size[p] - 1
  /\ pc[p] = "fetch" => pos[p] = 0
  /\ pc[p] \in {"scan", "compare"} => DOMAIN chunk[p] = 0 .. size[p] - 1
  /\ pc[p] = "compare" => pos[p] < size[p]

\* What it knows of the table: its copies of buckets in use are right, the
\* buckets it passed hold other nodes, and it compares what its bucket holds.
Current(p) ==
  Calling(p) => \A e \in DOMAIN chunk[p] :
    chunk[p][e] # None => index[Probe(key[p], size[p] * attempt[p] + e)] = chunk[p][e]
PassedBy(p) ==
  Calling(p) => \A d \in 0 .. Dist(p) - 1 :
    index[Probe(key[p], d)] # None /\ ~Holds(Probe(key[p], d), key[p])
Comparing(p) ==
  pc[p] = "compare" =>
    /\ index[Probe(key[p], Dist(p))] # None
    /\ cand[p] = index[Probe(key[p], Dist(p))].ref

Local(p) == Control(p) /\ Current(p) /\ PassedBy(p) /\ Comparing(p)

\* A bucket in use refers to a node that was written before, with its tag.
Published ==
  \A b \in Bucket : index[b] # None =>
    /\ index[b].ref[2] < used[index[b].ref[1]]
    /\ data[index[b].ref] \in Key
    /\ index[b].tag = TagOf[data[index[b].ref]]

\* A node is found by probing from its home: no bucket before its own is free.
Reached ==
  \A b \in Bucket, k \in Key : Holds(b, k) =>
    \E d \in Nat : b = Probe(k, d) /\ \A x \in 0 .. d - 1 : index[Probe(k, x)] # None

Inv ==
  /\ TypeOK
  /\ \A p \in Thread : Local(p)
  /\ Published /\ Reached /\ Unique

-----------------------------------------------------------------------------
(* Type correctness *)

\* The empty chunk, and a chunk with one more bucket.
LEMMA ChunkTypes ==
  /\ << >> \in Chunk
  /\ \A f \in Chunk, e \in 0 .. BlockSize - 1, v \in Entry \cup {None} :
       [x \in DOMAIN f \cup {e} |-> IF x = e THEN v ELSE f[x]] \in Chunk
  /\ \A f \in Chunk : \A e \in DOMAIN f : f[e] \in Entry \cup {None}
<1>1. << >> \in Chunk
  <2>1. << >> \in [{} -> Entry \cup {None}]
    OBVIOUS
  <2> QED
    BY <2>1 DEF Chunk
<1>2. ASSUME NEW f \in Chunk, NEW e \in 0 .. BlockSize - 1, NEW v \in Entry \cup {None}
      PROVE  [x \in DOMAIN f \cup {e} |-> IF x = e THEN v ELSE f[x]] \in Chunk
  <2>1. PICK D \in SUBSET (0 .. BlockSize - 1) : f \in [D -> Entry \cup {None}]
    BY DEF Chunk
  <2>2. D \cup {e} \in SUBSET (0 .. BlockSize - 1)
    OBVIOUS
  <2>3. [x \in DOMAIN f \cup {e} |-> IF x = e THEN v ELSE f[x]]
          \in [D \cup {e} -> Entry \cup {None}]
    BY <2>1
  <2> QED
    BY <2>2, <2>3 DEF Chunk
<1>3. ASSUME NEW f \in Chunk, NEW e \in DOMAIN f PROVE f[e] \in Entry \cup {None}
  BY DEF Chunk
<1> QED
  BY <1>1, <1>2, <1>3

\* The bucket at hand, in the terms of the invariant.
LEMMA HereIsProbe ==
  ASSUME TypeOK, NEW p \in Thread, key[p] \in Key, NEW e \in Nat
  PROVE  /\ ProbeAddr(Home(p), e) = Probe(key[p], size[p] * attempt[p] + e)
         /\ size[p] * attempt[p] + e \in Nat
         /\ Here(p) = Probe(key[p], Dist(p))
         /\ Dist(p) \in Nat
<1>1. size[p] \in Nat /\ attempt[p] \in Nat /\ pos[p] \in Nat
  BY DEF TypeOK
<1>2. ProbeAddr(Home(p), e) = Probe(key[p], size[p] * attempt[p] + e)
  BY <1>1, ProbeOfChunk DEF Home
<1>3. ProbeAddr(Home(p), pos[p]) = Probe(key[p], size[p] * attempt[p] + pos[p])
  BY <1>1, ProbeOfChunk DEF Home
<1>4. size[p] * attempt[p] \in Nat
  BY <1>1
<1> QED
  BY <1>1, <1>2, <1>3, <1>4 DEF Here, Dist

\* The place that a lookup fills.
LEMMA MyRefType ==
  ASSUME TypeOK, NEW p \in Thread, used[p] < DataSize
  PROVE  MyRef(p) \in Ref
<1>1. used[p] \in 0 .. DataSize - 1
  BY TableAssumption DEF TypeOK
<1> QED
  BY <1>1 DEF MyRef, Ref

LEMMA ReturnType ==
  ASSUME TypeOK, NEW p \in Thread, key[p] \in Key, NEW r \in Ref, NEW how \in BOOLEAN,
         Return(p, r, how), index' \in [Bucket -> Entry \cup {None}],
         used' \in [Thread -> 1 .. DataSize]
  PROVE  TypeOK'
<1>1. /\ answer' \in [Thread -> [key : Key, ref : Ref, inserted : BOOLEAN] \cup {None}]
      /\ pc' \in [Thread -> {"idle", "fetch", "scan", "compare"}]
      /\ key' \in [Thread -> Key \cup {None}]
  BY DEF Return, TypeOK
<1>2. /\ size' \in [Thread -> Nat] /\ attempt' \in [Thread -> Nat]
      /\ pos' \in [Thread -> Nat] /\ cand' \in [Thread -> Ref \cup {None}]
  BY DEF Return, TypeOK
<1>3. chunk' \in [Thread -> Chunk]
  BY ChunkTypes DEF Return, TypeOK
<1> QED
  BY <1>1, <1>2, <1>3 DEF Return, TypeOK

LEMMA SkipType ==
  ASSUME TypeOK, NEW p \in Thread, Skip(p)
  PROVE  TypeOK'
  BY DEF TypeOK, Skip

LEMMA InspectType ==
  ASSUME TypeOK, NEW p \in Thread, NEW entry \in Entry, Inspect(p, entry)
  PROVE  TypeOK'
<1>1. entry.ref \in Ref
  BY DEF Entry
<1> QED
  BY <1>1 DEF TypeOK, Inspect

\* The bucket that the scan looks at.
LEMMA SeenType ==
  ASSUME TypeOK, NEW p \in Thread, Control(p), Scanning(p)
  PROVE  /\ key[p] \in Key /\ Seen(p) \in Entry \cup {None}
         /\ pos[p] \in DOMAIN chunk[p]
         /\ Here(p) \in Bucket /\ index[Here(p)] \in Entry \cup {None}
<1>1. key[p] \in Key /\ DOMAIN chunk[p] = 0 .. size[p] - 1 /\ pos[p] < size[p]
  BY DEF Control, Scanning, Calling
<1>2. pos[p] \in DOMAIN chunk[p] /\ chunk[p] \in Chunk
  BY <1>1 DEF TypeOK
<1>3. Here(p) \in Bucket
  BY <1>1, HereIsProbe, ProbeType
<1> QED
  BY <1>1, <1>2, <1>3, ChunkTypes DEF Seen, TypeOK

\* An entry that a thread may put in the index.
LEMMA MyEntryType ==
  ASSUME TypeOK, NEW p \in Thread, key[p] \in Key, used[p] < DataSize
  PROVE  [tag |-> TagOf[key[p]], ref |-> MyRef(p)] \in Entry
  BY MyRefType DEF Entry, Tag

LEMMA TypeStep ==
  ASSUME TypeOK, \A q \in Thread : Control(q) /\ Comparing(q), NEW p \in Thread,
         \/ \E k \in Key, c \in ChunkSizes : Begin(p, k, c)
         \/ Work(p)
  PROVE  TypeOK'
<1>1. ASSUME NEW k \in Key, NEW c \in ChunkSizes, Begin(p, k, c) PROVE TypeOK'
  <2>1. MyRef(p) \in Ref
    BY <1>1, MyRefType DEF Begin
  <2>2. data' \in [Ref -> Key \cup {None}]
    BY <1>1, <2>1 DEF Begin, TypeOK
  <2>3. c \in Nat
    BY TableAssumption
  <2> QED
    BY <1>1, <2>2, <2>3 DEF Begin, TypeOK
<1>2. ASSUME NEW e \in 0 .. BlockSize - 1, Fetch(p, e) PROVE TypeOK'
  <2>1. index[FetchAddr(Home(p), size[p], e)] \in Entry \cup {None}
    <3>1. key[p] \in Key /\ size[p] \in 1 .. BlockSize /\ e \in 0 .. size[p] - 1
      BY <1>2, TableAssumption DEF Fetch, Control, Calling
    <3>2. Home(p) \in 0 .. Width - 1
      <4>1. HashOf[key[p]] + size[p] * attempt[p] \in Nat
        <5>1. HashOf[key[p]] \in Nat /\ size[p] \in Nat /\ attempt[p] \in Nat
          BY <3>1, TableAssumption DEF TypeOK
        <5>2. size[p] * attempt[p] \in Nat
          BY <5>1
        <5> QED
          BY <5>1, <5>2
      <4> QED
        BY <4>1, TableAssumption DEF Home, Start
    <3>3. FetchAddr(Home(p), size[p], e) = Probe(key[p], size[p] * attempt[p] + e)
          /\ size[p] * attempt[p] + e \in Nat
      BY <3>1, <3>2, FetchesRight, HereIsProbe
    <3> QED
      BY <3>1, <3>3, ProbeType DEF TypeOK
  <2>2. chunk' \in [Thread -> Chunk]
    <3> DEFINE v == index[FetchAddr(Home(p), size[p], e)]
               f == [x \in DOMAIN chunk[p] \cup {e} |-> IF x = e THEN v ELSE chunk[p][x]]
    <3>1. chunk' = [chunk EXCEPT ![p] = f]
      BY <1>2 DEF Fetch
    <3>2. chunk[p] \in Chunk /\ v \in Entry \cup {None}
      BY <2>1 DEF TypeOK
    <3> HIDE DEF v
    <3>3. f \in Chunk
      BY <3>2, ChunkTypes
    <3> HIDE DEF f
    <3> QED
      BY <3>1, <3>3 DEF TypeOK
  <2> QED
    BY <1>2, <2>2 DEF Fetch, TypeOK
<1>3. CASE Fetched(p) \/ NextChunk(p) \/ GiveUp(p)
  <2>1. chunk' \in [Thread -> Chunk]
    BY <1>3, ChunkTypes DEF Fetched, NextChunk, GiveUp, TypeOK
  <2>2. CASE Fetched(p) \/ GiveUp(p)
    BY <2>1, <2>2 DEF Fetched, GiveUp, TypeOK
  <2>3. CASE NextChunk(p)
    <3>1. attempt' \in [Thread -> Nat] /\ pos' \in [Thread -> Nat]
      BY <2>3 DEF NextChunk, TypeOK
    <3>2. pc' \in [Thread -> {"idle", "fetch", "scan", "compare"}]
      BY <2>3 DEF NextChunk, TypeOK
    <3> QED
      BY <2>1, <2>3, <3>1, <3>2 DEF NextChunk, TypeOK
  <2> QED
    BY <1>3, <2>2, <2>3
<1>4. CASE ScanOccupied(p)
  <2>1. Seen(p) \in Entry
    BY <1>4, SeenType DEF ScanOccupied
  <2> QED
    BY <1>4, <2>1, SkipType, InspectType DEF ScanOccupied
<1>5. CASE ClaimLost(p)
  <2>1. index[Here(p)] \in Entry
    BY <1>5, SeenType DEF ClaimLost
  <2> QED
    BY <1>5, <2>1, SkipType, InspectType DEF ClaimLost
<1>6. CASE ClaimWon(p)
  <2>1. key[p] \in Key /\ used[p] < DataSize
    BY <1>6 DEF ClaimWon, Scanning, Control, Calling
  <2>2. index' \in [Bucket -> Entry \cup {None}]
    BY <1>6, <2>1, MyEntryType DEF ClaimWon, TypeOK
  <2>3. used' \in [Thread -> 1 .. DataSize]
    <3>1. used[p] + 1 \in 1 .. DataSize
      BY <2>1, TableAssumption DEF TypeOK
    <3> QED
      BY <1>6, <3>1 DEF ClaimWon, TypeOK
  <2>4. Return(p, MyRef(p), TRUE)
    BY <1>6 DEF ClaimWon
  <2> QED
    BY <2>1, <2>2, <2>3, <2>4, MyRefType, ReturnType
<1>7. CASE CompareEqual(p)
  <2>1. key[p] \in Key /\ index[Probe(key[p], Dist(p))] # None
        /\ cand[p] = index[Probe(key[p], Dist(p))].ref
    BY <1>7 DEF CompareEqual, Control, Calling, Comparing
  <2>2. Probe(key[p], Dist(p)) \in Bucket
    BY <2>1, HereIsProbe, ProbeType
  <2>3. index[Probe(key[p], Dist(p))] \in Entry
    BY <2>1, <2>2 DEF TypeOK
  <2>4. cand[p] \in Ref
    BY <2>1, <2>3 DEF Entry
  <2>5. Return(p, cand[p], FALSE) /\ UNCHANGED <<index, used>>
    BY <1>7 DEF CompareEqual
  <2> QED
    BY <2>1, <2>4, <2>5, ReturnType DEF TypeOK
<1>8. CASE CompareDiffers(p)
  BY <1>8, SkipType DEF CompareDiffers
<1> QED
  BY <1>1, <1>2, <1>3, <1>4, <1>5, <1>6, <1>7, <1>8 DEF Work

-----------------------------------------------------------------------------
(* What a step leaves alone *)

\* What is in the index stays there, with its node.
Stable ==
  \A b \in Bucket : index[b] # None =>
    index'[b] = index[b] /\ data'[index[b].ref] = data[index[b].ref]

\* The local variables of thread q.
Same(q) ==
  /\ pc'[q] = pc[q] /\ key'[q] = key[q] /\ size'[q] = size[q]
  /\ attempt'[q] = attempt[q] /\ pos'[q] = pos[q] /\ chunk'[q] = chunk[q]
  /\ cand'[q] = cand[q] /\ used'[q] = used[q] /\ data'[MyRef(q)] = data[MyRef(q)]

LEMMA StableHolds ==
  ASSUME Stable, NEW b \in Bucket, index[b] # None, NEW k
  PROVE  index'[b] # None /\ (Holds(b, k)' <=> Holds(b, k))
  BY DEF Stable, Holds

\* What a lookup knows stays true while other threads work.
LEMMA LocalStays ==
  ASSUME TypeOK, NEW q \in Thread, Local(q), Stable, Same(q)
  PROVE  Local(q)'
<1>1. Control(q)'
  BY DEF Local, Control, Same, Calling, MyRef
<1>2. Dist(q)' = Dist(q)
  BY DEF Dist, Same
<1>3. Calling(q) => key[q] \in Key
  BY DEF Local, Control
<1>4. Current(q)'
  <2> SUFFICES ASSUME Calling(q), NEW e \in DOMAIN chunk[q], chunk[q][e] # None
               PROVE  index'[Probe(key[q], size[q] * attempt[q] + e)] = chunk[q][e]
    BY DEF Current, Same, Calling, Probe
  <2>1. index[Probe(key[q], size[q] * attempt[q] + e)] = chunk[q][e]
    BY DEF Local, Current
  <2>2. e \in Nat
    BY DEF Local, Control, TypeOK
  <2>3. Probe(key[q], size[q] * attempt[q] + e) \in Bucket
    BY <1>3, <2>2, HereIsProbe, ProbeType
  <2> QED
    BY <2>1, <2>3 DEF Stable
<1>5. PassedBy(q)'
  <2> SUFFICES ASSUME Calling(q), NEW d \in 0 .. Dist(q) - 1
               PROVE  /\ index'[Probe(key[q], d)] # None
                      /\ data'[index'[Probe(key[q], d)].ref] # key[q]
    BY <1>2 DEF PassedBy, Same, Calling, Probe, Holds
  <2>1. Probe(key[q], d) \in Bucket
    BY <1>3, ProbeType
  <2>2. index[Probe(key[q], d)] # None /\ ~Holds(Probe(key[q], d), key[q])
    BY DEF Local, PassedBy
  <2> QED
    BY <2>1, <2>2 DEF Stable, Holds
<1>6. Comparing(q)'
  <2> SUFFICES ASSUME pc[q] = "compare"
               PROVE  /\ index'[Probe(key[q], Dist(q))] # None
                      /\ cand[q] = index'[Probe(key[q], Dist(q))].ref
    BY <1>2 DEF Comparing, Same, Probe
  <2>1. Probe(key[q], Dist(q)) \in Bucket
    BY <1>3, HereIsProbe, ProbeType DEF Calling
  <2> QED
    BY <2>1 DEF Local, Comparing, Stable
<1> QED
  BY <1>1, <1>4, <1>5, <1>6 DEF Local

\* The table as a whole stays right while the index does not change.
LEMMA TableStays ==
  ASSUME TypeOK, Published, Reached, Unique, Stable, UNCHANGED <<index, used>>
  PROVE  Published' /\ Reached' /\ Unique'
<1>1. ASSUME NEW b \in Bucket, NEW k PROVE Holds(b, k)' <=> Holds(b, k)
  BY DEF Stable, Holds
<1>2. Published'
  BY DEF Published, Stable
<1>3. Reached'
  BY <1>1 DEF Reached, Probe
<1>4. Unique'
  BY <1>1 DEF Unique
<1> QED
  BY <1>2, <1>3, <1>4

\* A step of thread p that writes nothing shared.
LEMMA QuietStep ==
  ASSUME Inv, NEW p \in Thread, TypeOK', UNCHANGED <<index, data, used>>,
         \A q \in Thread \ {p} : Same(q), Local(p)'
  PROVE  Inv'
<1>1. Stable
  BY DEF Stable
<1>2. \A q \in Thread : Local(q)'
  BY <1>1, LocalStays DEF Inv
<1>3. Published' /\ Reached' /\ Unique'
  BY <1>1, TableStays DEF Inv
<1> QED
  BY <1>2, <1>3 DEF Inv

-----------------------------------------------------------------------------
(* The steps *)

\* The place that a lookup fills is in no bucket yet.
LEMMA BeginStable ==
  ASSUME Inv, NEW p \in Thread, \E k \in Key, c \in ChunkSizes : Begin(p, k, c)
  PROVE  Stable
<1>1. used[p] < DataSize /\ used[p] \in Nat /\ MyRef(p) \in Ref
  BY MyRefType DEF Inv, TypeOK, Begin
<1> SUFFICES ASSUME NEW b \in Bucket, index[b] # None
             PROVE  index'[b] = index[b] /\ data'[index[b].ref] = data[index[b].ref]
  BY DEF Stable
<1>2. index[b].ref # MyRef(p)
  <2>1. index[b].ref[2] < used[index[b].ref[1]]
    BY DEF Inv, Published
  <2>2. MyRef(p)[1] = p /\ MyRef(p)[2] = used[p]
    BY DEF MyRef
  <2> QED
    BY <1>1, <2>1, <2>2
<1>3. index[b].ref \in Ref
  BY DEF Inv, TypeOK, Entry
<1> QED
  BY <1>2, <1>3 DEF Begin, Inv, TypeOK

LEMMA BeginStep ==
  ASSUME Inv, NEW p \in Thread, NEW k \in Key, NEW c \in ChunkSizes, Begin(p, k, c), TypeOK'
  PROVE  Inv'
<1>1. used[p] < DataSize /\ used[p] \in Nat /\ MyRef(p) \in Ref
  BY MyRefType DEF Inv, TypeOK, Begin
<1>2. Stable
  BY BeginStable
<1>3. ASSUME NEW q \in Thread \ {p} PROVE Same(q)
  <2>1. MyRef(q) # MyRef(p)
    BY DEF MyRef
  <2>2. data'[MyRef(q)] = data[MyRef(q)]
    BY <2>1 DEF Begin, Inv, TypeOK
  <2> QED
    BY <2>2 DEF Same, Begin, Inv, TypeOK
<1>4. Local(p)'
  <2>1. /\ pc'[p] = "fetch" /\ key'[p] = k /\ size'[p] = c /\ attempt'[p] = 0 /\ pos'[p] = 0
        /\ DOMAIN chunk'[p] = {} /\ used'[p] = used[p] /\ data'[MyRef(p)] = k
    BY <1>1 DEF Begin, Inv, TypeOK, Local, Control
  <2>2. c \in Nat /\ c * 0 + 0 = 0
    BY TableAssumption
  <2>3. Dist(p)' = 0
    BY <2>1, <2>2 DEF Dist
  <2>4. Control(p)'
    BY <1>1, <2>1, <2>2 DEF Control, Calling, MyRef
  <2>5. Current(p)' /\ PassedBy(p)' /\ Comparing(p)'
    BY <2>1, <2>3 DEF Current, PassedBy, Comparing
  <2> QED
    BY <2>4, <2>5 DEF Local
<1>5. \A q \in Thread : Local(q)'
  BY <1>2, <1>3, <1>4, LocalStays DEF Inv
<1>6. Published' /\ Reached' /\ Unique'
  BY <1>2, TableStays DEF Inv, Begin
<1> QED
  BY <1>5, <1>6 DEF Inv

\* Local steps: Fetched, and the steps of the scan.
LEMMA FetchStep ==
  ASSUME Inv, NEW p \in Thread, NEW e \in 0 .. BlockSize - 1, Fetch(p, e), TypeOK'
  PROVE  Inv'
<1> DEFINE v == index[FetchAddr(Home(p), size[p], e)]
           f == [x \in DOMAIN chunk[p] \cup {e} |-> IF x = e THEN v ELSE chunk[p][x]]
<1>1. chunk' = [chunk EXCEPT ![p] = f]
  BY DEF Fetch
<1>2. /\ pc[p] = "fetch" /\ e \in 0 .. size[p] - 1
      /\ UNCHANGED <<index, data, used, pc, key, size, attempt, pos, cand>>
  BY DEF Fetch
<1>3. key[p] \in Key /\ size[p] \in 1 .. BlockSize /\ e \in Nat
  <2>1. key[p] \in Key /\ size[p] \in ChunkSizes
    BY <1>2 DEF Inv, Local, Control, Calling
  <2>2. size[p] \in 1 .. BlockSize
    BY <2>1, TableAssumption
  <2> QED
    BY <1>2, <2>1, <2>2
<1>4. v = index[Probe(key[p], size[p] * attempt[p] + e)]
  <2>1. Home(p) \in 0 .. Width - 1
    <3>1. HashOf[key[p]] \in Nat /\ size[p] \in Nat /\ attempt[p] \in Nat
      BY <1>3, TableAssumption DEF Inv, TypeOK
    <3>2. size[p] * attempt[p] \in Nat
      BY <3>1
    <3>3. HashOf[key[p]] + size[p] * attempt[p] \in Nat
      BY <3>1, <3>2
    <3> QED
      BY <3>3, TableAssumption DEF Home, Start
  <2>2. FetchAddr(Home(p), size[p], e) = ProbeAddr(Home(p), e)
    BY <1>2, <1>3, <2>1, FetchesRight
  <2>3. ProbeAddr(Home(p), e) = Probe(key[p], size[p] * attempt[p] + e)
    BY <1>3, HereIsProbe DEF Inv
  <2> QED
    BY <2>2, <2>3
<1>5. chunk'[p] = f /\ \A q \in Thread \ {p} : chunk'[q] = chunk[q]
  BY <1>1 DEF Inv, TypeOK
<1> HIDE DEF v
<1>6. /\ DOMAIN f = DOMAIN chunk[p] \cup {e}
      /\ \A x \in DOMAIN f : f[x] = IF x = e THEN v ELSE chunk[p][x]
  OBVIOUS
<1> HIDE DEF f
<1>7. Local(p)'
  <2>1. Control(p)'
    BY <1>2, <1>3, <1>5, <1>6 DEF Inv, Local, Control, Calling, MyRef
  <2>2. Current(p)'
    <3> SUFFICES ASSUME NEW x \in DOMAIN f, f[x] # None
                 PROVE  index[Probe(key[p], size[p] * attempt[p] + x)] = f[x]
      BY <1>2, <1>5 DEF Current, Probe
    <3>1. CASE x = e
      BY <3>1, <1>4, <1>6
    <3>2. CASE x # e
      <4>1. x \in DOMAIN chunk[p] /\ f[x] = chunk[p][x]
        BY <3>2, <1>6
      <4> QED
        BY <4>1, <1>2 DEF Inv, Local, Current, Calling
    <3> QED
      BY <3>1, <3>2
  <2>3. PassedBy(p)'
    BY <1>2 DEF Inv, Local, PassedBy, Calling, Dist, Probe, Holds
  <2>4. Comparing(p)'
    BY <1>2 DEF Comparing
  <2> QED
    BY <2>1, <2>2, <2>3, <2>4 DEF Local
<1>8. \A q \in Thread \ {p} : Same(q)
  BY <1>2, <1>5 DEF Same
<1> QED
  BY <1>2, <1>7, <1>8, QuietStep

LEMMA FetchedStep ==
  ASSUME Inv, NEW p \in Thread, Fetched(p), TypeOK'
  PROVE  Inv'
<1>1. /\ pc[p] = "fetch" /\ pc'[p] = "scan" /\ DOMAIN chunk[p] = 0 .. size[p] - 1
      /\ UNCHANGED <<index, data, used, key, size, attempt, pos, chunk, cand>>
  BY DEF Fetched, Inv, TypeOK
<1>2. \A q \in Thread \ {p} : Same(q)
  BY DEF Same, Fetched, Inv, TypeOK
<1>3. Control(p)' /\ Comparing(p)'
  BY <1>1 DEF Inv, Local, Control, Comparing, Calling, MyRef
<1>4. Current(p)'
  BY <1>1 DEF Inv, Local, Current, Calling, Probe
<1>5. PassedBy(p)'
  BY <1>1 DEF Inv, Local, PassedBy, Calling, Dist, Probe, Holds
<1> QED
  BY <1>1, <1>2, <1>3, <1>4, <1>5, QuietStep DEF Local

\* The scan moves past a bucket that holds another node.
LEMMA SkipStep ==
  ASSUME Inv, NEW p \in Thread, pc[p] \in {"scan", "compare"}, pos[p] < size[p],
         index[Probe(key[p], Dist(p))] # None, ~Holds(Probe(key[p], Dist(p)), key[p]),
         Skip(p), UNCHANGED used, TypeOK'
  PROVE  Inv'
<1>1. /\ pos'[p] = pos[p] + 1 /\ pc'[p] = "scan"
      /\ UNCHANGED <<index, data, used, key, size, attempt, chunk>>
  BY DEF Skip, Inv, TypeOK
<1>2. /\ key[p] \in Key /\ size[p] \in Nat /\ attempt[p] \in Nat /\ pos[p] \in Nat
      /\ size[p] * attempt[p] \in Nat
  BY DEF Inv, TypeOK, Local, Control, Calling
<1>3. Dist(p) \in Nat /\ Dist(p)' = Dist(p) + 1
  BY <1>1, <1>2 DEF Dist
<1>4. \A q \in Thread \ {p} : Same(q)
  BY DEF Same, Skip, Inv, TypeOK
<1>5. Control(p)' /\ Comparing(p)'
  BY <1>1, <1>2 DEF Inv, Local, Control, Comparing, Calling, MyRef
<1>6. Current(p)'
  BY <1>1 DEF Inv, Local, Current, Calling, Probe
<1>7. PassedBy(p)'
  <2>1. Dist(p)' - 1 = Dist(p)
    BY <1>3
  <2>2. ASSUME NEW d \in 0 .. Dist(p)
        PROVE  index[Probe(key[p], d)] # None /\ ~Holds(Probe(key[p], d), key[p])
    <3>1. d = Dist(p) \/ d \in 0 .. Dist(p) - 1
      BY <1>3
    <3> QED
      BY <3>1 DEF Inv, Local, PassedBy, Calling
  <2>3. \A b, k : Holds(b, k)' <=> Holds(b, k)
    BY <1>1 DEF Holds
  <2> QED
    BY <1>1, <2>1, <2>2, <2>3 DEF PassedBy, Probe
<1> QED
  BY <1>1, <1>4, <1>5, <1>6, <1>7, QuietStep DEF Local

\* The scan stops to compare the node of a bucket.
LEMMA InspectStep ==
  ASSUME Inv, NEW p \in Thread, Scanning(p), NEW entry,
         entry = index[Probe(key[p], Dist(p))], entry # None, Inspect(p, entry),
         UNCHANGED used, TypeOK'
  PROVE  Inv'
<1>1. /\ pc'[p] = "compare" /\ cand'[p] = entry.ref
      /\ UNCHANGED <<index, data, used, key, size, attempt, pos, chunk>>
  BY DEF Inspect, Inv, TypeOK
<1>2. \A q \in Thread \ {p} : Same(q)
  BY DEF Same, Inspect, Inv, TypeOK
<1>3. Control(p)'
  BY <1>1 DEF Scanning, Inv, Local, Control, Calling, MyRef
<1>4. Comparing(p)'
  BY <1>1 DEF Comparing, Dist, Probe
<1>5. Current(p)'
  BY <1>1 DEF Scanning, Inv, Local, Current, Calling, Probe
<1>6. PassedBy(p)'
  BY <1>1 DEF Scanning, Inv, Local, PassedBy, Calling, Dist, Probe, Holds
<1> QED
  BY <1>1, <1>2, <1>3, <1>4, <1>5, <1>6, QuietStep DEF Local

\* A node with another tag is another node.
LEMMA OtherTag ==
  ASSUME Inv, NEW p \in Thread, NEW b \in Bucket, index[b] # None, ~SameTag(p, index[b])
  PROVE  ~Holds(b, key[p])
  BY DEF Inv, Published, SameTag, Holds

LEMMA ScanStep ==
  ASSUME Inv, NEW p \in Thread, ScanOccupied(p) \/ ClaimLost(p), TypeOK'
  PROVE  Inv'
<1>1. Control(p) /\ Current(p) /\ TypeOK /\ Scanning(p)
  BY DEF Inv, Local, ScanOccupied, ClaimLost
<1>2. /\ key[p] \in Key /\ pos[p] \in DOMAIN chunk[p] /\ Here(p) \in Bucket
      /\ Here(p) = Probe(key[p], Dist(p))
  BY <1>1, SeenType, HereIsProbe
<1>3. pc[p] \in {"scan", "compare"} /\ pos[p] < size[p] /\ Calling(p)
  BY <1>1 DEF Scanning, Calling
\* Either way the thread looks at what its bucket holds now.
<1>4. /\ index[Here(p)] # None
      /\ IF SameTag(p, index[Here(p)]) THEN Inspect(p, index[Here(p)]) ELSE Skip(p)
  <2>1. CASE ClaimLost(p)
    BY <2>1 DEF ClaimLost
  <2>2. CASE ScanOccupied(p)
    <3>1. Seen(p) # None /\ IF SameTag(p, Seen(p)) THEN Inspect(p, Seen(p)) ELSE Skip(p)
      BY <2>2 DEF ScanOccupied
    <3>2. index[Probe(key[p], size[p] * attempt[p] + pos[p])] = Seen(p)
      BY <1>1, <1>2, <1>3, <3>1 DEF Current, Seen
    <3>3. index[Here(p)] = Seen(p)
      BY <1>2, <3>2 DEF Dist
    <3> QED
      BY <3>1, <3>3
  <2> QED
    BY <2>1, <2>2
<1>5. UNCHANGED used
  BY <1>4 DEF Skip, Inspect
<1>6. CASE SameTag(p, index[Here(p)])
  BY <1>1, <1>2, <1>4, <1>5, <1>6, InspectStep
<1>7. CASE ~SameTag(p, index[Here(p)])
  <2>1. ~Holds(Here(p), key[p])
    BY <1>2, <1>4, <1>7, OtherTag
  <2> QED
    BY <1>2, <1>3, <1>4, <1>5, <1>7, <2>1, SkipStep
<1> QED
  BY <1>6, <1>7

LEMMA CompareDiffersStep ==
  ASSUME Inv, NEW p \in Thread, CompareDiffers(p), TypeOK'
  PROVE  Inv'
<1>1. /\ pc[p] = "compare" /\ data[cand[p]] # key[p] /\ Skip(p) /\ UNCHANGED used
  BY DEF CompareDiffers, Skip
<1>2. /\ index[Probe(key[p], Dist(p))] # None
      /\ cand[p] = index[Probe(key[p], Dist(p))].ref
      /\ pos[p] < size[p]
  BY <1>1 DEF Inv, Local, Comparing, Control
<1>3. ~Holds(Probe(key[p], Dist(p)), key[p])
  BY <1>1, <1>2 DEF Holds
<1> QED
  BY <1>1, <1>2, <1>3, SkipStep

\* A lookup that has returned has no local variables.
LEMMA ReturnLocals ==
  ASSUME TypeOK, NEW p \in Thread, NEW r, NEW how, Return(p, r, how)
  PROVE  Local(p)'
<1>1. pc'[p] = "idle" /\ attempt'[p] = 0 /\ pos'[p] = 0 /\ chunk'[p] = << >>
  BY DEF Return, TypeOK
<1>2. DOMAIN << >> = {}
  OBVIOUS
<1> QED
  BY <1>1, <1>2 DEF Local, Control, Current, PassedBy, Comparing, Calling

LEMMA CompareEqualStep ==
  ASSUME Inv, NEW p \in Thread, CompareEqual(p), TypeOK'
  PROVE  Inv'
<1>1. Return(p, cand[p], FALSE) /\ UNCHANGED <<index, used, data>>
  BY DEF CompareEqual, Return
<1>2. Local(p)'
  BY <1>1, ReturnLocals DEF Inv
<1>3. \A q \in Thread \ {p} : Same(q)
  BY <1>1 DEF Same, Return, Inv, TypeOK
<1> QED
  BY <1>1, <1>2, <1>3, QuietStep

LEMMA NextChunkStep ==
  ASSUME Inv, NEW p \in Thread, NextChunk(p), TypeOK'
  PROVE  Inv'
<1>1. /\ pc[p] = "scan" /\ pos[p] = size[p]
      /\ attempt'[p] = attempt[p] + 1 /\ pos'[p] = 0 /\ chunk'[p] = << >> /\ pc'[p] = "fetch"
      /\ UNCHANGED <<index, data, used, key, size, cand>>
  BY DEF NextChunk, ChunkDone, Inv, TypeOK
<1>2. \A q \in Thread \ {p} : Same(q)
  BY DEF Same, NextChunk, Inv, TypeOK
<1>3. DOMAIN << >> = {}
  OBVIOUS
<1>4. size[p] \in Nat /\ attempt[p] \in Nat /\ key[p] \in Key
  BY <1>1 DEF Inv, TypeOK, Local, Control, Calling
<1>5. Dist(p)' = Dist(p)
  <2>1. \A s, a \in Nat : s * (a + 1) + 0 = s * a + s
    OBVIOUS
  <2> QED
    BY <1>1, <1>4, <2>1 DEF Dist
<1>6. Control(p)' /\ Comparing(p)'
  BY <1>1, <1>3, <1>4 DEF Inv, TypeOK, Local, Control, Comparing, Calling, MyRef
<1>7. Current(p)'
  BY <1>1, <1>3 DEF Current
<1>8. PassedBy(p)'
  BY <1>1, <1>5 DEF Inv, Local, PassedBy, Calling, Probe, Holds
<1> QED
  BY <1>1, <1>2, <1>6, <1>7, <1>8, QuietStep DEF Local

\* The bucket claimed is free, and every bucket before it holds another node:
\* the node was nowhere in the table.
LEMMA NotThere ==
  ASSUME Inv, NEW p \in Thread, ClaimWon(p), NEW b \in Bucket
  PROVE  ~Holds(b, key[p])
<1> SUFFICES ASSUME Holds(b, key[p]) PROVE FALSE
  OBVIOUS
<1>1. Control(p) /\ PassedBy(p) /\ TypeOK /\ Scanning(p) /\ Calling(p)
  BY DEF Inv, Local, ClaimWon, Scanning, Calling
<1>2. key[p] \in Key /\ Here(p) = Probe(key[p], Dist(p)) /\ Dist(p) \in Nat
  BY <1>1, SeenType, HereIsProbe
<1>3. index[Probe(key[p], Dist(p))] = None
  BY <1>2 DEF ClaimWon
<1>4. PICK d \in Nat : b = Probe(key[p], d)
                         /\ \A x \in 0 .. d - 1 : index[Probe(key[p], x)] # None
  BY <1>2 DEF Inv, Reached
<1>5. CASE d < Dist(p)
  <2>1. d \in 0 .. Dist(p) - 1
    BY <1>2, <1>5
  <2> QED
    BY <1>1, <1>4, <2>1 DEF PassedBy
<1>6. CASE d = Dist(p)
  BY <1>3, <1>4, <1>6 DEF Holds
<1>7. CASE d > Dist(p)
  <2>1. Dist(p) \in 0 .. d - 1
    BY <1>2, <1>7
  <2> QED
    BY <1>3, <1>4, <2>1
<1> QED
  BY <1>2, <1>5, <1>6, <1>7

\* What a claim writes: afterwards the claimed bucket holds the key, and no
\* other bucket changed.
LEMMA ClaimFacts ==
  ASSUME Inv, NEW p \in Thread, ClaimWon(p)
  PROVE  /\ key[p] \in Key /\ Here(p) \in Bucket /\ Here(p) = Probe(key[p], Dist(p))
         /\ Dist(p) \in Nat
         /\ index[Here(p)] = None /\ index'[Here(p)] # None
         /\ index'[Here(p)].tag = TagOf[key[p]] /\ index'[Here(p)].ref = MyRef(p)
         /\ data[MyRef(p)] = key[p] /\ data' = data
         /\ \A b \in Bucket \ {Here(p)} : index'[b] = index[b]
         /\ used'[p] = used[p] + 1 /\ \A q \in Thread \ {p} : used'[q] = used[q]
         /\ MyRef(p)[1] = p /\ MyRef(p)[2] = used[p] /\ used[p] \in Nat
         /\ Stable
         /\ \A b \in Bucket : \A k :
              Holds(b, k)' <=> IF b = Here(p) THEN k = key[p] ELSE Holds(b, k)
<1> DEFINE entry == [tag |-> TagOf[key[p]], ref |-> MyRef(p)]
<1>1. Control(p) /\ TypeOK /\ Scanning(p) /\ Calling(p)
  BY DEF Inv, Local, ClaimWon, Scanning, Calling
<1>2. /\ key[p] \in Key /\ Here(p) \in Bucket /\ Here(p) = Probe(key[p], Dist(p))
      /\ Dist(p) \in Nat /\ used[p] < DataSize /\ data[MyRef(p)] = key[p]
  BY <1>1, SeenType, HereIsProbe DEF Control
<1>3. /\ index[Here(p)] = None
      /\ index' = [index EXCEPT ![Here(p)] = entry]
      /\ used' = [used EXCEPT ![p] = @ + 1] /\ data' = data
  BY DEF ClaimWon, Return
<1>4. /\ index'[Here(p)] = entry /\ entry # None
      /\ entry.tag = TagOf[key[p]] /\ entry.ref = MyRef(p)
      /\ \A b \in Bucket \ {Here(p)} : index'[b] = index[b]
      /\ used'[p] = used[p] + 1
      /\ \A q \in Thread \ {p} : used'[q] = used[q]
  <2>1. entry \in Entry
    BY <1>1, <1>2, MyEntryType
  <2>2. entry # None
    BY <2>1, NoneAssumption
  <2> QED
    BY <1>2, <1>3, <2>2 DEF Inv, TypeOK
<1>5. MyRef(p)[1] = p /\ MyRef(p)[2] = used[p] /\ used[p] \in Nat
  BY <1>1 DEF MyRef, TypeOK
<1>6. Stable
  BY <1>3, <1>4 DEF Stable
<1> HIDE DEF entry
<1>7. ASSUME NEW b \in Bucket, NEW k
      PROVE  Holds(b, k)' <=> IF b = Here(p) THEN k = key[p] ELSE Holds(b, k)
  <2> DEFINE H == Here(p)
             R == MyRef(p)
             K == key[p]
  <2>1. /\ index'[H] = entry /\ entry # None /\ entry.ref = R /\ data[R] = K /\ data' = data
        /\ b # H => index'[b] = index[b]
    BY <1>2, <1>3, <1>4
  <2> HIDE DEF H, R, K
  <2>2. Holds(b, k)' <=> IF b = H THEN k = K ELSE Holds(b, k)
    BY <2>1 DEF Holds
  <2> QED
    BY <2>2 DEF H, K
<1> QED
  BY <1>2, <1>3, <1>4, <1>5, <1>6, <1>7

LEMMA ClaimStep ==
  ASSUME Inv, NEW p \in Thread, ClaimWon(p), TypeOK'
  PROVE  Inv'
<1> DEFINE H == Here(p)
           K == key[p]
           R == MyRef(p)
<1>1. /\ K \in Key /\ H \in Bucket /\ H = Probe(K, Dist(p)) /\ Dist(p) \in Nat
      /\ index[H] = None /\ index'[H] # None
      /\ index'[H].tag = TagOf[K] /\ index'[H].ref = R
      /\ data[R] = K /\ data' = data
      /\ \A b \in Bucket \ {H} : index'[b] = index[b]
      /\ used'[p] = used[p] + 1 /\ \A q \in Thread \ {p} : used'[q] = used[q]
      /\ R[1] = p /\ R[2] = used[p] /\ used[p] \in Nat
      /\ Stable
  BY ClaimFacts
<1>2. ASSUME NEW b \in Bucket, NEW k
      PROVE  Holds(b, k)' <=> IF b = H THEN k = K ELSE Holds(b, k)
  BY ClaimFacts
<1>3. ASSUME NEW b \in Bucket, Holds(b, K) PROVE FALSE
  BY <1>3, NotThere
<1>4. \A q \in Thread : Local(q)'
  <2>1. Local(p)'
    BY ReturnLocals DEF Inv, ClaimWon
  <2>2. ASSUME NEW q \in Thread \ {p} PROVE Same(q)
    BY <1>1 DEF Same, ClaimWon, Return, Inv, TypeOK
  <2> QED
    BY <1>1, <2>1, <2>2, LocalStays DEF Inv
<1>5. PassedBy(p) /\ Calling(p)
  BY DEF Inv, Local, ClaimWon, Scanning, Calling
<1>6. \A x \in 0 .. Dist(p) - 1 : index[Probe(K, x)] # None
  BY <1>5 DEF PassedBy
<1> HIDE DEF H, K, R
<1>7. Unique'
  <2> SUFFICES ASSUME NEW b1 \in Bucket, NEW b2 \in Bucket, NEW k \in Key,
                      Holds(b1, k)', Holds(b2, k)'
               PROVE  b1 = b2
    BY DEF Unique
  <2>1. CASE k = K
    BY <1>2, <1>3, <2>1
  <2>2. CASE k # K
    <3>1. Holds(b1, k) /\ Holds(b2, k)
      BY <1>2, <2>2
    <3> QED
      BY <3>1 DEF Inv, Unique
  <2> QED
    BY <2>1, <2>2
<1>8. Published'
  <2> SUFFICES ASSUME NEW b \in Bucket, index'[b] # None
               PROVE  /\ index'[b].ref[2] < used'[index'[b].ref[1]]
                      /\ data[index'[b].ref] \in Key
                      /\ index'[b].tag = TagOf[data[index'[b].ref]]
    BY <1>1 DEF Published
  <2>1. CASE b = H
    <3>1. index'[b].ref = R /\ index'[b].tag = TagOf[K]
      BY <1>1, <2>1
    <3>2. R[2] < used'[R[1]]
      BY <1>1
    <3> QED
      BY <1>1, <3>1, <3>2
  <2>2. CASE b # H
    <3>1. /\ index'[b] = index[b]
          /\ index[b].ref[2] < used[index[b].ref[1]]
          /\ data[index[b].ref] \in Key
          /\ index[b].tag = TagOf[data[index[b].ref]]
      BY <1>1, <2>2 DEF Inv, Published
    <3>2. index[b].ref \in Ref
      BY <1>1, <2>2 DEF Inv, TypeOK, Entry
    <3>3. index[b].ref[1] \in Thread /\ index[b].ref[2] \in Nat
      BY <3>2, TableAssumption DEF Ref
    <3>4. used[index[b].ref[1]] \in Nat /\ used'[index[b].ref[1]] \in Nat
      BY <3>3 DEF Inv, TypeOK
    <3>5. used[index[b].ref[1]] <= used'[index[b].ref[1]]
      <4>1. used[p] <= used'[p] /\ \A q \in Thread \ {p} : used'[q] = used[q]
        BY <1>1
      <4>2. CASE index[b].ref[1] = p
        BY <4>1, <4>2
      <4>3. CASE index[b].ref[1] # p
        BY <3>3, <3>4, <4>1, <4>3
      <4> QED
        BY <4>2, <4>3
    <3> QED
      BY <3>1, <3>3, <3>4, <3>5
  <2> QED
    BY <2>1, <2>2
<1>9. Reached'
  <2> SUFFICES ASSUME NEW b \in Bucket, NEW k \in Key, Holds(b, k)'
               PROVE  \E d \in Nat : b = Probe(k, d)
                        /\ \A x \in 0 .. d - 1 : index'[Probe(k, x)] # None
    BY DEF Reached, Probe
  <2>1. ASSUME NEW y \in Bucket, index[y] # None PROVE index'[y] # None
    BY <1>1, <2>1 DEF Stable
  <2>2. ASSUME NEW d \in Nat, \A x \in 0 .. d - 1 : index[Probe(k, x)] # None
        PROVE  \A x \in 0 .. d - 1 : index'[Probe(k, x)] # None
    BY <2>1, <2>2, ProbeType
  <2>3. CASE b = H
    <3>1. k = K
      BY <1>2, <2>3
    <3> QED
      BY <1>1, <1>6, <2>2, <2>3, <3>1
  <2>4. CASE b # H
    <3>1. Holds(b, k)
      BY <1>2, <2>4
    <3>2. PICK d \in Nat : b = Probe(k, d) /\ \A x \in 0 .. d - 1 : index[Probe(k, x)] # None
      BY <3>1 DEF Inv, Reached
    <3> QED
      BY <2>2, <3>2
  <2> QED
    BY <2>3, <2>4
<1> QED
  BY <1>4, <1>7, <1>8, <1>9 DEF Inv

LEMMA InvInit == Init => Inv
<1> SUFFICES ASSUME Init PROVE Inv
  OBVIOUS
<1>1. TypeOK
  <2>1. chunk \in [Thread -> Chunk]
    BY ChunkTypes DEF Init
  <2>2. 1 \in 1 .. DataSize
    BY TableAssumption
  <2> QED
    BY <2>1, <2>2 DEF Init, TypeOK
<1>2. ASSUME NEW p \in Thread PROVE Local(p)
  <2>1. DOMAIN << >> = {}
    OBVIOUS
  <2>2. pc[p] = "idle" /\ attempt[p] = 0 /\ pos[p] = 0 /\ DOMAIN chunk[p] = {}
    BY <2>1 DEF Init
  <2> QED
    BY <2>2 DEF Local, Control, Current, PassedBy, Comparing, Calling
<1>3. \A b \in Bucket : index[b] = None
  BY DEF Init
<1> QED
  BY <1>1, <1>2, <1>3 DEF Inv, Published, Reached, Unique, Holds

LEMMA InvNext ==
  ASSUME Inv, [Next]_vars
  PROVE  Inv' /\ Stable
<1>1. CASE UNCHANGED vars
  <2>1. Stable /\ \A q \in Thread : Same(q)
    BY <1>1 DEF vars, Stable, Same
  <2>2. TypeOK'
    BY <1>1 DEF vars, Inv, TypeOK
  <2>3. \A q \in Thread : Local(q)'
    BY <2>1, LocalStays DEF Inv
  <2>4. Published' /\ Reached' /\ Unique'
    BY <1>1, <2>1, TableStays DEF Inv, vars
  <2> QED
    BY <2>1, <2>2, <2>3, <2>4 DEF Inv
<1>2. ASSUME NEW p \in Thread,
             \/ \E k \in Key, c \in ChunkSizes : Begin(p, k, c)
             \/ Work(p)
      PROVE  Inv' /\ Stable
  <2>1. TypeOK'
    BY <1>2, TypeStep DEF Inv, Local
  <2>2. ASSUME NEW k \in Key, NEW c \in ChunkSizes, Begin(p, k, c) PROVE Inv'
    BY <2>1, <2>2, BeginStep
  <2>3. ASSUME NEW e \in 0 .. BlockSize - 1, Fetch(p, e) PROVE Inv'
    BY <2>1, <2>3, FetchStep
  <2>4. CASE GiveUp(p)
    <3>1. UNCHANGED <<index, data, used>> /\ \A q \in Thread : Same(q)
      BY <2>4 DEF GiveUp, Same
    <3>2. Stable
      BY <3>1 DEF Stable
    <3>3. Local(p)'
      BY <3>1, <3>2, LocalStays DEF Inv
    <3>4. \A q \in Thread \ {p} : Same(q)
      BY <3>1
    <3> QED
      BY <2>1, <3>1, <3>2, <3>3, <3>4, QuietStep
  <2>5. Inv'
    BY <1>2, <2>1, <2>2, <2>3, <2>4, FetchedStep, ScanStep, ClaimStep, CompareEqualStep,
       CompareDiffersStep, NextChunkStep DEF Work
  <2>6. Stable
    <3>1. CASE \E k \in Key, c \in ChunkSizes : Begin(p, k, c)
      BY <3>1, BeginStable
    <3>2. CASE ClaimWon(p)
      <4>1. index[Here(p)] = None /\ index' = [index EXCEPT ![Here(p)] =
              [tag |-> TagOf[key[p]], ref |-> MyRef(p)]] /\ data' = data
        BY <3>2 DEF ClaimWon, Return
      <4> QED
        BY <4>1 DEF Stable, Inv, TypeOK
    <3>3. CASE UNCHANGED <<index, data>>
      BY <3>3 DEF Stable
    <3> QED
      BY <1>2, <3>1, <3>2, <3>3 DEF Work, Fetch, Fetched, ScanOccupied, ClaimLost, Skip,
         Inspect, CompareEqual, CompareDiffers, Return, NextChunk, GiveUp
  <2> QED
    BY <2>5, <2>6
<1> QED
  BY <1>1, <1>2 DEF Next

-----------------------------------------------------------------------------
(* The theorems *)

LEMMA InvHolds == Spec => []Inv
<1>1. Inv /\ [Next]_vars => Inv'
  BY InvNext
<1> QED
  BY InvInit, <1>1, PTL DEF Spec

\* The variables of the table and of every lookup keep their types: no lookup
\* inspects a bucket outside of the table.
THEOREM TypeCorrect == Spec => []TypeOK
<1>1. Inv => TypeOK
  BY DEF Inv
<1> QED
  BY <1>1, InvHolds, PTL

\* No node is ever stored twice, for any number of threads that look for it at
\* the same time with chunks of any size.
THEOREM UniqueHolds == Spec => []Unique
<1>1. Inv => Unique
  BY DEF Inv
<1> QED
  BY <1>1, InvHolds, PTL

\* A published reference never changes its node.
THEOREM RefsStableHolds == Spec => RefsStable
<1>1. Inv /\ [Next]_vars =>
        [\A b \in Bucket : index[b] # None =>
           index'[b] = index[b] /\ data'[index[b].ref] = data[index[b].ref]]_vars
  BY InvNext DEF Stable
<1> QED
  BY <1>1, InvHolds, PTL DEF Spec, RefsStable

\* A copy of a bucket in use is what the bucket holds.
THEOREM CopiesCurrentHolds == Spec => []CopiesCurrent
<1>1. ASSUME Inv PROVE CopiesCurrent
  <2> SUFFICES ASSUME NEW p \in Thread, pc[p] # "idle", NEW e \in DOMAIN chunk[p],
                      chunk[p][e] # None
               PROVE  index[ProbeAddr(Home(p), e)] = chunk[p][e]
    BY DEF CopiesCurrent
  <2>1. TypeOK /\ Control(p) /\ Current(p) /\ Calling(p)
    BY <1>1 DEF Inv, Local, Calling
  <2>2. key[p] \in Key /\ e \in Nat
    BY <2>1 DEF Control, TypeOK
  <2>3. ProbeAddr(Home(p), e) = Probe(key[p], size[p] * attempt[p] + e)
    BY <2>1, <2>2, HereIsProbe
  <2> QED
    BY <2>1, <2>3 DEF Current
<1> QED
  BY <1>1, InvHolds, PTL

\* Every bucket that a lookup has passed holds another node.
THEOREM PassedOthersHolds == Spec => []PassedOthers
<1>1. ASSUME Inv PROVE PassedOthers
  <2> SUFFICES ASSUME NEW p \in Thread, pc[p] # "idle", NEW b \in Passed(p)
               PROVE  index[b] # None /\ ~Holds(b, key[p])
    BY DEF PassedOthers
  <2>1. TypeOK /\ Control(p) /\ PassedBy(p) /\ Calling(p)
    BY <1>1 DEF Inv, Local, Calling
  <2>2. key[p] \in Key /\ size[p] \in Nat /\ attempt[p] \in Nat /\ pos[p] \in Nat
    BY <2>1 DEF Control, TypeOK
  <2>3. \E d \in 0 .. Dist(p) - 1 : b = Probe(key[p], d)
    <3>1. CASE \E i \in 0 .. attempt[p] - 1, e \in 0 .. size[p] - 1 :
                 b = ProbeAddr(Start(key[p], size[p], i), e)
      <4>1. PICK i \in 0 .. attempt[p] - 1, e \in 0 .. size[p] - 1 :
              b = ProbeAddr(Start(key[p], size[p], i), e)
        BY <3>1
      <4>2. i \in Nat /\ e \in Nat /\ i + 1 <= attempt[p] /\ e + 1 <= size[p]
        BY <2>2, <4>1
      <4>3. b = Probe(key[p], size[p] * i + e)
        BY <2>2, <4>1, <4>2, ProbeOfChunk
      <4>4. size[p] * (i + 1) <= size[p] * attempt[p] /\ size[p] * (i + 1) = size[p] * i + size[p]
        BY <2>2, <4>2
      <4>5. size[p] * i \in Nat /\ size[p] * attempt[p] \in Nat
        BY <2>2, <4>2
      <4>6. size[p] * i + e \in 0 .. Dist(p) - 1
        BY <2>2, <4>2, <4>4, <4>5 DEF Dist
      <4> QED
        BY <4>3, <4>6
    <3>2. CASE \E e \in 0 .. pos[p] - 1 : b = ProbeAddr(Home(p), e)
      <4>1. PICK e \in 0 .. pos[p] - 1 : b = ProbeAddr(Home(p), e)
        BY <3>2
      <4>2. b = Probe(key[p], size[p] * attempt[p] + e)
        BY <2>1, <2>2, <4>1, HereIsProbe
      <4>3. size[p] * attempt[p] \in Nat
        BY <2>2
      <4>4. size[p] * attempt[p] + e \in 0 .. Dist(p) - 1
        BY <2>2, <4>1, <4>3 DEF Dist
      <4> QED
        BY <4>2, <4>4
    <3> QED
      BY <3>1, <3>2 DEF Passed
  <2> QED
    BY <2>1, <2>3 DEF PassedBy
<1> QED
  BY <1>1, InvHolds, PTL

\* The program gives up only when no bucket within reach of the node is free.
THEOREM FullIsFullHolds == Spec => []FullIsFull
<1>1. Init => FullIsFull
  BY DEF Init, FullIsFull
<1>2. ASSUME Inv, FullIsFull, [Next]_vars PROVE FullIsFull'
  <2>1. CASE UNCHANGED vars
    BY <1>2, <2>1 DEF vars, FullIsFull, Attempts, StorageAddr
  <2>2. CASE Next
    <3>1. ~full
      BY <2>2 DEF Next
    <3>2. ASSUME NEW p \in Thread, GiveUp(p) PROVE FullIsFull'
      <4>1. /\ pc[p] = "scan" /\ pos[p] = size[p] /\ attempt[p] + 1 >= Attempts(size[p])
            /\ UNCHANGED <<index, pc, key, size>>
        BY <3>2 DEF GiveUp, ChunkDone
      <4>2. TypeOK /\ Control(p) /\ PassedBy(p) /\ Calling(p)
        BY <1>2, <4>1 DEF Inv, Local, Calling
      <4>3. size[p] \in 1 .. BlockSize /\ attempt[p] \in Nat /\ size[p] \in Nat
        BY <4>2, TableAssumption DEF Control, TypeOK
      <4>4. Attempts(size[p]) \in Nat
        <5>1. MaxProbe \in Nat /\ size[p] \in Nat \ {0}
          BY <4>3, TableAssumption
        <5>2. MaxProbe \div size[p] \in Int
          BY <5>1
        <5> QED
          BY <5>2 DEF Attempts
      <4>5. size[p] * Attempts(size[p]) <= Dist(p)
        <5>1. size[p] * Attempts(size[p]) <= size[p] * (attempt[p] + 1)
          BY <4>1, <4>3, <4>4
        <5>2. size[p] * (attempt[p] + 1) = size[p] * attempt[p] + size[p]
          BY <4>3
        <5> QED
          BY <4>1, <5>1, <5>2 DEF Dist
      <4>6. size[p] * Attempts(size[p]) \in Nat /\ Dist(p) \in Nat
        BY <4>1, <4>3, <4>4 DEF Dist
      <4>7. ASSUME NEW e \in 0 .. size[p] * Attempts(size[p]) - 1
            PROVE  index[StorageAddr((HashOf[key[p]] + e) % Width)] # None
        <5>1. e \in 0 .. Dist(p) - 1
          BY <4>5, <4>6
        <5> QED
          BY <4>2, <5>1 DEF PassedBy, Probe
      <4> QED
        BY <4>1, <4>7 DEF FullIsFull, Attempts, StorageAddr
    <3>3. ASSUME NEW p \in Thread, NEW k \in Key, NEW c \in ChunkSizes, Begin(p, k, c)
          PROVE  FullIsFull'
      BY <3>1, <3>3 DEF Begin, FullIsFull
    <3>4. ASSUME NEW p \in Thread, Work(p), ~GiveUp(p) PROVE FullIsFull'
      <4>1. full' = full
        BY <3>4 DEF Work, Fetch, Fetched, ScanOccupied, ClaimWon, ClaimLost, Skip, Inspect,
                    CompareEqual, CompareDiffers, Return, NextChunk
      <4> QED
        BY <3>1, <4>1 DEF FullIsFull
    <3> QED
      BY <2>2, <3>2, <3>3, <3>4 DEF Next
  <2> QED
    BY <1>2, <2>1, <2>2
<1> QED
  BY <1>1, <1>2, InvHolds, PTL DEF Spec

-----------------------------------------------------------------------------
(* Find-or-put is atomic: HashTable implements NodeTable *)

Table == [k \in Key |-> RefOf(k)]
Call == [p \in Thread |-> IF pc[p] = "idle" THEN None ELSE key[p]]

\* The lookup of a node in any index and data array.
Lookup(ix, dt, k) ==
  IF \E b \in Bucket : ix[b] # None /\ dt[ix[b].ref] = k
  THEN ix[CHOOSE b \in Bucket : ix[b] # None /\ dt[ix[b].ref] = k].ref ELSE None

LEMMA LookupHeld ==
  ASSUME NEW ix, NEW dt, NEW k, NEW b \in Bucket, ix[b] # None, dt[ix[b].ref] = k,
         \A x \in Bucket : ix[x] # None /\ dt[ix[x].ref] = k => x = b
  PROVE  Lookup(ix, dt, k) = ix[b].ref
<1> DEFINE c == CHOOSE x \in Bucket : ix[x] # None /\ dt[ix[x].ref] = k
<1>1. c \in Bucket /\ ix[c] # None /\ dt[ix[c].ref] = k
  OBVIOUS
<1>2. c = b
  BY <1>1
<1> QED
  BY <1>2 DEF Lookup

LEMMA RefOfLookup ==
  ASSUME NEW k
  PROVE  RefOf(k) = Lookup(index, data, k) /\ RefOf(k)' = Lookup(index', data', k)
  BY DEF RefOf, Lookup, Holds

\* A node in the table has the reference of the bucket that holds it.
LEMMA RefOfHeld ==
  ASSUME Unique, NEW b \in Bucket, NEW k \in Key, Holds(b, k)
  PROVE  RefOf(k) = index[b].ref
<1>1. \A x \in Bucket : index[x] # None /\ data[index[x].ref] = k => x = b
  BY DEF Unique, Holds
<1>2. index[b] # None /\ data[index[b].ref] = k
  BY DEF Holds
<1>3. Lookup(index, data, k) = index[b].ref
  BY <1>1, <1>2, LookupHeld
<1> QED
  BY <1>3, RefOfLookup

LEMMA RefOfHeldNext ==
  ASSUME Unique', NEW b \in Bucket, NEW k \in Key, Holds(b, k)'
  PROVE  RefOf(k)' = index'[b].ref
<1>1. \A x \in Bucket : index'[x] # None /\ data'[index'[x].ref] = k => x = b
  BY DEF Unique, Holds
<1>2. index'[b] # None /\ data'[index'[b].ref] = k
  BY DEF Holds
<1>3. Lookup(index', data', k) = index'[b].ref
  BY <1>1, <1>2, LookupHeld
<1> QED
  BY <1>3, RefOfLookup

LEMMA RefOfFree ==
  ASSUME NEW k \in Key, \A b \in Bucket : ~Holds(b, k)
  PROVE  RefOf(k) = None
  BY DEF RefOf

\* A node keeps its reference.
LEMMA RefOfStays ==
  ASSUME Unique, Unique', Stable, NEW k \in Key,
         \A b \in Bucket : Holds(b, k)' <=> Holds(b, k)
  PROVE  RefOf(k)' = RefOf(k)
<1>1. CASE \E b \in Bucket : Holds(b, k)
  <2>1. PICK b \in Bucket : Holds(b, k) /\ Holds(b, k)'
    BY <1>1
  <2>2. RefOf(k) = index[b].ref /\ RefOf(k)' = index'[b].ref
    BY <2>1, RefOfHeld, RefOfHeldNext
  <2>3. index'[b] = index[b]
    BY <2>1 DEF Stable, Holds
  <2> QED
    BY <2>2, <2>3
<1>2. CASE \A b \in Bucket : ~Holds(b, k)
  <2>1. RefOf(k) = None
    BY <1>2 DEF RefOf
  <2>2. RefOf(k)' = None
    BY <1>2 DEF RefOf
  <2> QED
    BY <2>1, <2>2
<1> QED
  BY <1>1, <1>2

\* Steps that change neither the index nor a stored node.
LEMMA TableSame ==
  ASSUME Inv, Inv', Stable, UNCHANGED index
  PROVE  Table' = Table
<1>1. ASSUME NEW k \in Key PROVE RefOf(k)' = RefOf(k)
  <2>1. \A b \in Bucket : Holds(b, k)' <=> Holds(b, k)
    BY DEF Stable, Holds
  <2> QED
    BY <2>1, RefOfStays DEF Inv
<1> QED
  BY <1>1 DEF Table

LEMMA AnswerStep ==
  ASSUME Inv, NEW p \in Thread, pc[p] # "idle", NEW r, NEW how, Return(p, r, how)
  PROVE  /\ Call[p] = key[p]
         /\ Call' = [Call EXCEPT ![p] = None]
         /\ answer' = [answer EXCEPT ![p] = [key |-> Call[p], ref |-> r, inserted |-> how]]
<1>1. pc' = [pc EXCEPT ![p] = "idle"] /\ key' = [key EXCEPT ![p] = None]
  BY DEF Return
<1>2. Call[p] = key[p]
  BY DEF Call
<1>3. Call' = [Call EXCEPT ![p] = None]
  BY <1>1 DEF Call, Inv, TypeOK
<1> QED
  BY <1>2, <1>3 DEF Return

LEMMA Refines ==
  ASSUME Inv, [Next]_vars
  PROVE  [NT!Next]_NT!ntVars
<1> SUFFICES NT!Next \/ (Table' = Table /\ Call' = Call /\ answer' = answer)
  BY DEF NT!ntVars, Table, Call
<1>1. Inv' /\ Stable
  BY InvNext
<1>2. CASE UNCHANGED vars
  <2>1. Table' = Table
    BY <1>1, <1>2, TableSame DEF vars
  <2>2. Call' = Call /\ answer' = answer
    BY <1>2 DEF vars, Call
  <2> QED
    BY <2>1, <2>2
<1>3. ASSUME NEW p \in Thread, NEW k \in Key, NEW c \in ChunkSizes, Begin(p, k, c)
      PROVE  NT!Next
  <2>1. Table' = Table
    BY <1>1, <1>3, TableSame DEF Begin
  <2>2. Call[p] = None /\ Call' = [Call EXCEPT ![p] = k]
    BY <1>3 DEF Begin, Call, Inv, TypeOK
  <2>3. answer' = [answer EXCEPT ![p] = None]
    BY <1>3 DEF Begin
  <2>4. NT!Call(p, k)
    BY <2>1, <2>2, <2>3 DEF NT!Call, Table, Call
  <2> QED
    BY <2>4 DEF NT!Next
<1>4. ASSUME NEW p \in Thread, ClaimWon(p) PROVE NT!Next
  <2> DEFINE K == key[p]
             R == MyRef(p)
  <2>1. /\ K \in Key /\ Here(p) \in Bucket /\ index'[Here(p)].ref = R
        /\ R[1] = p /\ R[2] = used[p] /\ used[p] \in Nat
        /\ \A b \in Bucket : \A k :
             Holds(b, k)' <=> IF b = Here(p) THEN k = K ELSE Holds(b, k)
    BY <1>4, ClaimFacts
  <2>2. \A b \in Bucket : ~Holds(b, K)
    BY <1>4, NotThere
  <2>3. Call[p] = K /\ Call' = [Call EXCEPT ![p] = None]
        /\ answer' = [answer EXCEPT ![p] = [key |-> Call[p], ref |-> R, inserted |-> TRUE]]
    BY <1>4, AnswerStep DEF ClaimWon, Scanning
  <2>4. R \in Ref
    BY <1>4, MyRefType DEF Inv, Local, Control, Calling, ClaimWon, Scanning
  <2>5. Table[K] = None
    BY <2>1, <2>2, RefOfFree DEF Table
  <2>6. ASSUME NEW k \in Key PROVE Table[k] # R
    <3>1. CASE \E b \in Bucket : Holds(b, k)
      <4>1. PICK b \in Bucket : Holds(b, k)
        BY <3>1
      <4>2. RefOf(k) = index[b].ref /\ index[b] # None
        BY <4>1, RefOfHeld DEF Inv, Holds
      <4>3. index[b].ref[2] < used[index[b].ref[1]]
        BY <4>2 DEF Inv, Published
      <4>4. index[b].ref # R
        BY <2>1, <4>3
      <4> QED
        BY <4>2, <4>4 DEF Table
    <3>2. CASE \A b \in Bucket : ~Holds(b, k)
      BY <2>4, <3>2, RefOfFree, NoneAssumption DEF Table
    <3> QED
      BY <3>1, <3>2
  <2>7. Table' = [Table EXCEPT ![K] = R]
    <3>1. ASSUME NEW k \in Key, k = K, NEW h \in Bucket, h = Here(p), NEW r, r = R
          PROVE  RefOf(k)' = r
      <4>1. Holds(h, k)' /\ index'[h].ref = r
        BY <2>1, <3>1
      <4> QED
        BY <1>1, <4>1, RefOfHeldNext DEF Inv
    <3>2. ASSUME NEW k \in Key, k # K PROVE RefOf(k)' = RefOf(k)
      <4>1. \A b \in Bucket : Holds(b, k)' <=> Holds(b, k)
        <5>1. ~Holds(Here(p), k)
          BY <1>4 DEF ClaimWon, Holds
        <5> QED
          BY <2>1, <3>2, <5>1
      <4> QED
        BY <1>1, <4>1, RefOfStays DEF Inv
    <3>3. \A k \in Key : RefOf(k)' = IF k = K THEN R ELSE RefOf(k)
      BY <2>1, <3>1, <3>2
    <3>4. Table' = [k \in Key |-> RefOf(k)']
      BY DEF Table
    <3>5. Table = [k \in Key |-> RefOf(k)]
      BY DEF Table
    <3> HIDE DEF K, R
    <3> QED
      BY <3>3, <3>4, <3>5
  <2>8. NT!Insert(p, R)
    BY <2>1, <2>3, <2>5, <2>6, <2>7 DEF NT!Insert, NT!Answer, Table, Call
  <2> QED
    BY <2>4, <2>8 DEF NT!Next
<1>5. ASSUME NEW p \in Thread, CompareEqual(p) PROVE NT!Next
  <2>1. key[p] \in Key /\ Control(p) /\ Comparing(p) /\ TypeOK /\ Unique
    BY <1>5 DEF Inv, Local, Control, Calling, CompareEqual
  <2>2. Probe(key[p], Dist(p)) \in Bucket
    BY <2>1, HereIsProbe, ProbeType
  <2>3. Holds(Probe(key[p], Dist(p)), key[p]) /\ cand[p] = index[Probe(key[p], Dist(p))].ref
    BY <1>5, <2>1 DEF Comparing, CompareEqual, Holds
  <2>4. Table[key[p]] = cand[p]
    BY <2>1, <2>2, <2>3, RefOfHeld DEF Table
  <2>5. cand[p] # None
    <3>1. index[Probe(key[p], Dist(p))] \in Entry
      BY <2>1, <2>2, <2>3 DEF TypeOK, Holds
    <3>2. cand[p] \in Ref
      BY <2>3, <3>1 DEF Entry
    <3> QED
      BY <3>2, NoneAssumption
  <2>6. Call[p] = key[p] /\ Call' = [Call EXCEPT ![p] = None]
        /\ answer' = [answer EXCEPT ![p] = [key |-> Call[p], ref |-> cand[p], inserted |-> FALSE]]
    BY <1>5, AnswerStep DEF CompareEqual
  <2>7. Table' = Table
    BY <1>1, <1>5, TableSame DEF CompareEqual
  <2>8. NT!Find(p)
    BY <2>1, <2>4, <2>5, <2>6, <2>7 DEF NT!Find, NT!Answer, Table, Call
  <2> QED
    BY <2>8 DEF NT!Next
\* Every other step of a lookup is internal.
<1>6. ASSUME NEW p \in Thread, Work(p), ~ClaimWon(p), ~CompareEqual(p)
      PROVE  Table' = Table /\ Call' = Call /\ answer' = answer
  <2>1. /\ UNCHANGED <<index, answer, key>>
        /\ pc[p] # "idle"
        /\ \/ pc' = pc
           \/ \E l \in {"fetch", "scan", "compare"} : pc' = [pc EXCEPT ![p] = l]
    BY <1>6 DEF Work, Fetch, Fetched, ScanOccupied, ClaimLost, Scanning, Skip, Inspect,
                CompareDiffers, NextChunk, ChunkDone, GiveUp
  <2>2. \A q \in Thread : (pc'[q] = "idle") <=> (pc[q] = "idle")
    BY <2>1 DEF Inv, TypeOK
  <2>3. Call' = Call
    BY <2>1, <2>2 DEF Call
  <2> QED
    BY <1>1, <2>1, <2>3, TableSame
<1> QED
  BY <1>2, <1>3, <1>4, <1>5, <1>6 DEF Next

LEMMA RefinesInit == Init => NT!Init
<1> SUFFICES ASSUME Init PROVE NT!Init
  OBVIOUS
<1>1. \A k \in Key : RefOf(k) = None
  BY DEF Init, RefOf, Holds
<1> QED
  BY <1>1 DEF Init, NT!Init

\* Find-or-put is atomic, for any number of threads: HashTable implements
\* NodeTable, in which equal nodes get equal references.
THEOREM ImplementsHolds == Spec => ImplementsNodeTable
<1>1. Inv /\ [Next]_vars => [NT!Next]_NT!ntVars
  BY Refines
<1> QED
  BY RefinesInit, <1>1, InvHolds, PTL DEF Spec, ImplementsNodeTable, NT!Spec

=============================================================================
