--------------------------- MODULE ChunkDirProofs ---------------------------
(* Theorems about ChunkDir, for any invocation of the script. *)
EXTENDS ChunkDir, SequenceTheorems, TLAPS

-----------------------------------------------------------------------------
(* Arithmetic of the layout *)

\* A chunk with its padding takes whole words, and render pads by what calculate
\* has rounded up.
LEMMA Words ==
  ASSUME NEW l \in Nat
  PROVE  /\ RoundUp(l) \in Nat /\ RoundUp(l) >= l /\ RoundUp(l) % 4 = 0
         /\ PadTo4(l) \in Nat /\ l + PadTo4(l) = RoundUp(l)
BY SMT DEF RoundUp, PadTo4

LEMMA SumOfWords ==
  ASSUME NEW a \in Nat, NEW b \in Nat, a % 4 = 0, b % 4 = 0
  PROVE  (a + b) % 4 = 0
BY SMT

LEMMA FirstWord ==
  ASSUME NEW j \in Job, NEW n \in Nat
  PROVE  FirstAddr(j, n) \in Nat /\ FirstAddr(j, n) % 4 = 0
BY SMT DEF FirstAddr, HeaderLen, EntryLen

LEMMA PadIsNat ==
  ASSUME NEW l \in Nat, NEW r \in Nat, r > 0
  PROVE  (r - (l % r)) % r \in Nat
<1>1. l % r \in 0 .. r - 1 BY SMT
<1>2. r - (l % r) \in Int BY <1>1
<1> DEFINE x == r - (l % r)
<1>3. x \in Int BY <1>2
<1> HIDE DEF x
<1>4. x % r \in 0 .. r - 1 BY <1>3, SMT
<1> QED BY <1>4 DEF x

\* A byte of a chunk that lies within the data laid out so far.
LEMMA Within ==
  ASSUME NEW a \in Nat, NEW b \in Nat, NEW s \in Nat, NEW l \in Nat,
         a >= b, a + s <= b + l, NEW at \in 0 .. s - 1
  PROVE  a - b + 1 + at \in 1 .. l
BY SMT

LEMMA Displaced ==
  ASSUME NEW a \in Int, NEW at \in Int, NEW h \in Int, NEW e \in Int
  PROVE  (a + at) - h - e + 1 = a - (h + e) + 1 + at
BY SMT

LEMMA SmallMod ==
  ASSUME NEW s \in Nat, NEW m \in Nat, s < m
  PROVE  s % m = s
BY SMT

\* What is added reaches the next multiple, and is less than one.
LEMMA PadRounds ==
  ASSUME NEW l \in Nat, NEW r \in Nat, r > 0
  PROVE  LET p == (r - (l % r)) % r IN (l + p) % r = 0 /\ p < r /\ p \in Nat
<1> DEFINE m == l % r
           q == l \div r
<1>1. l = r * q + m /\ q \in Nat /\ m \in 0 .. r - 1 BY SMT
<1>2. \A n \in Nat : (r * n) % r = 0 BY SMT
<1> HIDE DEF m, q
<1>3. CASE m = 0
  <2>1. (r - m) % r = 0 BY <1>3, SMT
  <2>2. l + 0 = r * q BY <1>1, <1>3, SMT
  <2> QED BY <1>1, <1>2, <2>1, <2>2 DEF m
<1>4. CASE m # 0
  <2>1. r - m \in 1 .. r - 1 BY <1>1, <1>4, SMT
  <2>2. (r - m) % r = r - m BY <2>1, SMT
  <2>3. (r * q + m) + (r - m) = r * (q + 1) BY <1>1, SMT
  <2>4. (l + (r - m)) % r = 0 /\ q + 1 \in Nat BY <1>1, <1>2, <2>3
  <2> QED BY <2>1, <2>2, <2>4, SMT DEF m
<1> QED BY <1>3, <1>4

-----------------------------------------------------------------------------
(* What is asked for *)

Chunk == [osib : Nat \ {0}, size : Nat \cup {NoFile}]

LEMMA ChunksType ==
  ASSUME NEW j \in Job
  PROVE  Chunks(j) \in Seq(Chunk)
<1>1. ASSUME NEW o \in TextOptions, NEW d \in 1 .. 6
      PROVE  Text(j, o, d) \in Seq(Chunk)
  <2>1. j.texts[o] \in Nat BY DEF Job
  <2>2. CASE j.texts[o] = 0
    <3>1. Text(j, o, d) = <<>> BY <2>2 DEF Text
    <3> QED BY <3>1, EmptySeq
  <2>3. CASE j.texts[o] # 0
    <3> DEFINE c == [osib |-> Osib(15, d), size |-> j.texts[o] + 1]
    <3>1. c \in Chunk BY <2>1 DEF Chunk, Osib
    <3>2. Text(j, o, d) = <<c>> BY <2>3 DEF Text
    <3> HIDE DEF c
    <3> QED BY <3>1, <3>2
  <2> QED BY <2>2, <2>3
<1>2. Loader(j) \in Seq(Chunk)
  <2>1. j.loader \in Seq(Nat \cup {NoFile}) BY DEF Job
  <2>2. Len(j.loader) \in Nat /\ DOMAIN j.loader = 1 .. Len(j.loader) BY <2>1
  <2>3. \A k \in 1 .. Len(j.loader) : j.loader[k] \in Nat \cup {NoFile}
    BY <2>1, ElementOfSeq
  <2>4. Loader(j) \in [1 .. Len(j.loader) -> Chunk]
    BY <2>2, <2>3 DEF Loader, Chunk, Osib
  <2> QED BY <2>2, <2>4, SeqDef
<1>3. Modules(j) \in Seq(Chunk)
  <2>1. j.modules \in Seq(Nat \cup {NoFile}) BY DEF Job
  <2>2. Len(j.modules) \in Nat /\ DOMAIN j.modules = 1 .. Len(j.modules) BY <2>1
  <2>3. \A k \in 1 .. Len(j.modules) : j.modules[k] \in Nat \cup {NoFile}
    BY <2>1, ElementOfSeq
  <2>4. Modules(j) \in [1 .. Len(j.modules) -> Chunk]
    BY <2>2, <2>3 DEF Modules, Chunk, Osib
  <2> QED BY <2>2, <2>4, SeqDef
<1>4. /\ Text(j, "descr", 5) \in Seq(Chunk) /\ Text(j, "date", 2) \in Seq(Chunk)
      /\ Text(j, "serial", 1) \in Seq(Chunk) /\ Text(j, "mod", 3) \in Seq(Chunk)
      /\ Text(j, "place", 4) \in Seq(Chunk)
  BY <1>1 DEF TextOptions
<1> QED BY <1>2, <1>3, <1>4 DEF Chunks

\* A chunk of a legal invocation has a size.
LEMMA LegalSizes ==
  ASSUME NEW j \in Job, Legal(j)
  PROVE  /\ Len(Chunks(j)) \in Nat
         /\ DOMAIN Chunks(j) = 1 .. Len(Chunks(j))
         /\ \A k \in 1 .. Len(Chunks(j)) :
              Chunks(j)[k].size \in Nat /\ Chunks(j)[k].osib \in Nat \ {0}
<1>1. Chunks(j) \in Seq(Chunk) BY ChunksType
<1>2. Len(Chunks(j)) \in Nat /\ DOMAIN Chunks(j) = 1 .. Len(Chunks(j)) BY <1>1
<1>3. ASSUME NEW k \in 1 .. Len(Chunks(j))
      PROVE  Chunks(j)[k].size \in Nat /\ Chunks(j)[k].osib \in Nat \ {0}
  <2>1. Chunks(j)[k] \in Chunk BY <1>1, <1>3, ElementOfSeq
  <2>2. Chunks(j)[k].size # NoFile BY <1>2, <1>3 DEF Legal
  <2> QED BY <2>1, <2>2 DEF Chunk
<1> QED BY <1>2, <1>3

-----------------------------------------------------------------------------
(* The invariant *)

\* Where entry k ends, as calculate counts; entry 0 stands for the directory.
After(k) ==
  IF k = 0 THEN FirstAddr(job, Len(entries))
  ELSE entries[k].addr + RoundUp(entries[k].size)

\* The first n entries follow one another.
Chained(n) == \A k \in 1 .. n : entries[k].addr = After(k - 1)

\* From the add* calls on the entries are the chunks asked for.
Counted ==
  pc \in {"describe", "calculate", "render", "done"} =>
    /\ Legal(job)
    /\ Len(entries) = Len(Chunks(job))
    /\ \A k \in 1 .. Len(entries) :
         entries[k].osib = Chunks(job)[k].osib /\ entries[k].size = Chunks(job)[k].size

Calculating ==
  pc \in {"describe", "calculate"} => addr = After(i - 1) /\ Chained(i - 1)

Base == FirstAddr(job, Len(entries))

\* What render has laid out so far is where calculate said it would be.
Rendering ==
  pc \in {"render", "done"} =>
    /\ Chained(Len(entries))
    /\ Len(dir) = Len(entries) + 1
    /\ Base + Len(payloads) = After(i - 1)
    /\ \A k \in 1 .. i - 1 :
         /\ dir[k] = [osib |-> entries[k].osib, size |-> entries[k].size % SizeLimit,
                      addr |-> entries[k].addr]
         /\ entries[k].addr >= Base
         /\ entries[k].addr + entries[k].size <= Base + Len(payloads)
         /\ \A at \in 0 .. entries[k].size - 1 :
              payloads[entries[k].addr - Base + 1 + at] = ByteOf(k, at)

Finished ==
  pc = "done" => i = Len(entries) + 1 /\ dir[i] = NullEntry

LayoutInv == TypeOK /\ Counted /\ Calculating /\ Rendering /\ Finished

\* Padding is counted from an output that has none.
Padded == (pc # "done" => padding = 0) /\ RoundedUp

PaddedInv == LayoutInv /\ Padded

-----------------------------------------------------------------------------
(* Types *)

LEMMA TypeInit == Init => TypeOK
<1> SUFFICES ASSUME Init PROVE TypeOK OBVIOUS
<1>1. entries \in Seq(Entry) /\ dir \in Seq(Entry) /\ Len(entries) = 0
  BY EmptySeq DEF Init
<1>2. payloads \in Seq([chunk : Nat, at : Nat]) BY EmptySeq DEF Init
<1> QED BY <1>1, <1>2, SMT DEF Init, TypeOK

\* Two sequences in turn have the bytes of the first, then those of the second.
LEMMA Appended ==
  ASSUME NEW S, NEW s \in Seq(S), NEW t \in Seq(S)
  PROVE  /\ s \o t \in Seq(S)
         /\ Len(s \o t) = Len(s) + Len(t)
         /\ Len(s) \in Nat /\ Len(t) \in Nat
         /\ \A k \in 1 .. Len(s) : (s \o t)[k] = s[k]
         /\ \A k \in 1 .. Len(t) : (s \o t)[Len(s) + k] = t[k]
<1>1. Len(s) \in Nat /\ Len(t) \in Nat OBVIOUS
<1>2. /\ s \o t \in Seq(S)
      /\ Len(s \o t) = Len(s) + Len(t)
      /\ \A k \in 1 .. Len(s) + Len(t) :
           (s \o t)[k] = IF k <= Len(s) THEN s[k] ELSE t[k - Len(s)]
  BY ConcatProperties
<1>3. ASSUME NEW k \in 1 .. Len(t) PROVE (s \o t)[Len(s) + k] = t[k]
  <2>1. Len(s) + k \in 1 .. Len(s) + Len(t) /\ ~(Len(s) + k <= Len(s))
    BY <1>1, SMT
  <2>2. Len(s) + k - Len(s) = k BY <1>1, SMT
  <2> QED BY <1>2, <2>1, <2>2
<1>4. ASSUME NEW k \in 1 .. Len(s) PROVE (s \o t)[k] = s[k]
  <2>1. k \in 1 .. Len(s) + Len(t) /\ k <= Len(s) BY <1>1, SMT
  <2> QED BY <1>2, <2>1
<1> QED BY <1>1, <1>2, <1>3, <1>4

\* The data of an entry, and its length.
LEMMA DataType ==
  ASSUME NEW k \in Nat, entries[k].size \in Nat
  PROVE  /\ Data(k) \in Seq([chunk : Nat, at : Nat])
         /\ Len(Data(k)) = RoundUp(entries[k].size)
         /\ \A at \in 0 .. entries[k].size - 1 : Data(k)[at + 1] = ByteOf(k, at)
<1> DEFINE n == entries[k].size + PadTo4(entries[k].size)
<1>1. n \in Nat /\ n = RoundUp(entries[k].size) BY Words
<1>2. entries[k].size <= n BY Words
<1>3. ASSUME NEW x \in 1 .. n
      PROVE  (IF x <= entries[k].size THEN ByteOf(k, x - 1) ELSE Zero)
                \in [chunk : Nat, at : Nat]
  BY <1>1 DEF ByteOf, Zero
<1> HIDE DEF n
<1>4. Data(k) = [x \in 1 .. n |-> IF x <= entries[k].size THEN ByteOf(k, x - 1)
                                                          ELSE Zero]
  BY DEF Data, n
<1>5. Data(k) \in [1 .. n -> [chunk : Nat, at : Nat]] BY <1>3, <1>4
<1>6. Data(k) \in Seq([chunk : Nat, at : Nat])
  <2> DEFINE S == [chunk : Nat, at : Nat]
  <2>1. Data(k) \in [1 .. n -> S] BY <1>5
  <2> HIDE DEF S
  <2>2. Data(k) \in Seq(S) BY <1>1, <2>1, SeqDef
  <2> QED BY <2>2 DEF S
<1>7. Len(Data(k)) = n BY <1>1, <1>5, <1>6
<1>8. ASSUME NEW at \in 0 .. entries[k].size - 1
      PROVE  Data(k)[at + 1] = ByteOf(k, at)
  <2>1. at + 1 \in 1 .. n /\ at + 1 <= entries[k].size /\ at + 1 - 1 = at
    BY <1>1, <1>2, SMT
  <2> QED BY <1>4, <2>1
<1> QED BY <1>1, <1>6, <1>7, <1>8

-----------------------------------------------------------------------------
(* Each action *)

LEMMA InvInit == Init => LayoutInv
<1> SUFFICES ASSUME Init PROVE LayoutInv OBVIOUS
<1>1. TypeOK BY TypeInit
<1>2. pc = "add" BY DEF Init
<1> QED BY <1>1, <1>2 DEF LayoutInv, Counted, Calculating, Rendering, Finished

\* What TypeOK says of the sequences, element by element.
LEMMA Elements ==
  ASSUME TypeOK
  PROVE  /\ job \in Job
         /\ Len(entries) \in Nat /\ DOMAIN entries = 1 .. Len(entries)
         /\ i \in Nat /\ i >= 1 /\ i <= Len(entries) + 1
         /\ \A k \in 1 .. Len(entries) :
              entries[k] \in Entry /\ entries[k].addr % 4 = 0
         /\ Len(dir) \in Nat /\ DOMAIN dir = 1 .. Len(dir)
         /\ \A k \in 1 .. Len(dir) : dir[k] \in Entry
         /\ Len(payloads) \in Nat
         /\ addr \in Nat /\ addr % 4 = 0
<1>1. job \in Job BY ChunkAssumption DEF TypeOK
<1>2. entries \in Seq(Entry) /\ dir \in Seq(Entry) BY DEF TypeOK
<1>3. Len(entries) \in Nat /\ DOMAIN entries = 1 .. Len(entries) BY <1>2
<1>4. Len(dir) \in Nat /\ DOMAIN dir = 1 .. Len(dir) BY <1>2
<1>5. \A k \in 1 .. Len(entries) : entries[k] \in Entry /\ entries[k].addr % 4 = 0
  BY <1>2, <1>3, ElementOfSeq DEF TypeOK
<1>6. \A k \in 1 .. Len(dir) : dir[k] \in Entry BY <1>2, <1>4, ElementOfSeq
<1>7. Len(payloads) \in Nat BY DEF TypeOK
<1>8. i \in Nat /\ i >= 1 /\ i <= Len(entries) + 1 BY <1>3, SMT DEF TypeOK
<1> QED BY <1>1, <1>3, <1>4, <1>5, <1>6, <1>7, <1>8 DEF TypeOK

\* Where an entry ends is known, and on a word boundary.
LEMMA AfterIsWord ==
  ASSUME TypeOK, NEW k \in 0 .. Len(entries)
  PROVE  After(k) \in Nat /\ After(k) % 4 = 0
<1>1. CASE k = 0
  BY <1>1, FirstWord, Elements DEF After
<1>2. CASE k # 0
  <2>1. k \in 1 .. Len(entries) BY <1>2, Elements, SMT
  <2>2. entries[k] \in Entry /\ entries[k].addr % 4 = 0 BY <2>1, Elements
  <2>3. entries[k].addr \in Nat /\ entries[k].size \in Nat BY <2>2 DEF Entry
  <2>4. RoundUp(entries[k].size) \in Nat /\ RoundUp(entries[k].size) % 4 = 0
    BY <2>3, Words
  <2>5. After(k) = entries[k].addr + RoundUp(entries[k].size) BY <1>2 DEF After
  <2>6. (entries[k].addr + RoundUp(entries[k].size)) % 4 = 0
    BY <2>2, <2>3, <2>4, SumOfWords
  <2> QED BY <2>3, <2>4, <2>5, <2>6
<1> QED BY <1>1, <1>2

LEMMA AddAllKeeps ==
  ASSUME LayoutInv, AddAll PROVE LayoutInv'
<1> USE DEF LayoutInv, AddAll
<1> DEFINE chunks == Chunks(job)
<1>1. job \in Job /\ Legal(job) BY Elements
<1>2. /\ Len(chunks) \in Nat /\ DOMAIN chunks = 1 .. Len(chunks)
      /\ \A k \in 1 .. Len(chunks) :
           chunks[k].size \in Nat /\ chunks[k].osib \in Nat \ {0}
  BY <1>1, LegalSizes
<1>3. entries' = [k \in 1 .. Len(chunks) |->
                    [osib |-> chunks[k].osib, size |-> chunks[k].size, addr |-> 0]]
  BY <1>2
<1>4. job' = job /\ pc' = "describe" /\ i' = 1 /\ addr' = FirstAddr(job, Len(chunks))
      /\ dir' = dir /\ payloads' = payloads /\ padding' = padding
  OBVIOUS
<1> HIDE DEF chunks
<1>5. entries' \in [1 .. Len(chunks) -> Entry] BY <1>2, <1>3 DEF Entry
<1>6. entries' \in Seq(Entry)
  <2> DEFINE S == Entry
  <2>1. entries' \in [1 .. Len(chunks) -> S] BY <1>5
  <2> HIDE DEF S
  <2>2. entries' \in Seq(S) BY <1>2, <2>1, SeqDef
  <2> QED BY <2>2 DEF S
<1>7. Len(entries') = Len(chunks) /\ DOMAIN entries' = 1 .. Len(chunks)
  BY <1>2, <1>5, <1>6
<1>8. \A k \in 1 .. Len(chunks) : entries'[k].addr % 4 = 0
  <2>1. \A k \in 1 .. Len(chunks) : entries'[k].addr = 0 BY <1>3
  <2> QED BY <2>1, SMT
<1>9. addr' \in Nat /\ addr' % 4 = 0 BY <1>1, <1>2, <1>4, FirstWord
<1>10. TypeOK'
  <2>1. i' \in 1 .. Len(entries') + 1 BY <1>2, <1>4, <1>7, SMT
  <2> QED BY <1>4, <1>6, <1>7, <1>8, <1>9, <2>1 DEF TypeOK
<1>11. Counted'
  <2>1. chunks' = chunks BY <1>4, ZenonT(30) DEF chunks, Chunks, Text, Loader, Modules
  <2>2. Legal(job)' BY <1>1, <1>4
  <2> QED BY <1>3, <1>7, <2>1, <2>2 DEF Counted, chunks
<1>12. Calculating'
  <2>1. After(i - 1)' = FirstAddr(job, Len(chunks))
    BY <1>4, <1>7 DEF After, FirstAddr, HeaderLen
  <2>2. Chained(i - 1)' BY <1>4, SMT DEF Chained
  <2> QED BY <1>4, <2>1, <2>2 DEF Calculating
<1> QED BY <1>4, <1>10, <1>11, <1>12 DEF Rendering, Finished

LEMMA FatalKeeps ==
  ASSUME LayoutInv, Fatal PROVE LayoutInv'
<1>1. TypeOK' BY DEF LayoutInv, Fatal, TypeOK
<1> QED BY <1>1 DEF LayoutInv, Fatal, Counted, Calculating, Rendering, Finished

\* A step of calculate gives entry i the running address, and moves it on.
LEMMA CalculateKeeps ==
  ASSUME LayoutInv, Calculate PROVE LayoutInv'
<1> USE DEF LayoutInv
<1>1. /\ pc \in {"describe", "calculate"} /\ i \in 1 .. Len(entries)
      /\ pc' = pc /\ i' = i + 1 /\ addr' = addr + RoundUp(entries[i].size)
      /\ entries' = [entries EXCEPT ![i].addr = addr]
      /\ job' = job /\ dir' = dir /\ payloads' = payloads /\ padding' = padding
  <2>1. i \in 1 .. Len(entries) BY Elements, SMT DEF Calculate
  <2> QED BY <2>1 DEF Calculate
<1>2. /\ Len(entries) \in Nat /\ DOMAIN entries = 1 .. Len(entries)
      /\ \A k \in 1 .. Len(entries) : entries[k] \in Entry /\ entries[k].addr % 4 = 0
      /\ addr \in Nat /\ addr % 4 = 0
  BY Elements
<1>3. entries[i].size \in Nat BY <1>1, <1>2 DEF Entry
<1>4. RoundUp(entries[i].size) \in Nat /\ RoundUp(entries[i].size) % 4 = 0
  BY <1>3, Words
<1>5. \A k \in 1 .. Len(entries) :
        entries'[k] = IF k = i THEN [entries[k] EXCEPT !.addr = addr] ELSE entries[k]
  BY <1>1, <1>2
<1>6. /\ \A k \in 1 .. Len(entries) :
           /\ entries'[k] \in Entry
           /\ entries'[k].osib = entries[k].osib /\ entries'[k].size = entries[k].size
           /\ entries'[k].addr = IF k = i THEN addr ELSE entries[k].addr
  BY <1>2, <1>5 DEF Entry
<1>7. entries' \in Seq(Entry) /\ Len(entries') = Len(entries)
      /\ DOMAIN entries' = 1 .. Len(entries)
  <2> DEFINE S == Entry
  <2>1. DOMAIN entries' = 1 .. Len(entries) BY <1>1, <1>2
  <2>2. entries' = [k \in 1 .. Len(entries) |-> entries'[k]] BY <1>1, <1>2
  <2>3. entries' \in [1 .. Len(entries) -> S] BY <1>6, <2>2
  <2> HIDE DEF S
  <2>4. entries' \in Seq(S) BY <1>2, <2>3, SeqDef
  <2>5. Len(entries') = Len(entries) BY <1>2, <2>1, <2>4
  <2> QED BY <2>1, <2>4, <2>5 DEF S
<1>8. TypeOK'
  <2>1. i' \in 1 .. Len(entries') + 1 BY <1>1, <1>2, <1>7, SMT
  <2>2. addr' \in Nat /\ addr' % 4 = 0 BY <1>1, <1>2, <1>4, SumOfWords
  <2>3. \A k \in DOMAIN entries' : entries'[k].addr % 4 = 0
    BY <1>2, <1>6, <1>7
  <2> QED BY <1>1, <1>7, <2>1, <2>2, <2>3 DEF TypeOK
<1>9. Counted'
  <2>1. Legal(job)' /\ Chunks(job)' = Chunks(job) BY <1>1 DEF Counted
  <2> QED BY <1>1, <1>6, <1>7, <2>1 DEF Counted
<1>10. \A k \in 0 .. Len(entries) :
         After(k)' = IF k = i THEN addr + RoundUp(entries[i].size) ELSE After(k)
  <2> SUFFICES ASSUME NEW k \in 0 .. Len(entries)
               PROVE  After(k)' = IF k = i THEN addr + RoundUp(entries[i].size)
                                  ELSE After(k)
    OBVIOUS
  <2>1. CASE k = 0
    <3>1. FirstAddr(job, Len(entries))' = FirstAddr(job, Len(entries))
      BY <1>1, <1>7
    <3> QED BY <1>1, <2>1, <3>1, SMT DEF After
  <2>2. CASE k # 0
    <3>1. k \in 1 .. Len(entries) BY <1>2, <2>2, SMT
    <3> QED BY <1>6, <2>2, <3>1 DEF After
  <2> QED BY <2>1, <2>2
<1>11. Calculating'
  <2>1. addr = After(i - 1) /\ Chained(i - 1) BY <1>1 DEF Calculating
  <2>2. i' - 1 = i /\ i - 1 \in 0 .. Len(entries) /\ i - 1 # i /\ i \in 0 .. Len(entries)
    BY <1>1, <1>2, SMT
  <2>3. After(i - 1)' = addr' BY <1>1, <1>10, <2>2 DEF After
  <2>4. ASSUME NEW k \in 1 .. i PROVE entries'[k].addr = After(k - 1)'
    <3>1. k - 1 \in 0 .. Len(entries) /\ k - 1 # i /\ k \in 1 .. Len(entries)
      BY <1>1, <1>2, SMT
    <3>2. After(k - 1)' = After(k - 1) BY <1>10, <3>1
    <3>3. CASE k = i BY <1>6, <2>1, <3>1, <3>2, <3>3
    <3>4. CASE k # i
      <4>1. k \in 1 .. i - 1 BY <1>1, <3>4, SMT
      <4> QED BY <1>6, <2>1, <3>1, <3>2, <3>4, <4>1 DEF Chained
    <3> QED BY <3>3, <3>4
  <2>5. Chained(i - 1)' BY <2>2, <2>4 DEF Chained
  <2> QED BY <2>3, <2>5 DEF Calculating
<1> QED BY <1>1, <1>8, <1>9, <1>11 DEF Rendering, Finished

LEMMA DescribedKeeps ==
  ASSUME LayoutInv, Described PROVE LayoutInv'
<1> USE DEF LayoutInv
<1>1. /\ pc = "describe" /\ pc' = "calculate" /\ i' = 1
      /\ addr' = FirstAddr(job, Len(entries))
      /\ job' = job /\ entries' = entries /\ dir' = dir /\ payloads' = payloads
      /\ padding' = padding
  BY DEF Described
<1>2. job \in Job /\ Len(entries) \in Nat BY Elements
<1>3. addr' \in Nat /\ addr' % 4 = 0 BY <1>1, <1>2, FirstWord
<1>4. TypeOK'
  <2>1. i' \in 1 .. Len(entries') + 1 BY <1>1, <1>2, SMT
  <2> QED BY <1>1, <1>3, <2>1 DEF TypeOK
<1>5. Counted' BY <1>1 DEF Counted
<1>6. Calculating'
  <2>1. After(i - 1)' = FirstAddr(job, Len(entries)) BY <1>1 DEF After
  <2>2. Chained(i - 1)' BY <1>1, SMT DEF Chained
  <2> QED BY <1>1, <2>1, <2>2 DEF Calculating
<1> QED BY <1>1, <1>4, <1>5, <1>6 DEF Rendering, Finished

\* A null entry for every chunk and for the end.
LEMMA NullDir ==
  ASSUME NEW n \in Nat
  PROVE  LET d == [k \in 1 .. n |-> NullEntry]
         IN  d \in Seq(Entry) /\ Len(d) = n
<1> DEFINE S == Entry
           d == [k \in 1 .. n |-> NullEntry]
<1>1. NullEntry \in S BY DEF NullEntry, Entry
<1> HIDE DEF S
<1>2. d \in [1 .. n -> S] BY <1>1
<1>3. d \in Seq(S) BY <1>2, SeqDef
<1>4. Len(d) = n BY <1>2, <1>3
<1> QED BY <1>3, <1>4 DEF S

LEMMA CalculatedKeeps ==
  ASSUME LayoutInv, Calculated PROVE LayoutInv'
<1> USE DEF LayoutInv
<1>1. /\ pc = "calculate" /\ i > Len(entries) /\ pc' = "render" /\ i' = 1
      /\ dir' = [k \in 1 .. Len(entries) + 1 |-> NullEntry]
      /\ payloads' = <<>>
      /\ job' = job /\ entries' = entries /\ addr' = addr /\ padding' = padding
  BY DEF Calculated
<1>2. job \in Job /\ Len(entries) \in Nat BY Elements
<1>3. dir' \in Seq(Entry) /\ Len(dir') = Len(entries) + 1
  <2>1. Len(entries) + 1 \in Nat BY <1>2, SMT
  <2> QED BY <1>1, <2>1, NullDir
<1>4. payloads' \in Seq([chunk : Nat, at : Nat]) /\ Len(payloads') = 0
  BY <1>1, EmptySeq
<1>5. TypeOK'
  <2>1. i' \in 1 .. Len(entries') + 1 BY <1>1, <1>2, SMT
  <2> QED BY <1>1, <1>3, <1>4, <2>1 DEF TypeOK
<1>6. Counted' BY <1>1 DEF Counted
<1>7. Rendering'
  <2>1. i = Len(entries) + 1 BY <1>1, <1>2, Elements, SMT
  <2>2. Chained(Len(entries))
    <3>1. i - 1 = Len(entries) BY <1>2, <2>1, SMT
    <3> QED BY <1>1, <3>1 DEF Calculating
  <2>3. Chained(Len(entries))' BY <1>1, <2>2 DEF Chained, After
  <2>4. Base' = FirstAddr(job, Len(entries)) /\ FirstAddr(job, Len(entries)) \in Nat
    BY <1>1, <1>2, FirstWord DEF Base
  <2>5. After(i - 1)' = FirstAddr(job, Len(entries)) BY <1>1 DEF After
  <2>6. (Base + Len(payloads) = After(i - 1))' BY <1>4, <2>4, <2>5
  <2>7. 1 .. (i' - 1) = {} BY <1>1, SMT
  <2> QED BY <1>1, <1>3, <2>3, <2>6, <2>7 DEF Rendering
<1> QED BY <1>1, <1>5, <1>6, <1>7 DEF Calculating, Finished

\* Entries that follow one another begin behind the directory.
LEMMA ChainedAfter ==
  ASSUME TypeOK, Chained(Len(entries)), NEW k \in 1 .. Len(entries)
  PROVE  entries[k].addr = After(k - 1) /\ k - 1 \in 0 .. Len(entries)
BY Elements, SMT DEF Chained

LEMMA WriteKeeps ==
  ASSUME LayoutInv, Write PROVE LayoutInv'
<1> USE DEF LayoutInv
<1>1. /\ pc = "render" /\ i > Len(entries) /\ pc' = "done"
      /\ dir' = [dir EXCEPT ![i] = NullEntry] /\ padding' = PadWith(OutputLen)
      /\ job' = job /\ entries' = entries /\ i' = i /\ addr' = addr
      /\ payloads' = payloads
  BY DEF Write
<1>2. job \in Job /\ Len(entries) \in Nat /\ Len(dir) \in Nat /\ DOMAIN dir = 1 .. Len(dir)
      /\ (\A k \in 1 .. Len(dir) : dir[k] \in Entry) /\ Len(payloads) \in Nat
  BY Elements
<1>3. i = Len(entries) + 1 /\ Len(dir) = Len(entries) + 1 /\ i \in 1 .. Len(dir)
  <2>1. Len(dir) = Len(entries) + 1 BY <1>1 DEF Rendering
  <2> QED BY <1>1, <1>2, <2>1, Elements, SMT
<1>4. /\ DOMAIN dir' = 1 .. Len(dir)
      /\ \A k \in 1 .. Len(dir) : dir'[k] = IF k = i THEN NullEntry ELSE dir[k]
  BY <1>1, <1>2
<1>5. dir' \in Seq(Entry) /\ Len(dir') = Len(dir)
  <2> DEFINE S == Entry
  <2>1. dir' = [k \in 1 .. Len(dir) |-> dir'[k]] BY <1>1, <1>4
  <2>2. NullEntry \in S BY DEF NullEntry, Entry
  <2>3. dir' \in [1 .. Len(dir) -> S] BY <1>2, <1>4, <2>1, <2>2
  <2> HIDE DEF S
  <2>4. dir' \in Seq(S) BY <1>2, <2>3, SeqDef
  <2>5. Len(dir') = Len(dir) BY <1>2, <1>4, <2>4
  <2> QED BY <2>4, <2>5 DEF S
<1>6. padding' \in Nat
  <2>1. job.round \in Nat BY <1>2 DEF Job
  <2>2. padding \in Nat BY DEF TypeOK
  <2>3. OutputLen \in Nat BY <1>2, <2>2, SMT DEF OutputLen, HeaderLen, EntryLen
  <2> DEFINE l == OutputLen
  <2>4. PadWith(l) = IF job.round > 0 THEN (job.round - (l % job.round)) % job.round ELSE 0
    BY DEF PadWith
  <2> HIDE DEF l
  <2>5. l \in Nat BY <2>3 DEF l
  <2>6. CASE job.round > 0 BY <2>1, <2>4, <2>5, <2>6, PadIsNat, <1>1 DEF l
  <2>7. CASE ~(job.round > 0) BY <2>4, <2>7, <1>1 DEF l
  <2> QED BY <2>6, <2>7
<1>7. TypeOK' BY <1>1, <1>5, <1>6 DEF TypeOK
<1>8. Counted' BY <1>1 DEF Counted
<1>9. Rendering'
  <2>1. Rendering BY DEF LayoutInv
  <2>2. Chained(Len(entries))' BY <1>1, <2>1 DEF Rendering, Chained, After
  <2>3. Base' = Base /\ After(i - 1)' = After(i - 1) BY <1>1 DEF Base, After
  <2>4. \A k \in 1 .. i - 1 : dir'[k] = dir[k]
    <3>1. ASSUME NEW k \in 1 .. i - 1 PROVE k \in 1 .. Len(dir) /\ k # i
      BY <1>2, <1>3, SMT
    <3> QED BY <1>4, <3>1
  <2> QED BY <1>1, <1>3, <1>5, <2>1, <2>2, <2>3, <2>4 DEF Rendering
<1>10. Finished' BY <1>1, <1>3, <1>4 DEF Finished
<1> QED BY <1>1, <1>7, <1>8, <1>9, <1>10 DEF Calculating

\* A step of render puts the data of entry i where calculate said.
LEMMA RenderKeeps ==
  ASSUME LayoutInv, Render PROVE LayoutInv'
<1> USE DEF LayoutInv
<1> DEFINE S == [chunk : Nat, at : Nat]
           size == entries[i].size
           entry == [osib |-> entries[i].osib, size |-> size % SizeLimit,
                     addr |-> entries[i].addr]
<1>1. /\ pc = "render" /\ i <= Len(entries) /\ pc' = pc
      /\ dir' = [dir EXCEPT ![i] = entry]
      /\ payloads' = payloads \o Data(i) /\ i' = i + 1
      /\ job' = job /\ entries' = entries /\ addr' = addr /\ padding' = padding
  BY DEF Render
<1>2. /\ job \in Job /\ Len(entries) \in Nat /\ i \in Nat /\ i \in 1 .. Len(entries)
      /\ Len(dir) \in Nat /\ DOMAIN dir = 1 .. Len(dir)
      /\ \A k \in 1 .. Len(dir) : dir[k] \in Entry
  <2>1. i \in 1 .. Len(entries) BY <1>1, Elements, SMT
  <2> QED BY <2>1, Elements
<1>3. entries[i] \in Entry /\ size \in Nat /\ entries[i].osib \in Nat
      /\ entries[i].addr \in Nat
  BY <1>2, Elements DEF Entry
<1>4. /\ Chained(Len(entries)) /\ Len(dir) = Len(entries) + 1
      /\ Base + Len(payloads) = After(i - 1)
      /\ \A k \in 1 .. i - 1 :
           /\ dir[k] = [osib |-> entries[k].osib, size |-> entries[k].size % SizeLimit,
                        addr |-> entries[k].addr]
           /\ entries[k].addr >= Base
           /\ entries[k].addr + entries[k].size <= Base + Len(payloads)
           /\ \A at \in 0 .. entries[k].size - 1 :
                payloads[entries[k].addr - Base + 1 + at] = ByteOf(k, at)
  BY <1>1 DEF Rendering
<1>5. Base \in Nat /\ Base' = Base /\ (\A k \in Nat : After(k)' = After(k))
  BY <1>1, <1>2, FirstWord DEF Base, After
<1>6. entries[i].addr = Base + Len(payloads)
  BY <1>2, <1>4, ChainedAfter
<1>7. /\ Data(i) \in Seq(S) /\ Len(Data(i)) = RoundUp(size)
      /\ \A at \in 0 .. size - 1 : Data(i)[at + 1] = ByteOf(i, at)
  BY <1>2, <1>3, DataType
<1>8. RoundUp(size) \in Nat /\ RoundUp(size) >= size BY <1>3, Words
<1>9. payloads \in Seq(S) BY DEF TypeOK
<1> HIDE DEF S
<1>10. /\ payloads' \in Seq(S)
       /\ Len(payloads) \in Nat
       /\ Len(payloads') = Len(payloads) + RoundUp(size)
       /\ \A k \in 1 .. Len(payloads) : payloads'[k] = payloads[k]
       /\ \A k \in 1 .. RoundUp(size) : payloads'[Len(payloads) + k] = Data(i)[k]
  BY <1>1, <1>7, <1>9, Appended
<1> HIDE DEF entry, size
<1>11. entry \in Entry
  <2>1. size % SizeLimit \in Nat BY <1>3, ChunkAssumption, SMT
  <2> QED BY <1>3, <2>1 DEF entry, Entry
<1>12. /\ DOMAIN dir' = 1 .. Len(dir)
       /\ \A k \in 1 .. Len(dir) : dir'[k] = IF k = i THEN entry ELSE dir[k]
  BY <1>1, <1>2
<1>13. dir' \in Seq(Entry) /\ Len(dir') = Len(dir)
  <2> DEFINE E == Entry
  <2>1. dir' = [k \in 1 .. Len(dir) |-> dir'[k]] BY <1>1, <1>12
  <2>2. dir' \in [1 .. Len(dir) -> E] BY <1>2, <1>11, <1>12, <2>1
  <2> HIDE DEF E
  <2>3. dir' \in Seq(E) BY <1>2, <2>2, SeqDef
  <2>4. Len(dir') = Len(dir) BY <1>2, <1>12, <2>3
  <2> QED BY <2>3, <2>4 DEF E
<1>14. TypeOK'
  <2>1. i' \in 1 .. Len(entries') + 1 BY <1>1, <1>2, SMT
  <2> QED BY <1>1, <1>10, <1>13, <2>1 DEF TypeOK, S
<1>15. Counted' BY <1>1 DEF Counted
<1>16. Rendering'
  <2>1. Chained(Len(entries))' BY <1>1, <1>4 DEF Chained, After
  <2>2. Base + Len(payloads') = After(i)
    <3>1. After(i) = entries[i].addr + RoundUp(size)
      BY <1>2, SMT DEF After, size
    <3> QED BY <1>3, <1>5, <1>6, <1>8, <1>10, <3>1, SMT
  <2>3. i' - 1 = i BY <1>1, <1>2, SMT
  <2>4. (Base + Len(payloads) = After(i - 1))' BY <1>1, <1>2, <1>5, <2>2, <2>3 DEF After
  <2>5. ASSUME NEW k \in 1 .. i
        PROVE  /\ dir'[k] = [osib |-> entries[k].osib,
                             size |-> entries[k].size % SizeLimit,
                             addr |-> entries[k].addr]
               /\ entries[k].addr >= Base
               /\ entries[k].addr + entries[k].size <= Base + Len(payloads')
               /\ \A at \in 0 .. entries[k].size - 1 :
                    payloads'[entries[k].addr - Base + 1 + at] = ByteOf(k, at)
    <3>1. k \in 1 .. Len(entries) /\ k \in 1 .. Len(dir) BY <1>2, <1>4, SMT
    <3>2. CASE k = i
      <4>1. dir'[i] = entry BY <1>12, <3>1, <3>2
      <4>2. entries[i].addr >= Base
            /\ entries[i].addr + size <= Base + Len(payloads')
        BY <1>3, <1>5, <1>6, <1>8, <1>10, SMT
      <4>3. ASSUME NEW at \in 0 .. size - 1
            PROVE  payloads'[entries[i].addr - Base + 1 + at] = ByteOf(i, at)
        <5>1. entries[i].addr - Base + 1 + at = Len(payloads) + (at + 1)
              /\ at + 1 \in 1 .. RoundUp(size)
          BY <1>3, <1>5, <1>6, <1>8, <1>10, SMT
        <5> QED BY <1>7, <1>10, <5>1 DEF size
      <4> QED BY <3>2, <4>1, <4>2, <4>3 DEF entry, size
    <3>3. CASE k # i
      <4>1. k \in 1 .. i - 1 BY <1>2, <3>3, SMT
      <4>2. entries[k].addr \in Nat /\ entries[k].size \in Nat
        BY <3>1, Elements DEF Entry
      <4>3. entries[k].addr >= Base
            /\ entries[k].addr + entries[k].size <= Base + Len(payloads)
        BY <1>4, <4>1
      <4>4. entries[k].addr + entries[k].size <= Base + Len(payloads')
        BY <1>5, <1>8, <1>10, <4>2, <4>3, SMTT(30)
      <4>5. ASSUME NEW at \in 0 .. entries[k].size - 1
            PROVE  payloads'[entries[k].addr - Base + 1 + at] = ByteOf(k, at)
        <5>1. entries[k].addr - Base + 1 + at \in 1 .. Len(payloads)
          BY <1>5, <1>10, <4>2, <4>3, Within
        <5> QED BY <1>4, <1>10, <4>1, <5>1
      <4>6. dir'[k] = dir[k] BY <1>12, <3>1, <3>3
      <4> QED BY <1>4, <4>1, <4>3, <4>4, <4>5, <4>6
    <3> QED BY <3>2, <3>3
  <2> QED BY <1>1, <1>4, <1>5, <1>13, <2>1, <2>3, <2>4, <2>5 DEF Rendering
<1> QED BY <1>1, <1>14, <1>15, <1>16 DEF Calculating, Finished

LEMMA InvStep == LayoutInv /\ [Next]_vars => LayoutInv'
<1> SUFFICES ASSUME LayoutInv, [Next]_vars PROVE LayoutInv' OBVIOUS
<1>1. CASE Fatal BY <1>1, FatalKeeps
<1>2. CASE AddAll BY <1>2, AddAllKeeps
<1>3. CASE Calculate BY <1>3, CalculateKeeps
<1>4. CASE Described BY <1>4, DescribedKeeps
<1>5. CASE Calculated BY <1>5, CalculatedKeeps
<1>6. CASE Render BY <1>6, RenderKeeps
<1>7. CASE Write BY <1>7, WriteKeeps
<1>8. CASE UNCHANGED vars
  BY <1>8 DEF LayoutInv, TypeOK, Counted, Calculating, Rendering, Finished, Chained,
              After, Base, vars
<1> QED BY <1>1, <1>2, <1>3, <1>4, <1>5, <1>6, <1>7, <1>8 DEF Next

-----------------------------------------------------------------------------
(* Theorems *)

\* The layout is invariant, whatever the script is called with.
THEOREM LayoutIsInvariant == Spec => []LayoutInv
BY InvInit, InvStep, PTL DEF Spec

\* Types, and every address on a word boundary (the rounding in calculate).
THEOREM TypeCorrect == Spec => []TypeOK
<1>1. LayoutInv => TypeOK BY DEF LayoutInv
<1> QED BY <1>1, LayoutIsInvariant, PTL

LEMMA FoundWhenDone == LayoutInv => EveryChunkFound
<1> SUFFICES ASSUME LayoutInv, pc = "done" PROVE EveryChunkFound BY DEF EveryChunkFound
<1> USE DEF LayoutInv
<1> DEFINE chunks == Chunks(job)
<1>1. /\ Legal(job) /\ Len(entries) = Len(chunks)
      /\ \A k \in 1 .. Len(entries) :
           entries[k].osib = chunks[k].osib /\ entries[k].size = chunks[k].size
  BY DEF Counted
<1>2. job \in Job /\ Len(entries) \in Nat BY Elements
<1>3. DOMAIN chunks = 1 .. Len(entries)
      /\ \A k \in 1 .. Len(entries) : chunks[k].size \in Nat /\ chunks[k].osib \in Nat \ {0}
  BY <1>1, <1>2, LegalSizes
<1>4. i = Len(entries) + 1 /\ dir[i] = NullEntry /\ Len(dir) = Len(entries) + 1
  BY DEF Finished, Rendering
<1>5. /\ \A k \in 1 .. Len(entries) :
           /\ dir[k] = [osib |-> entries[k].osib, size |-> entries[k].size % SizeLimit,
                        addr |-> entries[k].addr]
           /\ entries[k].addr >= Base
           /\ entries[k].addr + entries[k].size <= Base + Len(payloads)
           /\ \A at \in 0 .. entries[k].size - 1 :
                payloads[entries[k].addr - Base + 1 + at] = ByteOf(k, at)
  <2>1. i - 1 = Len(entries) BY <1>2, <1>4, SMT
  <2> QED BY <2>1 DEF Rendering
<1>6. Base = HeaderLen(job) + Len(dir) * EntryLen
  BY <1>4 DEF Base, FirstAddr
<1>7. Base \in Nat /\ HeaderLen(job) \in Nat /\ Len(dir) * EntryLen \in Nat
  BY <1>2, <1>4, FirstWord DEF Base, HeaderLen, EntryLen
<1>8. Len(payloads) \in Nat /\ DOMAIN payloads = 1 .. Len(payloads)
  BY DEF TypeOK
<1> HIDE DEF chunks
<1>9. ASSUME NEW k \in 1 .. Len(entries)
      PROVE  /\ dir[k].osib = chunks[k].osib /\ dir[k].osib # NullEntry.osib
             /\ dir[k].addr >= HeaderLen(job) + Len(dir) * EntryLen
             /\ chunks[k].size < SizeLimit => dir[k].size = chunks[k].size
             /\ \A at \in 0 .. chunks[k].size - 1 :
                  DataAt(dir[k].addr + at) = ByteOf(k, at)
  <2>1. dir[k].osib = chunks[k].osib /\ dir[k].addr = entries[k].addr
        /\ dir[k].size = chunks[k].size % SizeLimit
    <3>1. dir[k] = [osib |-> entries[k].osib, size |-> entries[k].size % SizeLimit,
                    addr |-> entries[k].addr]
      BY <1>5
    <3> QED BY <1>1, <3>1
  <2>2. dir[k].osib # NullEntry.osib BY <1>3, <2>1 DEF NullEntry
  <2>3. dir[k].addr >= HeaderLen(job) + Len(dir) * EntryLen BY <1>5, <1>6, <2>1
  <2>4. chunks[k].size < SizeLimit => dir[k].size = chunks[k].size
    BY <1>3, <2>1, ChunkAssumption, SmallMod
  <2>5. ASSUME NEW at \in 0 .. chunks[k].size - 1
        PROVE  DataAt(dir[k].addr + at) = ByteOf(k, at)
    <3>1. entries[k].addr \in Nat /\ entries[k].size \in Nat
      BY Elements DEF Entry
    <3>2. at \in 0 .. entries[k].size - 1 /\ at \in Int BY <1>1, <1>3, SMT
    <3>3. (entries[k].addr + at) - HeaderLen(job) - Len(dir) * EntryLen + 1
            = entries[k].addr - Base + 1 + at
      <4> DEFINE a == entries[k].addr
                 h == HeaderLen(job)
                 e == Len(dir) * EntryLen
      <4>1. a \in Int /\ h \in Int /\ e \in Int /\ at \in Int BY <1>7, <3>1, <3>2
      <4>2. Base = h + e BY <1>6
      <4> HIDE DEF a, h, e
      <4>3. (a + at) - h - e + 1 = a - (h + e) + 1 + at BY <4>1, Displaced
      <4>4. (a + at) - h - e + 1 = a - Base + 1 + at BY <4>2, <4>3
      <4> QED BY <4>4 DEF a, h, e
    <3>4. entries[k].addr - Base + 1 + at \in 1 .. Len(payloads)
      BY <1>5, <1>7, <1>8, <3>1, <3>2, Within
    <3>5. payloads[entries[k].addr - Base + 1 + at] = ByteOf(k, at) BY <1>5, <3>2
    <3>6. DataAt(entries[k].addr + at) = payloads[entries[k].addr - Base + 1 + at]
      <4> DEFINE a == entries[k].addr + at
                 p == a - HeaderLen(job) - Len(dir) * EntryLen + 1
      <4>1. DataAt(a) = IF p \in DOMAIN payloads THEN payloads[p] ELSE Zero
        BY Zenon DEF DataAt
      <4>2. p = entries[k].addr - Base + 1 + at BY <3>3
      <4> HIDE DEF p
      <4>3. p \in DOMAIN payloads BY <1>8, <3>4, <4>2
      <4>4. DataAt(a) = payloads[p] BY <4>1, <4>3
      <4> QED BY <4>2, <4>4
    <3> QED BY <2>1, <3>5, <3>6
  <2> QED BY <2>1, <2>2, <2>3, <2>4, <2>5
<1> QED BY <1>1, <1>3, <1>4, <1>9 DEF EveryChunkFound, chunks

\* The directory of a finished image leads to every chunk the script was asked
\* for, whole (calculate and render agree).
THEOREM ChunksAreFound == Spec => []EveryChunkFound
BY FoundWhenDone, LayoutIsInvariant, PTL

LEMMA PaddedInit == Init => Padded
BY DEF Init, Padded, RoundedUp

LEMMA PaddedStep == PaddedInv /\ [Next]_vars => Padded'
<1> SUFFICES ASSUME PaddedInv, [Next]_vars PROVE Padded' OBVIOUS
<1>1. CASE Write
  <2>1. /\ pc = "render" /\ pc' = "done" /\ padding = 0
        /\ padding' = PadWith(OutputLen) /\ job' = job /\ payloads' = payloads
        /\ dir' = [dir EXCEPT ![i] = NullEntry]
    BY <1>1 DEF Write, PaddedInv, Padded
  <2>2. TypeOK /\ TypeOK' BY <1>1, WriteKeeps DEF PaddedInv, LayoutInv
  <2>3. Len(dir') = Len(dir) BY <2>1, <2>2 DEF TypeOK
  <2> DEFINE l == OutputLen
  <2>4. l \in Nat /\ Len(dir) * EntryLen \in Nat /\ HeaderLen(job) \in Nat
        /\ Len(payloads) \in Nat /\ job.round \in Nat
    <3>1. job \in Job /\ Len(dir) \in Nat /\ Len(payloads) \in Nat BY <2>2, Elements
    <3>2. HeaderLen(job) \in Nat BY DEF HeaderLen
    <3>3. Len(dir) * EntryLen \in Nat BY <3>1, SMT DEF EntryLen
    <3>4. job.round \in Nat BY <3>1 DEF Job
    <3> QED BY <2>1, <3>1, <3>2, <3>3, <3>4, SMT DEF OutputLen
  <2>5. ASSUME job.round > 0 PROVE (OutputLen % job.round = 0 /\ padding < job.round)'
    <3> DEFINE r == job.round
    <3>1. padding' = (r - (l % r)) % r BY <2>1, <2>5 DEF PadWith
    <3>2. OutputLen' = l + padding'
      <4>1. padding' \in Nat BY <2>2 DEF TypeOK
      <4>2. HeaderLen(job)' = HeaderLen(job) BY <2>1
      <4>3. l = HeaderLen(job) + Len(dir) * EntryLen + Len(payloads) + 0
        BY <2>1 DEF OutputLen
      <4>4. OutputLen' = HeaderLen(job) + Len(dir) * EntryLen + Len(payloads) + padding'
        BY <2>1, <2>3, <4>2 DEF OutputLen, EntryLen
      <4> HIDE DEF l
      <4> QED BY <2>4, <4>1, <4>3, <4>4, SMT
    <3> HIDE DEF l
    <3>3. (l + padding') % r = 0 /\ padding' < r BY <2>4, <2>5, <3>1, PadRounds
    <3> QED BY <2>1, <3>2, <3>3
  <2> QED BY <2>1, <2>5 DEF Padded, RoundedUp
<1>2. CASE UNCHANGED vars
  BY <1>2 DEF PaddedInv, Padded, RoundedUp, OutputLen, vars
<1>3. CASE Fatal \/ AddAll \/ Calculate \/ Described \/ Calculated \/ Render
  <2>1. pc # "done" /\ pc' # "done" /\ padding' = padding
    BY <1>3 DEF Fatal, AddAll, Calculate, Described, Calculated, Render
  <2> QED BY <2>1 DEF PaddedInv, Padded, RoundedUp
<1> QED BY <1>1, <1>2, <1>3 DEF Next

\* An image rounded up is a whole number of the size asked for, and the smallest
\* such (the last lines of the script).
THEOREM ImagesAreRounded == Spec => []RoundedUp
<1>1. Init => PaddedInv BY InvInit, PaddedInit DEF PaddedInv
<1>2. PaddedInv /\ [Next]_vars => PaddedInv' BY InvStep, PaddedStep DEF PaddedInv
<1>3. PaddedInv => RoundedUp BY DEF PaddedInv, Padded
<1> QED BY <1>1, <1>2, <1>3, PTL DEF Spec
=============================================================================
