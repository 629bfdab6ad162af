-------------------------- MODULE WavHeaderProofs ---------------------------
(***************************************************************************)
(* The parser finds what the list of chunks defines, for files of any      *)
(* length and lists of any length, with any sizes.  Induction over the     *)
(* list is by sets of naturals: one that has 0 and with n also n + 1 has   *)
(* them all.                                                               *)
(***************************************************************************)
EXTENDS WavHeader, WellFoundedInduction, TLAPS

\* What is not empty has a smallest number.
LEMMA Smallest ==
  ASSUME NEW T \in SUBSET Nat, T # {}
  PROVE  \E x \in T : \A y \in T : x <= y
<1> DEFINE R == OpToRel(<, Nat)
<1>1. \E x \in T : \A y \in T : ~ (<<y, x>> \in R)
  BY NatLessThanWellFounded, WFMin
<1>2. \A x, y \in Nat : <<y, x>> \in R <=> y < x
  BY DEF OpToRel
<1> HIDE DEF R
<1>3. PICK x \in T : \A y \in T : ~ (<<y, x>> \in R)
  BY <1>1
<1>4. \A y \in T : x <= y
  <2> SUFFICES ASSUME NEW y \in T PROVE x <= y
    OBVIOUS
  <2>1. x \in Nat /\ y \in Nat
    OBVIOUS
  <2>2. ~ (y < x)
    BY <1>2, <1>3, <2>1
  <2> QED
    BY <2>1, <2>2
<1> QED
  BY <1>4

\* What has 0 and with each number the next one has all of them.
LEMMA Induction ==
  ASSUME NEW T \in SUBSET Nat, 0 \in T, \A n \in T : n + 1 \in T
  PROVE  T = Nat
<1> SUFFICES ASSUME Nat \ T # {} PROVE FALSE
  OBVIOUS
<1>1. PICK x \in Nat \ T : \A y \in Nat \ T : x <= y
  BY Smallest
<1>2. x # 0 /\ x - 1 \in Nat /\ x - 1 \notin T
  BY <1>1
<1> QED
  BY <1>1, <1>2

-----------------------------------------------------------------------------
(* The recursive definitions, round by round. *)

\* The types of a file.
LEMMA ListFacts ==
  ASSUME NEW file \in Files
  PROVE  /\ Len(file.chunks) \in Nat /\ DOMAIN file.chunks = 1..Len(file.chunks)
         /\ \A i \in 1..Len(file.chunks) :
              /\ file.chunks[i] \in Chunks /\ file.chunks[i].size \in Nat
              /\ file.chunks[i].id \in {"fmt", "data", "other"}
         /\ file.length \in Nat
<1>1. file.chunks \in Seq(Chunks) /\ file.length \in Nat
  BY DEF Files
<1>2. \A c \in Chunks : c.size \in Nat /\ c.id \in {"fmt", "data", "other"}
  BY DEF Chunks
<1> QED
  BY <1>1, <1>2

\* Each round reads one chunk with what the round before it left.
LEMMA WalkRounds ==
  ASSUME NEW file \in Files
  PROVE  /\ Walk(file)[0] = AtRiff
         /\ \A i \in 1..Len(file.chunks) :
              Walk(file)[i] = ReadChunk(Buffered(file), Walk(file)[i - 1], file.chunks[i])
<1> DEFINE N == Len(file.chunks)
           Def(f, i) == IF i = 0 THEN AtRiff
                        ELSE ReadChunk(Buffered(file), f[i - 1], file.chunks[i])
           P(n) == \E f : f = [i \in 0..n |-> Def(f, i)]
           T == {n \in Nat : P(n)}
<1>0. N \in Nat
  BY DEF Files
<1>1. P(0)
  <2> DEFINE f == [i \in 0..0 |-> AtRiff]
  <2>1. f = [i \in 0..0 |-> Def(f, i)]
    OBVIOUS
  <2> HIDE DEF f
  <2> QED
    BY <2>1
<1>2. ASSUME NEW n \in Nat, P(n) PROVE P(n + 1)
  <2>1. PICK f : f = [i \in 0..n |-> Def(f, i)]
    BY <1>2
  <2> DEFINE g == [i \in 0..(n + 1) |-> IF i = n + 1 THEN Def(f, n + 1) ELSE f[i]]
  <2>2. \A i \in 0..(n + 1) : g[i] = Def(g, i)
    <3> SUFFICES ASSUME NEW i \in 0..(n + 1) PROVE g[i] = Def(g, i)
      OBVIOUS
    <3>1. CASE i = 0
      BY <2>1, <3>1
    <3>2. CASE i # 0
      <4>1. i - 1 \in 0..n /\ i - 1 \in 0..(n + 1) /\ i - 1 # n + 1
        BY <3>2
      <4>2. g[i - 1] = f[i - 1]
        BY <4>1
      <4>3. CASE i = n + 1
        BY <3>2, <4>2, <4>3
      <4>4. CASE i # n + 1
        BY <2>1, <3>2, <4>2, <4>4
      <4> QED
        BY <4>3, <4>4
    <3> QED
      BY <3>1, <3>2
  <2>3. g = [i \in 0..(n + 1) |-> Def(g, i)]
    BY <2>2
  <2> HIDE DEF g
  <2> QED
    BY <2>3
<1>3. P(N)
  <2> HIDE DEF P
  <2>1. T \in SUBSET Nat /\ 0 \in T
    BY <1>1
  <2>2. \A n \in T : n + 1 \in T
    <3> SUFFICES ASSUME NEW n \in T PROVE n + 1 \in T
      OBVIOUS
    <3>1. n \in Nat /\ n + 1 \in Nat /\ P(n)
      OBVIOUS
    <3> QED
      BY <1>2, <3>1
  <2>3. T = Nat
    <3> HIDE DEF T
    <3> QED
      BY <2>1, <2>2, Induction
  <2> QED
    BY <1>0, <2>3
<1>4. Walk(file) = CHOOSE f : f = [i \in 0..N |-> Def(f, i)]
  BY DEF Walk
<1>5. Walk(file) = [i \in 0..N |-> Def(Walk(file), i)]
  <2> DEFINE Q(f) == f = [i \in 0..N |-> Def(f, i)]
  <2>1. \E f : Q(f)
    BY <1>3
  <2>2. Walk(file) = CHOOSE f : Q(f)
    BY <1>4
  <2>3. Q(Walk(file))
    <3> HIDE DEF Q
    <3> QED
      BY <2>1, <2>2, Zenon
  <2> QED
    BY <2>3
<1> QED
  BY <1>0, <1>5

\* Each chunk begins behind the one before it.
LEMMA BeginsRounds ==
  ASSUME NEW file \in Files
  PROVE  /\ Begins(file)[1] = RiffSize
         /\ \A i \in 1..Len(file.chunks) :
              Begins(file)[i + 1] = Begins(file)[i] + ChunkSize + Advance(file.chunks[i].size)
<1> DEFINE N == Len(file.chunks)
           Behind(x, i) == x + ChunkSize + file.chunks[i].size + (file.chunks[i].size % 2)
           Def(f, i) == IF i = 1 THEN RiffSize ELSE Behind(f[i - 1], i - 1)
           P(n) == \E f : f = [i \in 1..(n + 1) |-> Def(f, i)]
           T == {n \in Nat : P(n)}
<1>0. N \in Nat /\ \A i \in 1..N : file.chunks[i].size \in Nat
  BY ListFacts
<1>1. P(0)
  <2> DEFINE f == [i \in 1..(0 + 1) |-> RiffSize]
  <2>1. f = [i \in 1..(0 + 1) |-> Def(f, i)]
    OBVIOUS
  <2> HIDE DEF f
  <2> QED
    BY <2>1
<1>2. ASSUME NEW n \in Nat, P(n) PROVE P(n + 1)
  <2> HIDE DEF Behind
  <2>1. PICK f : f = [i \in 1..(n + 1) |-> Def(f, i)]
    BY <1>2
  <2> DEFINE g == [i \in 1..(n + 1 + 1) |-> IF i = n + 2 THEN Def(f, n + 2) ELSE f[i]]
  <2>2. \A i \in 1..(n + 1 + 1) : g[i] = Def(g, i)
    <3> SUFFICES ASSUME NEW i \in 1..(n + 1 + 1) PROVE g[i] = Def(g, i)
      OBVIOUS
    <3>1. CASE i = 1
      BY <2>1, <3>1
    <3>2. CASE i # 1
      <4>1. i - 1 \in 1..(n + 1) /\ i - 1 \in 1..(n + 1 + 1) /\ i - 1 # n + 2
        BY <3>2
      <4>2. g[i - 1] = f[i - 1]
        BY <4>1
      <4>3. CASE i = n + 2
        BY <3>2, <4>2, <4>3
      <4>4. CASE i # n + 2
        BY <2>1, <3>2, <4>2, <4>4
      <4> QED
        BY <4>3, <4>4
    <3> QED
      BY <3>1, <3>2
  <2>3. g = [i \in 1..(n + 1 + 1) |-> Def(g, i)]
    BY <2>2
  <2> HIDE DEF g
  <2> QED
    BY <2>3
<1>3. P(N)
  <2> HIDE DEF P
  <2>1. T \in SUBSET Nat /\ 0 \in T
    BY <1>1
  <2>2. \A n \in T : n + 1 \in T
    <3> SUFFICES ASSUME NEW n \in T PROVE n + 1 \in T
      OBVIOUS
    <3>1. n \in Nat /\ n + 1 \in Nat /\ P(n)
      OBVIOUS
    <3> QED
      BY <1>2, <3>1
  <2>3. T = Nat
    <3> HIDE DEF T
    <3> QED
      BY <2>1, <2>2, Induction
  <2> QED
    BY <1>0, <2>3
<1>4. Begins(file) = CHOOSE f : f = [i \in 1..(N + 1) |-> Def(f, i)]
  BY DEF Begins
<1>5. Begins(file) = [i \in 1..(N + 1) |-> Def(Begins(file), i)]
  <2> DEFINE Q(f) == f = [i \in 1..(N + 1) |-> Def(f, i)]
  <2>1. \E f : Q(f)
    BY <1>3
  <2>2. Begins(file) = CHOOSE f : Q(f)
    BY <1>4
  <2>3. Q(Begins(file))
    <3> HIDE DEF Q
    <3> QED
      BY <2>1, <2>2, Zenon
  <2> QED
    BY <2>3
<1>6. Begins(file)[1] = RiffSize
  BY <1>0, <1>5
<1>7. \A i \in 1..N : Begins(file)[i + 1] = Def(Begins(file), i + 1)
  <2> SUFFICES ASSUME NEW i \in 1..N PROVE Begins(file)[i + 1] = Def(Begins(file), i + 1)
    OBVIOUS
  <2>1. i + 1 \in 1..(N + 1)
    BY <1>0
  <2>2. \A j \in 1..(N + 1) : Begins(file)[j] = Def(Begins(file), j)
    <3> HIDE DEF Def
    <3> QED
      BY <1>5, Zenon
  <2> HIDE DEF Def
  <2> QED
    BY <2>1, <2>2
<1>8. Begins(file)[1] = RiffSize /\ \A n \in Nat : n + 1 <= N + 1 => Begins(file)[n + 1] \in Nat
  <2> DEFINE S == {n \in Nat : n + 1 <= N + 1 => Begins(file)[n + 1] \in Nat}
  <2>1. S \in SUBSET Nat /\ 0 \in S
    BY <1>6 DEF RiffSize
  <2>2. \A n \in S : n + 1 \in S
    <3> SUFFICES ASSUME NEW n \in S, n + 1 + 1 <= N + 1 PROVE Begins(file)[n + 1 + 1] \in Nat
      OBVIOUS
    <3>1. n + 1 \in 1..N /\ Begins(file)[n + 1] \in Nat
      BY <1>0
    <3>2. n + 1 + 1 # 1 /\ n + 1 + 1 - 1 = n + 1
      OBVIOUS
    <3>3. Begins(file)[n + 1 + 1] = Begins(file)[n + 1] + ChunkSize + file.chunks[n + 1].size
                                      + (file.chunks[n + 1].size % 2)
      <4> HIDE DEF S
      <4> QED
        BY <1>7, <3>1, <3>2
    <3>4. file.chunks[n + 1].size \in Nat /\ file.chunks[n + 1].size % 2 \in Nat
      BY <1>0, <3>1
    <3>5. \A b, z, e \in Nat : b + ChunkSize + z + e \in Nat
      BY DEF ChunkSize
    <3> HIDE DEF S
    <3> QED
      BY <3>1, <3>3, <3>4, <3>5
  <2>3. S = Nat
    <3> HIDE DEF S
    <3> QED
      BY <2>1, <2>2, Induction
  <2> QED
    BY <1>6, <2>3
<1>9. ASSUME NEW i \in 1..N
      PROVE  Begins(file)[i + 1] = Begins(file)[i] + ChunkSize + Advance(file.chunks[i].size)
  <2>1. i - 1 \in Nat /\ i - 1 + 1 = i /\ i <= N + 1 /\ i + 1 # 1 /\ i + 1 - 1 = i
    BY <1>0
  <2>2. Begins(file)[i] \in Nat
    <3>1. i - 1 + 1 <= N + 1 => Begins(file)[i - 1 + 1] \in Nat
      BY <1>8, <2>1
    <3> QED
      BY <2>1, <3>1
  <2>3. Begins(file)[i + 1] = Begins(file)[i] + ChunkSize + file.chunks[i].size
                                + (file.chunks[i].size % 2)
    BY <1>7, <2>1
  <2>4. file.chunks[i].size \in Nat /\ file.chunks[i].size % 2 \in Nat
    BY <1>0
  <2> QED
    BY <2>2, <2>3, <2>4 DEF Advance, ChunkSize
<1> QED
  BY <1>6, <1>9

\* They begin in the order of the list.
LEMMA BeginsInOrder ==
  ASSUME NEW file \in Files
  PROVE  /\ \A i \in 1..(Len(file.chunks) + 1) : Begins(file)[i] \in Nat /\ RiffSize <= Begins(file)[i]
         /\ \A i, j \in 1..(Len(file.chunks) + 1) : i <= j => Begins(file)[i] <= Begins(file)[j]
<1> DEFINE N == Len(file.chunks)
           b == Begins(file)
           P(n) == n <= N => /\ b[n + 1] \in Nat /\ RiffSize <= b[n + 1]
                             /\ \A i \in 1..(n + 1) : b[i] \in Nat /\ b[i] <= b[n + 1]
           T == {n \in Nat : P(n)}
<1>0. N \in Nat /\ \A i \in 1..N : file.chunks[i].size \in Nat
  BY ListFacts
<1>1. b[1] = RiffSize /\ \A i \in 1..N : b[i + 1] = b[i] + ChunkSize + Advance(file.chunks[i].size)
  BY BeginsRounds
<1> HIDE DEF b
<1>2. P(0)
  BY <1>1 DEF RiffSize
<1>3. ASSUME NEW n \in Nat, P(n) PROVE P(n + 1)
  <2> SUFFICES ASSUME n + 1 <= N
               PROVE  /\ b[n + 1 + 1] \in Nat /\ RiffSize <= b[n + 1 + 1]
                      /\ \A i \in 1..(n + 1 + 1) : b[i] \in Nat /\ b[i] <= b[n + 1 + 1]
    OBVIOUS
  <2>1. n + 1 \in 1..N /\ n <= N
    BY <1>0
  <2>2. /\ b[n + 1] \in Nat /\ RiffSize <= b[n + 1]
        /\ \A i \in 1..(n + 1) : b[i] \in Nat /\ b[i] <= b[n + 1]
    BY <1>3, <2>1
  <2>3. Advance(file.chunks[n + 1].size) \in Nat
    <3>1. file.chunks[n + 1].size \in Nat
      BY <1>0, <2>1
    <3> QED
      BY <3>1 DEF Advance
  <2>4. b[n + 1 + 1] = b[n + 1] + ChunkSize + Advance(file.chunks[n + 1].size)
    BY <1>1, <2>1
  <2>5. b[n + 1 + 1] \in Nat /\ b[n + 1] <= b[n + 1 + 1] /\ RiffSize <= b[n + 1 + 1]
    <3>1. RiffSize \in Nat
      BY DEF RiffSize
    <3> QED
      BY <2>2, <2>3, <2>4, <3>1 DEF ChunkSize
  <2>6. ASSUME NEW i \in 1..(n + 1 + 1) PROVE b[i] \in Nat /\ b[i] <= b[n + 1 + 1]
    <3>1. CASE i = n + 1 + 1
      BY <2>5, <3>1
    <3>2. CASE i # n + 1 + 1
      <4>1. i \in 1..(n + 1)
        BY <3>2
      <4> QED
        BY <2>2, <2>5, <4>1
    <3> QED
      BY <3>1, <3>2
  <2> QED
    BY <2>5, <2>6
<1>4. T = Nat
  <2> HIDE DEF P
  <2>1. T \in SUBSET Nat /\ 0 \in T
    BY <1>2
  <2>2. \A n \in T : n + 1 \in T
    <3> SUFFICES ASSUME NEW n \in T PROVE n + 1 \in T
      OBVIOUS
    <3>1. n \in Nat /\ n + 1 \in Nat /\ P(n)
      OBVIOUS
    <3> QED
      BY <1>3, <3>1
  <2> HIDE DEF T
  <2> QED
    BY <2>1, <2>2, Induction
<1>5. ASSUME NEW j \in 1..(N + 1)
      PROVE  /\ b[j] \in Nat /\ RiffSize <= b[j]
             /\ \A i \in 1..j : b[i] <= b[j]
  <2>1. j - 1 \in Nat /\ j - 1 <= N /\ j - 1 + 1 = j
    BY <1>0
  <2>2. P(j - 1)
    <3> HIDE DEF P
    <3> QED
      BY <1>4, <2>1
  <2> QED
    BY <2>1, <2>2
<1> QED
  BY <1>0, <1>5 DEF b

-----------------------------------------------------------------------------
(* The walk against the list. *)

\* What the first so many chunks amount to.
FormatOf(file, m) ==
  LET fmts == Kind(file, "fmt", 1..m)
  IN IF fmts = {} THEN "none" ELSE file.chunks[Latest(fmts)].body
OffsetOf(file, m) ==
  LET datas == Kind(file, "data", 1..m)
  IN IF datas = {} THEN 0 ELSE Body(file, Latest(datas))
SizeOf(file, m) ==
  LET datas == Kind(file, "data", 1..m)
  IN IF datas = {} THEN 0 ELSE file.chunks[Latest(datas)].size

NoneBad(file, m) == \A f \in Kind(file, "fmt", 1..m) : ~ Bad(file, f)

\* The walk has read the first k chunks and is at the next.
Going(file, k, w) ==
  /\ w = [pos |-> Begins(file)[k + 1], over |-> 0, format |-> FormatOf(file, k),
          offset |-> OffsetOf(file, k), size |-> SizeOf(file, k)]
  /\ 1..k \subseteq Heads(file) /\ Closing(file) \cap (1..k) = {}
  /\ NoneBad(file, k)

\* The walk is over: all there was to read is read, or a "fmt " was refused.
Stopped(file, w) ==
  /\ w = [pos |-> w.pos, over |-> 1, format |-> w.format, offset |-> w.offset, size |-> w.size]
  /\ \/ w.format = "none" /\ \E f \in Kind(file, "fmt", ToRead(file)) : Bad(file, f)
     \/ \E m \in 0..Len(file.chunks) :
          /\ ToRead(file) = 1..m /\ NoneBad(file, m)
          /\ w.format = FormatOf(file, m)
          /\ w.offset = OffsetOf(file, m) /\ w.size = SizeOf(file, m)

\* One more chunk counts if it is of the kind, and is the latest then.
LEMMA OneMore ==
  ASSUME NEW file \in Files, NEW k \in 1..Len(file.chunks), NEW id
  PROVE  IF file.chunks[k].id = id
           THEN Kind(file, id, 1..k) # {} /\ Latest(Kind(file, id, 1..k)) = k
           ELSE Kind(file, id, 1..k) = Kind(file, id, 1..(k - 1))
<1>1. k \in Nat /\ k \in 1..k
  OBVIOUS
<1>2. CASE file.chunks[k].id = id
  <2> DEFINE S == Kind(file, id, 1..k)
  <2>1. k \in S /\ \A j \in S : j \in Nat /\ j <= k
    BY <1>1, <1>2 DEF Kind
  <2> HIDE DEF S
  <2>2. \E i \in S : \A j \in S : j <= i
    BY <2>1
  <2>3. Latest(S) \in S /\ \A j \in S : j <= Latest(S)
    <3> DEFINE Q(i) == i \in S /\ \A j \in S : j <= i
    <3>1. \E i : Q(i)
      BY <2>2
    <3>2. Latest(S) = CHOOSE i : Q(i)
      <4>1. \A i : Q(i) <=> (i \in S /\ \A j \in S : j <= i)
        OBVIOUS
      <4> QED
        BY DEF Latest
    <3>3. Q(Latest(S))
      <4> HIDE DEF Q
      <4> QED
        BY <3>1, <3>2, Zenon
    <3> QED
      BY <3>3
  <2>4. Latest(S) \in Nat /\ Latest(S) <= k /\ k <= Latest(S)
    BY <2>1, <2>3
  <2>5. Latest(S) = k
    BY <1>1, <2>4
  <2> QED
    BY <1>2, <2>1, <2>5 DEF S
<1>3. CASE file.chunks[k].id # id
  <2>1. \A i \in 1..k : i = k \/ i \in 1..(k - 1)
    OBVIOUS
  <2>2. \A i \in 1..(k - 1) : i \in 1..k
    OBVIOUS
  <2>3. Kind(file, id, 1..k) = Kind(file, id, 1..(k - 1))
    BY <1>3, <2>1, <2>2 DEF Kind
  <2> QED
    BY <1>3, <2>3
<1> QED
  BY <1>2, <1>3

\* What one more chunk makes of what was found, by its kind.
LEMMA FoundNext ==
  ASSUME NEW file \in Files, NEW k \in 1..Len(file.chunks)
  PROVE  LET chunk == file.chunks[k]
         IN /\ FormatOf(file, k) = IF chunk.id = "fmt" THEN chunk.body ELSE FormatOf(file, k - 1)
            /\ OffsetOf(file, k) = IF chunk.id = "data" THEN Body(file, k)
                                   ELSE OffsetOf(file, k - 1)
            /\ SizeOf(file, k) = IF chunk.id = "data" THEN chunk.size ELSE SizeOf(file, k - 1)
            /\ (NoneBad(file, k) <=> NoneBad(file, k - 1) /\ (chunk.id = "fmt" => ~ Bad(file, k)))
<1>1. /\ FormatOf(file, k) = IF file.chunks[k].id = "fmt" THEN file.chunks[k].body
                             ELSE FormatOf(file, k - 1)
      /\ OffsetOf(file, k) = IF file.chunks[k].id = "data" THEN Body(file, k)
                             ELSE OffsetOf(file, k - 1)
      /\ SizeOf(file, k) = IF file.chunks[k].id = "data" THEN file.chunks[k].size
                           ELSE SizeOf(file, k - 1)
  BY OneMore DEF FormatOf, OffsetOf, SizeOf
<1>2. Kind(file, "fmt", 1..k) = Kind(file, "fmt", 1..(k - 1))
                                  \cup (IF file.chunks[k].id = "fmt" THEN {k} ELSE {})
  <2>1. \A i : i \in 1..k <=> i = k \/ i \in 1..(k - 1)
    OBVIOUS
  <2> QED
    BY <2>1 DEF Kind
<1>3. NoneBad(file, k) <=> NoneBad(file, k - 1) /\ (file.chunks[k].id = "fmt" => ~ Bad(file, k))
  BY <1>2 DEF NoneBad
<1> QED
  BY <1>1, <1>3

\* The heads in the buffer are those of the first chunks.
LEMMA HeadsInOrder ==
  ASSUME NEW file \in Files
  PROVE  /\ Heads(file) \subseteq 1..Len(file.chunks)
         /\ Buffered(file) \in Nat
         /\ \A k \in 1..Len(file.chunks) :
              /\ Body(file, k) \in Nat /\ Body(file, k) > 0
              /\ k \in Heads(file) <=> Body(file, k) <= Buffered(file)
              /\ k \in Heads(file) => 1..k \subseteq Heads(file)
              /\ k \notin Heads(file) => Heads(file) \subseteq 1..(k - 1)
<1>1. Buffered(file) \in Nat
  <2>1. ScanSize \in Nat /\ file.length \in Nat
    BY ListFacts, WavAssumption
  <2> QED
    BY <2>1 DEF Buffered, Smaller
<1>2. ASSUME NEW k \in 1..Len(file.chunks)
      PROVE  /\ Body(file, k) \in Nat /\ Body(file, k) > 0
             /\ \A i \in 1..k : Body(file, i) \in Nat /\ Body(file, i) <= Body(file, k)
  <2>1. Len(file.chunks) \in Nat
    BY ListFacts
  <2>2. k \in 1..(Len(file.chunks) + 1) /\ \A i \in 1..k : i \in 1..(Len(file.chunks) + 1) /\ i <= k
    BY <2>1
  <2>3. /\ Begins(file)[k] \in Nat /\ RiffSize <= Begins(file)[k]
        /\ \A i \in 1..k : Begins(file)[i] \in Nat /\ Begins(file)[i] <= Begins(file)[k]
    BY <2>2, BeginsInOrder
  <2> QED
    BY <2>3 DEF Body, RiffSize, ChunkSize
<1>3. Len(file.chunks) \in Nat /\ DOMAIN file.chunks = 1..Len(file.chunks)
  BY ListFacts
<1>4. \A k \in 1..Len(file.chunks) : k \in Heads(file) <=> Body(file, k) <= Buffered(file)
  BY <1>3 DEF Heads
<1>5. Heads(file) \subseteq 1..Len(file.chunks)
  BY <1>3 DEF Heads
<1>6. ASSUME NEW k \in 1..Len(file.chunks), k \in Heads(file) PROVE 1..k \subseteq Heads(file)
  <2> SUFFICES ASSUME NEW i \in 1..k PROVE i \in Heads(file)
    OBVIOUS
  <2>1. i \in 1..Len(file.chunks)
    BY <1>3
  <2>2. Body(file, i) \in Nat /\ Body(file, k) \in Nat /\ Body(file, i) <= Body(file, k)
    BY <1>2
  <2> QED
    BY <1>1, <1>4, <1>6, <2>1, <2>2
<1>7. ASSUME NEW k \in 1..Len(file.chunks), k \notin Heads(file)
      PROVE  Heads(file) \subseteq 1..(k - 1)
  <2> SUFFICES ASSUME NEW i \in Heads(file) PROVE i \in 1..(k - 1)
    OBVIOUS
  <2>1. i \in 1..Len(file.chunks)
    BY <1>5
  <2>2. i # k /\ ~ (k \in 1..i)
    BY <1>6, <1>7, <2>1
  <2> QED
    BY <1>3, <2>1, <2>2
<1> QED
  BY <1>1, <1>2, <1>4, <1>5, <1>6, <1>7

\* Every chunk of a kind there is among the first m has a latest.
LEMMA LatestIsOne ==
  ASSUME NEW file \in Files, NEW m \in Nat, NEW id
  PROVE  LET S == Kind(file, id, 1..m) IN S # {} => Latest(S) \in S
<1> DEFINE S == Kind(file, id, 1..m)
<1>1. \A i \in S : i \in Nat /\ i <= m
  BY DEF Kind
<1> HIDE DEF S
<1> SUFFICES ASSUME S # {} PROVE Latest(S) \in S
  BY DEF S
<1> DEFINE T == {n \in Nat : \A i \in S : i <= n}
<1>2. T \in SUBSET Nat /\ m \in T
  BY <1>1
<1>3. PICK x \in T : \A y \in T : x <= y
  <2> HIDE DEF T
  <2> QED
    BY <1>2, Smallest
<1>4. x \in S
  <2> SUFFICES ASSUME x \notin S PROVE FALSE
    OBVIOUS
  <2>1. \A j \in S : j \in Nat /\ j <= x - 1
    <3> SUFFICES ASSUME NEW j \in S PROVE j \in Nat /\ j <= x - 1
      OBVIOUS
    <3>1. x \in Nat /\ j \in Nat /\ j <= x /\ j # x
      BY <1>1, <1>3
    <3> QED
      BY <3>1
  <2>2. x \in Nat /\ x - 1 \in Nat
    <3>1. PICK j \in S : TRUE
      OBVIOUS
    <3>2. x \in Nat /\ j \in Nat /\ j <= x - 1
      BY <1>3, <2>1
    <3> QED
      BY <3>2
  <2>3. x - 1 \in T
    BY <2>1, <2>2
  <2> QED
    BY <1>3, <2>2, <2>3
<1>5. \E i \in S : \A j \in S : j <= i
  BY <1>3, <1>4
<1> QED
  BY <1>5, Zenon DEF Latest

\* When no chunk behind the k-th has its head in the buffer and none before it
\* closes the walk, there are k chunks to read.
LEMMA ReadToHere ==
  ASSUME NEW file \in Files, NEW k \in 0..Len(file.chunks),
         Heads(file) = 1..k, Closing(file) \cap (1..(k - 1)) = {}
  PROVE  ToRead(file) = 1..k
<1>1. Closing(file) \subseteq Heads(file)
  BY DEF Closing, Kind
<1>2. k \in Nat
  OBVIOUS
<1>3. \A d \in Closing(file), i \in 1..k : i <= d
  <2> SUFFICES ASSUME NEW d \in Closing(file), NEW i \in 1..k PROVE i <= d
    OBVIOUS
  <2>1. d \in 1..k /\ d \notin 1..(k - 1)
    BY <1>1
  <2> QED
    BY <1>2, <2>1
<1> QED
  BY <1>3 DEF ToRead

\* A "data" closes the walk when a "fmt " was found before it.
LEMMA Closes ==
  ASSUME NEW file \in Files, NEW k \in 1..Len(file.chunks), k \in Heads(file), NoneBad(file, k - 1)
  PROVE  k \in Closing(file) <=> file.chunks[k].id = "data" /\ FormatOf(file, k - 1) # "none"
<1>1. 1..k \subseteq Heads(file) /\ Heads(file) \subseteq 1..Len(file.chunks) /\ Len(file.chunks) \in Nat
  BY HeadsInOrder, ListFacts
<1>2. (\E f \in Kind(file, "fmt", Heads(file)) : f < k) <=> Kind(file, "fmt", 1..(k - 1)) # {}
  <2>1. \A f \in Heads(file) : f < k <=> f \in 1..(k - 1)
    BY <1>1
  <2>2. 1..(k - 1) \subseteq Heads(file)
    BY <1>1
  <2> QED
    BY <2>1, <2>2 DEF Kind
<1>3. FormatOf(file, k - 1) # "none" <=> Kind(file, "fmt", 1..(k - 1)) # {}
  <2> DEFINE S == Kind(file, "fmt", 1..(k - 1))
  <2>1. ASSUME S # {} PROVE Latest(S) \in S
    BY <1>1, <2>1, LatestIsOne
  <2>2. ASSUME S # {} PROVE file.chunks[Latest(S)].body # "none"
    <3>1. Latest(S) \in S /\ ~ Bad(file, Latest(S))
      BY <2>1, <2>2 DEF NoneBad
    <3>2. file.chunks[Latest(S)].body \in Usable
      BY <3>1 DEF Bad, BadFmt
    <3> QED
      BY <3>2 DEF Usable
  <2> QED
    BY <2>2 DEF FormatOf
<1> QED
  BY <1>1, <1>2, <1>3 DEF Closing, Kind

\* A round keeps what is known of the walk.
LEMMA RoundHolds ==
  ASSUME NEW file \in Files, NEW k \in 1..Len(file.chunks), NEW w,
         Going(file, k - 1, w) \/ Stopped(file, w)
  PROVE  LET next == ReadChunk(Buffered(file), w, file.chunks[k])
         IN Going(file, k, next) \/ Stopped(file, next)
<1> DEFINE len == Buffered(file)
           chunk == file.chunks[k]
           next == ReadChunk(len, w, chunk)
           behind == w.pos + ChunkSize
           found == CASE chunk.id = "fmt"  -> [w EXCEPT !.format = chunk.body]
                      [] chunk.id = "data" -> [w EXCEPT !.offset = behind, !.size = chunk.size]
                      [] OTHER             -> w
           gone == w.over = 1 \/ len - w.pos < ChunkSize
           refused == chunk.id = "fmt" /\ BadFmt(chunk, len - behind)
           last == \/ chunk.id = "data" /\ w.format # "none"
                   \/ Advance(chunk.size) > len - behind
<1>0. /\ gone => next = [w EXCEPT !.over = 1]
      /\ ~ gone /\ refused => next = [w EXCEPT !.over = 1, !.format = "none", !.offset = 0]
      /\ ~ gone /\ ~ refused /\ last => next = [found EXCEPT !.over = 1]
      /\ ~ gone /\ ~ refused /\ ~ last =>
           next = [found EXCEPT !.pos = behind + Advance(chunk.size)]
  BY Zenon DEF ReadChunk
<1> HIDE DEF next, found, gone, refused, last
<1>1. CASE Stopped(file, w)
  <2>1. w.over = 1 /\ w = [pos |-> w.pos, over |-> 1, format |-> w.format, offset |-> w.offset,
                           size |-> w.size]
    BY <1>1 DEF Stopped
  <2>2. next = w
    <3>1. next = [w EXCEPT !.over = 1]
      BY <1>0, <2>1 DEF gone
    <3> QED
      BY <2>1, <3>1
  <2> QED
    BY <1>1, <2>2 DEF next
<1>2. CASE Going(file, k - 1, w)
  <2>1. /\ w = [pos |-> Begins(file)[k], over |-> 0, format |-> FormatOf(file, k - 1),
                offset |-> OffsetOf(file, k - 1), size |-> SizeOf(file, k - 1)]
        /\ 1..(k - 1) \subseteq Heads(file) /\ Closing(file) \cap (1..(k - 1)) = {}
        /\ NoneBad(file, k - 1)
    <3>1. k - 1 + 1 = k
      OBVIOUS
    <3> QED
      BY <1>2, <3>1 DEF Going
  <2>2. /\ w.pos = Begins(file)[k] /\ w.over = 0 /\ w.format = FormatOf(file, k - 1)
        /\ w.offset = OffsetOf(file, k - 1) /\ w.size = SizeOf(file, k - 1)
    BY <2>1
  <2>3. /\ len \in Nat /\ w.pos \in Nat /\ chunk.size \in Nat /\ Advance(chunk.size) \in Nat
        /\ chunk.id \in {"fmt", "data", "other"} /\ w.pos + ChunkSize = Body(file, k)
    <3>1. k \in 1..(Len(file.chunks) + 1)
      BY ListFacts
    <3>2. w.pos \in Nat
      BY <2>2, <3>1, BeginsInOrder
    <3>3. chunk.size \in Nat
      BY ListFacts
    <3>4. Advance(chunk.size) \in Nat
      BY <3>3 DEF Advance
    <3> QED
      BY <2>2, <3>2, <3>3, <3>4, HeadsInOrder, ListFacts DEF Body
  <2>4. Begins(file)[k + 1] = Body(file, k) + Advance(chunk.size)
    BY BeginsRounds DEF Body
  <2>5. gone <=> k \notin Heads(file)
    BY <2>2, <2>3, HeadsInOrder DEF ChunkSize, gone
  <2>6. CASE k \notin Heads(file)
    <3>1. next = [w EXCEPT !.over = 1]
      BY <1>0, <2>5, <2>6
    <3>2. next = [pos |-> w.pos, over |-> 1, format |-> w.format, offset |-> w.offset,
                  size |-> w.size]
      BY <2>1, <3>1
    <3>3. Heads(file) = 1..(k - 1)
      BY <2>1, <2>6, HeadsInOrder
    <3>4. k - 1 \in 0..Len(file.chunks) /\ Closing(file) \cap (1..(k - 1 - 1)) = {}
      BY <2>1, ListFacts
    <3>5. ToRead(file) = 1..(k - 1)
      BY <3>3, <3>4, ReadToHere
    <3> QED
      BY <2>1, <2>2, <3>2, <3>4, <3>5 DEF Stopped, next
  <2>7. CASE k \in Heads(file) /\ chunk.id = "fmt" /\ Bad(file, k)
    <3>1. refused
      BY <2>3, <2>7 DEF Bad, refused
    <3>2. next = [w EXCEPT !.over = 1, !.format = "none", !.offset = 0]
      BY <1>0, <2>5, <2>7, <3>1
    <3>3. next = [pos |-> w.pos, over |-> 1, format |-> "none", offset |-> 0, size |-> w.size]
      BY <2>1, <3>2
    <3>4. k \in Kind(file, "fmt", ToRead(file))
      <4>1. Closing(file) \subseteq Heads(file) /\ Heads(file) \subseteq 1..Len(file.chunks)
        BY HeadsInOrder DEF Closing, Kind
      <4>2. \A d \in Closing(file) : k <= d
        <5> SUFFICES ASSUME NEW d \in Closing(file) PROVE k <= d
          OBVIOUS
        <5>1. d \in 1..Len(file.chunks) /\ d \notin 1..(k - 1) /\ Len(file.chunks) \in Nat
          BY <2>1, <4>1, ListFacts
        <5> QED
          BY <5>1
      <4> QED
        BY <2>7, <4>2 DEF ToRead, Kind
    <3> QED
      BY <2>7, <3>3, <3>4 DEF Stopped, next
  <2>8. CASE k \in Heads(file) /\ (chunk.id = "fmt" => ~ Bad(file, k))
    <3> DEFINE now == [pos |-> w.pos, over |-> 0, format |-> FormatOf(file, k),
                       offset |-> OffsetOf(file, k), size |-> SizeOf(file, k)]
               closes == chunk.id = "data" /\ w.format # "none"
    <3>1. found = now
      <4>1. CASE chunk.id = "fmt"
        <5>1. found = [w EXCEPT !.format = chunk.body]
          BY <4>1 DEF found
        <5>2. now = [pos |-> w.pos, over |-> 0, format |-> chunk.body,
                     offset |-> OffsetOf(file, k - 1), size |-> SizeOf(file, k - 1)]
          BY <4>1, FoundNext
        <5> QED
          BY <2>1, <5>1, <5>2
      <4>2. CASE chunk.id = "data"
        <5>1. found = [w EXCEPT !.offset = behind, !.size = chunk.size]
          BY <4>2 DEF found
        <5>2. now = [pos |-> w.pos, over |-> 0, format |-> FormatOf(file, k - 1),
                     offset |-> behind, size |-> chunk.size]
          BY <2>3, <4>2, FoundNext
        <5> QED
          BY <2>1, <5>1, <5>2
      <4>3. CASE chunk.id = "other"
        <5>1. found = w
          BY <4>3 DEF found
        <5>2. now = [pos |-> w.pos, over |-> 0, format |-> FormatOf(file, k - 1),
                     offset |-> OffsetOf(file, k - 1), size |-> SizeOf(file, k - 1)]
          BY <4>3, FoundNext
        <5> QED
          BY <2>1, <5>1, <5>2
      <4> QED
        BY <2>3, <4>1, <4>2, <4>3
    <3>2. ~ gone /\ ~ refused
      BY <2>3, <2>5, <2>8 DEF Bad, refused
    <3>3. last <=> closes \/ Advance(chunk.size) > len - behind
      BY DEF last
    <3>5. NoneBad(file, k)
      BY <2>1, <2>8, FoundNext
    <3>6. closes <=> k \in Closing(file)
      BY <2>1, <2>2, <2>8, Closes
    <3>7. 1..k \subseteq Heads(file)
      BY <2>8, HeadsInOrder
    <3>8. CASE last
      <4>1. next = [now EXCEPT !.over = 1]
        BY <1>0, <3>1, <3>2, <3>8
      <4>2. next = [pos |-> w.pos, over |-> 1, format |-> FormatOf(file, k),
                    offset |-> OffsetOf(file, k), size |-> SizeOf(file, k)]
        BY <4>1
      <4>3. ToRead(file) = 1..k
        <5>1. CASE closes
          <6>1. \A i \in ToRead(file) : i <= k /\ i \in 1..Len(file.chunks)
            BY <3>6, <5>1, HeadsInOrder DEF ToRead
          <6>2. ToRead(file) \subseteq 1..k
            BY <6>1
          <6>3. \A i \in 1..k, d \in Closing(file) : i <= d
            <7> SUFFICES ASSUME NEW i \in 1..k, NEW d \in Closing(file) PROVE i <= d
              OBVIOUS
            <7>1. d \in 1..Len(file.chunks) /\ d \notin 1..(k - 1) /\ Len(file.chunks) \in Nat
              BY <2>1, HeadsInOrder, ListFacts DEF Closing, Kind
            <7> QED
              BY <7>1
          <6> QED
            BY <3>7, <6>2, <6>3 DEF ToRead
        <5>2. CASE ~ closes
          <6>1. Heads(file) = 1..k
            <7>1. Advance(chunk.size) > len - (w.pos + ChunkSize)
              BY <3>3, <3>8, <5>2
            <7>2. Begins(file)[k + 1] \in Nat /\ Begins(file)[k + 1] > len
              <8>1. w.pos + ChunkSize \in Nat
                BY <2>3 DEF ChunkSize
              <8> QED
                BY <2>3, <2>4, <7>1, <8>1
            <7>3. CASE k = Len(file.chunks)
              BY <3>7, <7>3, HeadsInOrder
            <7>4. CASE k # Len(file.chunks)
              <8>1. k + 1 \in 1..Len(file.chunks) /\ k + 1 - 1 = k
                BY <7>4, ListFacts
              <8>2. Body(file, k + 1) > len
                BY <2>3, <7>2 DEF Body, ChunkSize
              <8>3. Body(file, k + 1) \in Nat
                BY <8>1, HeadsInOrder
              <8>4. k + 1 \notin Heads(file)
                BY <2>3, <8>1, <8>2, <8>3, HeadsInOrder
              <8>5. Heads(file) \subseteq 1..k
                BY <8>1, <8>4, HeadsInOrder
              <8> QED
                BY <3>7, <8>5
            <7> QED
              BY <7>3, <7>4
          <6>2. k \in 0..Len(file.chunks)
            OBVIOUS
          <6> QED
            BY <2>1, <6>1, <6>2, ReadToHere
        <5> QED
          BY <5>1, <5>2
      <4>4. /\ next.pos = w.pos /\ next.format = FormatOf(file, k)
            /\ next.offset = OffsetOf(file, k) /\ next.size = SizeOf(file, k)
        BY <4>2
      <4>5. k \in 0..Len(file.chunks)
        OBVIOUS
      <4> QED
        BY <3>5, <4>2, <4>3, <4>4, <4>5 DEF Stopped, next
    <3>9. CASE ~ last
      <4>1. next = [now EXCEPT !.pos = behind + Advance(chunk.size)]
        BY <1>0, <3>1, <3>2, <3>9
      <4>2. next = [pos |-> Begins(file)[k + 1], over |-> 0, format |-> FormatOf(file, k),
                    offset |-> OffsetOf(file, k), size |-> SizeOf(file, k)]
        BY <2>3, <2>4, <4>1
      <4>3. Closing(file) \cap (1..k) = {}
        <5>1. k \notin Closing(file)
          BY <3>3, <3>6, <3>9
        <5>2. \A i \in 1..k : i = k \/ i \in 1..(k - 1)
          OBVIOUS
        <5> QED
          BY <2>1, <5>1, <5>2
      <4> QED
        BY <3>5, <3>7, <4>2, <4>3 DEF Going, next
    <3> QED
      BY <3>8, <3>9
  <2> QED
    BY <2>6, <2>7, <2>8
<1> QED
  BY <1>1, <1>2

-----------------------------------------------------------------------------
(* The parser. *)

LEMMA WalkIsRight ==
  ASSUME NEW file \in Files
  PROVE  LET w == Walk(file)[Len(file.chunks)]
         IN Going(file, Len(file.chunks), w) \/ Stopped(file, w)
<1> DEFINE N == Len(file.chunks)
           walk == Walk(file)
           P(n) == n <= N => Going(file, n, walk[n]) \/ Stopped(file, walk[n])
           T == {n \in Nat : P(n)}
<1>0. N \in Nat
  BY ListFacts
<1>1. P(0)
  <2>1. Kind(file, "fmt", 1..0) = {} /\ Kind(file, "data", 1..0) = {} /\ 1..0 = {}
    BY DEF Kind
  <2>2. FormatOf(file, 0) = "none" /\ OffsetOf(file, 0) = 0 /\ SizeOf(file, 0) = 0
    BY <2>1 DEF FormatOf, OffsetOf, SizeOf
  <2>3. walk[0] = [pos |-> Begins(file)[0 + 1], over |-> 0, format |-> FormatOf(file, 0),
                   offset |-> OffsetOf(file, 0), size |-> SizeOf(file, 0)]
    BY <2>2, WalkRounds, BeginsRounds DEF AtRiff
  <2> QED
    BY <2>1, <2>3 DEF Going, NoneBad
<1>2. ASSUME NEW n \in Nat, P(n) PROVE P(n + 1)
  <2> SUFFICES ASSUME n + 1 <= N
               PROVE  Going(file, n + 1, walk[n + 1]) \/ Stopped(file, walk[n + 1])
    OBVIOUS
  <2>1. n + 1 \in 1..N /\ n + 1 - 1 = n
    BY <1>0
  <2>2. Going(file, n + 1 - 1, walk[n]) \/ Stopped(file, walk[n])
    BY <1>0, <1>2, <2>1
  <2>3. walk[n + 1] = ReadChunk(Buffered(file), walk[n], file.chunks[n + 1])
    BY <2>1, WalkRounds
  <2> QED
    BY <2>1, <2>2, <2>3, RoundHolds
<1>3. T = Nat
  <2> HIDE DEF P
  <2>1. T \in SUBSET Nat /\ 0 \in T
    BY <1>1
  <2>2. \A n \in T : n + 1 \in T
    <3> SUFFICES ASSUME NEW n \in T PROVE n + 1 \in T
      OBVIOUS
    <3>1. n \in Nat /\ n + 1 \in Nat /\ P(n)
      OBVIOUS
    <3> QED
      BY <1>2, <3>1
  <2> HIDE DEF T
  <2> QED
    BY <2>1, <2>2, Induction
<1> QED
  BY <1>0, <1>3

\* The walk over a list of chunks finds the payload and the format that the list
\* defines, or refuses where the list has none: for every list, damaged sizes and
\* heads behind the end of the buffer included, and every length of the file.
THEOREM ParserIsRight ==
  ASSUME NEW file \in Files
  PROVE  ReadHeader(file) = Expected(file)
<1> DEFINE N == Len(file.chunks)
           w == Walk(file)[N]
           fmts == Kind(file, "fmt", ToRead(file))
           datas == Kind(file, "data", ToRead(file))
<1>0. N \in Nat /\ Buffered(file) \in Nat
  BY ListFacts, HeadsInOrder
<1>1. ReadHeader(file) =
        IF Buffered(file) < RiffSize \/ w.format = "none" \/ w.offset = 0 THEN Refused
        ELSE [offset |-> w.offset, size |-> w.size, format |-> w.format]
  BY DEF ReadHeader
<1>2. Expected(file) =
        IF fmts = {} \/ datas = {} \/ \E f \in fmts : Bad(file, f) THEN Refused
        ELSE [offset |-> Body(file, Latest(datas)), size |-> file.chunks[Latest(datas)].size,
              format |-> file.chunks[Latest(fmts)].body]
  BY DEF Expected
<1>3. CASE Buffered(file) < RiffSize
  <2>1. Heads(file) = {}
    <3> SUFFICES ASSUME NEW i \in Heads(file) PROVE FALSE
      OBVIOUS
    <3>1. i \in 1..N /\ i \in 1..(N + 1)
      BY <1>0, HeadsInOrder
    <3>2. Begins(file)[i] \in Nat /\ RiffSize <= Begins(file)[i]
      BY <3>1, BeginsInOrder
    <3>3. Body(file, i) <= Buffered(file)
      BY <3>1, HeadsInOrder
    <3> QED
      BY <1>0, <1>3, <3>2, <3>3 DEF Body, RiffSize, ChunkSize
  <2>2. fmts = {}
    BY <2>1 DEF Kind, ToRead
  <2> QED
    BY <1>1, <1>2, <1>3, <2>2
<1>4. CASE ~ (Buffered(file) < RiffSize)
  <2>1. ASSUME NEW m \in 0..N, ToRead(file) = 1..m, NoneBad(file, m), w.format = FormatOf(file, m),
               w.offset = OffsetOf(file, m), w.size = SizeOf(file, m)
        PROVE  ReadHeader(file) = Expected(file)
    <3>1. fmts = Kind(file, "fmt", 1..m) /\ datas = Kind(file, "data", 1..m) /\ m \in Nat
      BY <2>1
    <3>2. ~ \E f \in fmts : Bad(file, f)
      BY <2>1, <3>1 DEF NoneBad
    <3>3. fmts # {} => Latest(fmts) \in fmts
      BY <3>1, LatestIsOne
    <3>4. datas # {} => Latest(datas) \in datas
      BY <3>1, LatestIsOne
    <3>5. w.format = "none" <=> fmts = {}
      <4>1. ASSUME fmts # {} PROVE file.chunks[Latest(fmts)].body \in Usable
        BY <3>2, <3>3, <4>1 DEF Bad, BadFmt
      <4> QED
        BY <2>1, <3>1, <4>1 DEF FormatOf, Usable
    <3>6. w.offset = 0 <=> datas = {}
      <4>1. ASSUME datas # {} PROVE Body(file, Latest(datas)) \in Nat /\ Body(file, Latest(datas)) > 0
        <5>1. Latest(datas) \in 1..N
          <6>1. datas \subseteq 1..m
            BY <3>1 DEF Kind
          <6>2. Latest(datas) \in 1..m
            BY <3>4, <4>1, <6>1
          <6> HIDE DEF datas
          <6> QED
            BY <1>0, <2>1, <6>2
        <5> QED
          BY <5>1, HeadsInOrder
      <4> QED
        BY <2>1, <3>1, <4>1 DEF OffsetOf
    <3>7. CASE fmts = {} \/ datas = {}
      BY <1>1, <1>2, <3>5, <3>6, <3>7
    <3>8. CASE fmts # {} /\ datas # {}
      <4>1. /\ w.offset = Body(file, Latest(datas)) /\ w.size = file.chunks[Latest(datas)].size
            /\ w.format = file.chunks[Latest(fmts)].body
        BY <2>1, <3>1, <3>8 DEF OffsetOf, SizeOf, FormatOf
      <4> QED
        BY <1>1, <1>2, <1>4, <3>2, <3>5, <3>6, <3>8, <4>1
    <3> QED
      BY <3>7, <3>8
  <2>2. CASE Going(file, N, w)
    <3>1. /\ 1..N \subseteq Heads(file) /\ Closing(file) \cap (1..N) = {} /\ NoneBad(file, N)
          /\ w.format = FormatOf(file, N) /\ w.offset = OffsetOf(file, N)
          /\ w.size = SizeOf(file, N)
      BY <2>2 DEF Going
    <3>2. Heads(file) = 1..N /\ Closing(file) = {}
      BY <3>1, HeadsInOrder DEF Closing, Kind
    <3>3. ToRead(file) = 1..N
      BY <3>2 DEF ToRead
    <3>4. N \in 0..N
      BY <1>0
    <3> QED
      BY <2>1, <3>1, <3>3, <3>4
  <2>3. CASE Stopped(file, w)
    <3>1. CASE w.format = "none" /\ \E f \in fmts : Bad(file, f)
      BY <1>1, <1>2, <3>1
    <3>2. CASE \E m \in 0..N :
                 /\ ToRead(file) = 1..m /\ NoneBad(file, m) /\ w.format = FormatOf(file, m)
                 /\ w.offset = OffsetOf(file, m) /\ w.size = SizeOf(file, m)
      BY <2>1, <3>2
    <3> QED
      BY <2>3, <3>1, <3>2 DEF Stopped
  <2> QED
    BY <2>2, <2>3, WalkIsRight
<1> QED
  BY <1>3, <1>4

\* What the parser finds behind the header that the writer makes: the payload's
\* place, the size and the format it was made for, however long the file is.
THEOREM HeaderReadsBack ==
  ASSUME NEW size \in 0..MaxDataSize, NEW format \in Usable, NEW length \in Nat,
         HeaderSize <= length
  PROVE  ReadHeader([chunks |-> HeaderChunks(size, format), length |-> length])
           = [offset |-> HeaderSize, size |-> size, format |-> format]
<1> DEFINE fmt == [id |-> "fmt", size |-> FmtSize, body |-> format]
           data == [id |-> "data", size |-> size, body |-> "none"]
           file == [chunks |-> <<fmt, data>>, length |-> length]
<1>0. MaxDataSize \in Nat
  BY WavAssumption DEF MaxDataSize, HeaderSize, RiffSize, ChunkSize, FmtSize
<1>1. size \in Nat /\ size <= MaxDataSize
  BY <1>0
<1>2. HeaderChunks(size, format) = <<fmt, data>>
  BY <1>1 DEF HeaderChunks
<1>3. fmt \in Chunks /\ data \in Chunks
  BY <1>1 DEF Chunks, Bodies, FmtSize
<1>4. file \in Files
  <2> HIDE DEF fmt, data
  <2> QED
    BY <1>3 DEF Files
<1>5. /\ file.chunks = <<fmt, data>> /\ Len(file.chunks) = 2 /\ DOMAIN file.chunks = 1..2
      /\ file.chunks[1] = fmt /\ file.chunks[2] = data /\ file.length = length
  BY <1>4, ListFacts
<1>6. /\ fmt.id = "fmt" /\ fmt.size = 16 /\ fmt.body = format
      /\ data.id = "data" /\ data.size = size
  BY DEF FmtSize
<1> HIDE DEF fmt, data, file
<1>7. Body(file, 1) = 20 /\ Body(file, 2) = HeaderSize /\ HeaderSize = 44
  <2>1. Begins(file)[1] = 12
    BY <1>4, BeginsRounds DEF RiffSize
  <2>2. Begins(file)[1 + 1] = Begins(file)[1] + ChunkSize + Advance(16)
    <3>1. 1 \in 1..Len(file.chunks)
      BY <1>5
    <3>2. Begins(file)[1 + 1] = Begins(file)[1] + ChunkSize + Advance(file.chunks[1].size)
      BY <1>4, <3>1, BeginsRounds
    <3> QED
      BY <1>5, <1>6, <3>2
  <2>3. Begins(file)[2] = 36
    BY <2>1, <2>2 DEF ChunkSize, Advance
  <2> QED
    BY <2>1, <2>3 DEF Body, ChunkSize, HeaderSize, RiffSize, FmtSize
<1>8. Buffered(file) \in Nat /\ Buffered(file) >= 44
  BY <1>5, <1>7, WavAssumption DEF Buffered, Smaller
<1>9. Heads(file) = {1, 2}
  BY <1>5, <1>7, <1>8 DEF Heads
<1>10. Kind(file, "fmt", {1, 2}) = {1} /\ Kind(file, "data", {1, 2}) = {2}
  BY <1>5, <1>6 DEF Kind
<1>11. ToRead(file) = {1, 2}
  <2>1. Closing(file) = {2}
    BY <1>9, <1>10 DEF Closing
  <2> QED
    BY <1>9, <2>1 DEF ToRead
<1>12. ~ Bad(file, 1)
  BY <1>5, <1>6, <1>7, <1>8 DEF Bad, BadFmt, FmtSize
<1>13. Latest({1}) = 1 /\ Latest({2}) = 2
  BY DEF Latest
<1>14. Expected(file) = [offset |-> HeaderSize, size |-> size, format |-> format]
  BY <1>5, <1>6, <1>7, <1>10, <1>11, <1>12, <1>13 DEF Expected
<1> QED
  BY <1>2, <1>4, <1>14, ParserIsRight DEF file
=============================================================================
