--------------------------- MODULE K12BatchProofs ---------------------------
(***************************************************************************)
(* What K12Batch promises, for every size of a chunk and of a block, any   *)
(* number of sessions, any lengths and any number of calls.                *)
(***************************************************************************)
EXTENDS K12Batch, SequenceTheorems, TLAPS

-----------------------------------------------------------------------------
(* Division.                                                               *)

(* Quotient and remainder of a natural number. *)
LEMMA DivMod ==
    ASSUME NEW n \in Nat, NEW r \in Nat \ {0}
    PROVE  /\ n \div r \in Nat /\ n % r \in 0..r-1
           /\ n = r * (n \div r) + (n % r)
OBVIOUS

(* They are determined by k r + m. *)
LEMMA DivModUnique ==
    ASSUME NEW r \in Nat \ {0}, NEW k \in Nat, NEW m \in 0..r-1
    PROVE  (r * k + m) \div r = k /\ (r * k + m) % r = m
OBVIOUS

(* The next multiple of the rate after n. *)
LEMMA RoundUp ==
    ASSUME NEW n \in Nat, NEW r \in Nat \ {0}
    PROVE  /\ n + r - (n % r) \in Nat /\ r - (n % r) \in 1..r
           /\ (n + r - (n % r)) % r = 0
           /\ n + r - (n % r) = r * (n \div r + 1)
<1> DEFINE q == n \div r
           m == n % r
<1>1. q \in Nat /\ m \in 0..r-1 /\ n = r * q + m
  BY DivMod
<1> HIDE DEF q, m
<1>2. n + r - m = r * (q + 1)
  BY <1>1
<1>3. (r * (q + 1) + 0) % r = 0
  <2>1. q + 1 \in Nat /\ 0 \in 0..r-1
    BY <1>1
  <2> QED BY <2>1, DivModUnique
<1>4. r * (q + 1) + 0 = r * (q + 1)
  BY <1>1
<1> QED BY <1>1, <1>2, <1>3, <1>4 DEF q, m

-----------------------------------------------------------------------------
(* The bytes that are absorbed, and the sequences of them.                 *)

Bytes == {<<"m", s, i>> : s \in Session, i \in Nat} \cup {Byte(n) : n \in Nat}

(* Of the final node: its bytes, and the chaining values. *)
Symbols == Bytes \cup {ChainingValue(p) : p \in Seq(Bytes)}

(* The smaller of two numbers, as the code's min. *)
LEMMA MinOfTwo ==
    ASSUME NEW a \in Int, NEW b \in Int
    PROVE  Min({a, b}) = IF a <= b THEN a ELSE b
BY DEF Min

(* The length of a concatenation. *)
LEMMA ConcatType ==
    ASSUME NEW S, NEW a \in Seq(S), NEW b \in Seq(S)
    PROVE  a \o b \in Seq(S) /\ Len(a \o b) = Len(a) + Len(b)
OBVIOUS

(* Padding appends at least one byte and at most a block. *)
LEMMA PadType ==
    ASSUME NEW n \in Nat, NEW domain \in Nat
    PROVE  /\ Pad10Star1(n, domain) \in Seq(Bytes)
           /\ Len(Pad10Star1(n, domain)) = Rate - (n % Rate)
<1> DEFINE padding == Rate - (n % Rate)
           zeros == [i \in 1..padding-2 |-> Byte(0)]
<1>1. padding \in 1..Rate
  BY RoundUp, TreeAssumption
<1>2. \A k \in Nat : Byte(k) \in Bytes
  BY DEF Bytes
<1>3. CASE padding = 1
  <2>1. Pad10Star1(n, domain) = <<Byte(domain + 128)>>
    BY <1>3 DEF Pad10Star1
  <2> QED BY <1>2, <1>3, <2>1
<1>4. CASE padding # 1
  <2>1. Pad10Star1(n, domain) = (<<Byte(domain)>> \o zeros) \o <<Byte(128)>>
    BY <1>4 DEF Pad10Star1
  <2> HIDE DEF padding
  <2>2. padding \in Nat /\ padding - 2 \in Nat
    BY <1>1, <1>4, TreeAssumption
  <2>3. zeros \in Seq(Bytes) /\ Len(zeros) = padding - 2
    BY <1>2, <2>2
  <2> HIDE DEF zeros
  <2> DEFINE first == <<Byte(domain)>>
             last == <<Byte(128)>>
  <2>4. /\ first \in Seq(Bytes) /\ Len(first) = 1
        /\ last \in Seq(Bytes) /\ Len(last) = 1
    BY <1>2
  <2> HIDE DEF first, last
  <2>5. first \o zeros \in Seq(Bytes) /\ Len(first \o zeros) = 1 + (padding - 2)
    <3>1. first \o zeros \in Seq(Bytes) /\ Len(first \o zeros) = Len(first) + Len(zeros)
      BY <2>3, <2>4, ConcatType
    <3>2. Len(first) + Len(zeros) = 1 + (padding - 2)
      BY <2>3, <2>4
    <3> QED BY <3>1, <3>2
  <2>6. /\ (first \o zeros) \o last \in Seq(Bytes)
        /\ Len((first \o zeros) \o last) = (1 + (padding - 2)) + 1
    <3>1. /\ (first \o zeros) \o last \in Seq(Bytes)
          /\ Len((first \o zeros) \o last) = Len(first \o zeros) + Len(last)
      BY <2>4, <2>5, ConcatType
    <3> QED BY <2>4, <2>5, <3>1
  <2>7. (1 + (padding - 2)) + 1 = padding
    BY <2>2
  <2>8. Pad10Star1(n, domain) = (first \o zeros) \o last
    BY <2>1 DEF first, last
  <2>9. Pad10Star1(n, domain) \in Seq(Bytes) /\ Len(Pad10Star1(n, domain)) = padding
    BY <2>6, <2>7, <2>8
  <2> QED BY <2>9 DEF padding
<1> QED BY <1>3, <1>4

(* A leaf's bytes may stand in a final node. *)
LEMMA BytesAreSymbols == Seq(Bytes) \subseteq Seq(Symbols)
<1>1. Bytes \subseteq Symbols
  BY DEF Symbols
<1> QED BY <1>1, SeqMonotonic

(* A padded input fills whole blocks. *)
LEMMA PaddedType ==
    ASSUME NEW S, Bytes \subseteq S, NEW data \in Seq(S), NEW domain \in Nat
    PROVE  /\ Padded(data, domain) \in Seq(S)
           /\ Len(Padded(data, domain)) = PaddedLen(Len(data))
           /\ Len(Padded(data, domain)) % Rate = 0
           /\ Len(Padded(data, domain)) \in Nat \ {0}
<1> DEFINE n == Len(data)
           pad == Pad10Star1(n, domain)
<1>1. n \in Nat
  OBVIOUS
<1>2. pad \in Seq(S) /\ Len(pad) = Rate - (n % Rate)
  BY <1>1, PadType, SeqMonotonic
<1>3. Len(Pad10Star1(n, Leaf)) = Rate - (n % Rate)
  BY <1>1, PadType DEF Leaf
<1>4. /\ Padded(data, domain) \in Seq(S)
      /\ Len(Padded(data, domain)) = n + (Rate - (n % Rate))
  BY <1>2, ConcatProperties DEF Padded
<1>5. PaddedLen(n) = n + (Rate - (n % Rate))
  BY <1>3 DEF PaddedLen
<1> HIDE DEF n
<1>6. /\ n + Rate - (n % Rate) \in Nat /\ Rate - (n % Rate) \in 1..Rate
      /\ (n + Rate - (n % Rate)) % Rate = 0
  BY <1>1, RoundUp, TreeAssumption
<1>7. /\ n + (Rate - (n % Rate)) = n + Rate - (n % Rate)
      /\ n + (Rate - (n % Rate)) \in Nat \ {0}
  BY <1>1, <1>6, TreeAssumption
<1> QED BY <1>4, <1>5, <1>6, <1>7 DEF n

-----------------------------------------------------------------------------
(* The chunks of a message.                                                *)

Lengthy == lengths \in [Session -> Nat]

(* The encoded message is the message, and the suffix byte. *)
LEMMA EncodedType ==
    Lengthy => \A s \in Session :
        /\ Message(s) \in Seq(Bytes) /\ Len(Message(s)) = lengths[s]
        /\ Encoded(Message(s)) \in Seq(Bytes)
        /\ Len(Encoded(Message(s))) = lengths[s] + 1
        /\ \A i \in 1..lengths[s] : Encoded(Message(s))[i] = Message(s)[i]
        /\ Encoded(Message(s))[lengths[s] + 1] = Byte(0)
<1> SUFFICES ASSUME Lengthy, NEW s \in Session
             PROVE  /\ Message(s) \in Seq(Bytes) /\ Len(Message(s)) = lengths[s]
                    /\ Encoded(Message(s)) \in Seq(Bytes)
                    /\ Len(Encoded(Message(s))) = lengths[s] + 1
                    /\ \A i \in 1..lengths[s] : Encoded(Message(s))[i] = Message(s)[i]
                    /\ Encoded(Message(s))[lengths[s] + 1] = Byte(0)
  OBVIOUS
<1> DEFINE n == lengths[s]
<1>1. n \in Nat
  BY DEF Lengthy
<1>2. \A i \in 1..n : <<"m", s, i>> \in Bytes
  BY <1>1 DEF Bytes
<1>3. Message(s) = [i \in 1..n |-> <<"m", s, i>>]
  BY DEF Message
<1> HIDE DEF n
<1>4. Message(s) \in Seq(Bytes) /\ Len(Message(s)) = n
  BY <1>1, <1>2, <1>3
<1>5. LengthEncode(0) = <<Byte(0)>> /\ <<Byte(0)>> \in Seq(Bytes)
      /\ Len(<<Byte(0)>>) = 1 /\ <<Byte(0)>>[1] = Byte(0)
  BY DEF LengthEncode, Bytes
<1>6. Encoded(Message(s)) = Message(s) \o <<Byte(0)>>
  BY <1>5 DEF Encoded
<1>7. /\ Encoded(Message(s)) \in Seq(Bytes) /\ Len(Encoded(Message(s))) = n + 1
      /\ \A i \in 1..n+1 : Encoded(Message(s))[i] =
            IF i <= n THEN Message(s)[i] ELSE <<Byte(0)>>[i - n]
  BY <1>1, <1>4, <1>5, <1>6, ConcatProperties
<1>8. /\ \A i \in 1..n : Encoded(Message(s))[i] = Message(s)[i]
      /\ Encoded(Message(s))[n + 1] = Byte(0)
  <2>1. n + 1 \in 1..n+1 /\ ~(n + 1 <= n) /\ (n + 1) - n = 1
    BY <1>1
  <2>2. Encoded(Message(s))[n + 1] = <<Byte(0)>>[1]
    BY <1>7, <2>1
  <2>3. \A i \in 1..n : i \in 1..n+1 /\ i <= n
    BY <1>1
  <2> QED BY <1>5, <1>7, <2>2, <2>3
<1> QED BY <1>4, <1>7, <1>8 DEF n

(* A slice within a sequence has the length of its bounds. *)
LEMMA SubSeqType ==
    ASSUME NEW S, NEW a \in Seq(S), NEW m \in 1..Len(a)+1, NEW n \in m-1..Len(a)
    PROVE  /\ SubSeq(a, m, n) \in Seq(S) /\ Len(SubSeq(a, m, n)) = n - m + 1
           /\ \A i \in 1..n-m+1 : SubSeq(a, m, n)[i] = a[m + i - 1]
OBVIOUS

(* Where the chunk i of a message of n bytes ends, in its encoding. *)
ChunkEnd(n, i) == IF (i + 1) * ChunkSize <= n + 1 THEN (i + 1) * ChunkSize ELSE n + 1

(* The places of a chunk lie inside the encoded message. *)
LEMMA ChunkBounds ==
    ASSUME NEW n \in Nat, NEW i \in 1..Leaves(n)
    PROVE  /\ i * ChunkSize \in Nat /\ i * ChunkSize <= n
           /\ ChunkEnd(n, i) \in 1..n+1
           /\ ChunkEnd(n, i) - i * ChunkSize \in 1..ChunkSize
<1> DEFINE q == n \div ChunkSize
           m == n % ChunkSize
<1>1. q \in Nat /\ m \in 0..ChunkSize-1 /\ n = ChunkSize * q + m
  BY DivMod, TreeAssumption
<1>2. i \in 1..q
  BY DEF Leaves
<1> HIDE DEF q, m
<1>3. i * ChunkSize <= ChunkSize * q
  BY <1>1, <1>2, TreeAssumption
<1>4. /\ i * ChunkSize \in Nat /\ ChunkSize * q \in Nat
      /\ (i + 1) * ChunkSize = i * ChunkSize + ChunkSize
  BY <1>1, <1>2, TreeAssumption
<1> DEFINE a == i * ChunkSize
           b == ChunkSize * q
<1>5. ChunkEnd(n, i) = IF a + ChunkSize <= n + 1 THEN a + ChunkSize ELSE n + 1
  BY <1>4 DEF ChunkEnd
<1>6. a \in Nat /\ b \in Nat /\ a <= b /\ n = b + m
  BY <1>1, <1>3, <1>4
<1> HIDE DEF a, b
<1>7. a <= n /\ ChunkEnd(n, i) \in 1..n+1 /\ ChunkEnd(n, i) - a \in 1..ChunkSize
  BY <1>1, <1>5, <1>6, TreeAssumption
<1> QED BY <1>4, <1>7 DEF a

(* The chunk i of a message, and the bytes of it. *)
LEMMA ChunkType ==
    Lengthy => \A s \in Session : \A i \in 1..Leaves(lengths[s]) :
        /\ Chunk(Message(s), i) \in Seq(Bytes)
        /\ Len(Chunk(Message(s), i)) = ChunkEnd(lengths[s], i) - i * ChunkSize
        /\ \A j \in 1..Len(Chunk(Message(s), i)) :
              Chunk(Message(s), i)[j] = Encoded(Message(s))[i * ChunkSize + j]
<1> SUFFICES ASSUME Lengthy, NEW s \in Session, NEW i \in 1..Leaves(lengths[s])
             PROVE  /\ Chunk(Message(s), i) \in Seq(Bytes)
                    /\ Len(Chunk(Message(s), i)) = ChunkEnd(lengths[s], i) - i * ChunkSize
                    /\ \A j \in 1..Len(Chunk(Message(s), i)) :
                         Chunk(Message(s), i)[j] = Encoded(Message(s))[i * ChunkSize + j]
  OBVIOUS
<1> DEFINE n == lengths[s]
           e == Encoded(Message(s))
           a == i * ChunkSize
           z == ChunkEnd(n, i)
<1>1. n \in Nat /\ e \in Seq(Bytes) /\ Len(e) = n + 1
  BY EncodedType DEF Lengthy
<1>2. a \in Nat /\ a <= n /\ z \in 1..n+1 /\ z - a \in 1..ChunkSize
  BY <1>1, ChunkBounds
<1>3. Chunk(Message(s), i) = SubSeq(e, a + 1, z)
  <2>1. (i + 1) * ChunkSize \in Int
    BY <1>1, TreeAssumption
  <2>2. Min({(i + 1) * ChunkSize, n + 1}) = z
    BY <1>1, <2>1, MinOfTwo DEF ChunkEnd
  <2> QED BY <1>1, <2>2 DEF Chunk
<1> HIDE DEF n, e, a, z
<1>4. a + 1 \in 1..Len(e)+1 /\ z \in (a+1)-1..Len(e) /\ z - (a + 1) + 1 = z - a
  BY <1>1, <1>2, TreeAssumption
<1>5. /\ SubSeq(e, a + 1, z) \in Seq(Bytes) /\ Len(SubSeq(e, a + 1, z)) = z - (a + 1) + 1
      /\ \A j \in 1..z-(a+1)+1 : SubSeq(e, a + 1, z)[j] = e[(a + 1) + j - 1]
  BY <1>1, <1>4, SubSeqType
<1>6. \A j \in 1..z-a : (a + 1) + j - 1 = a + j
  BY <1>2
<1>7. /\ Chunk(Message(s), i) \in Seq(Bytes) /\ Len(Chunk(Message(s), i)) = z - a
      /\ \A j \in 1..z-a : Chunk(Message(s), i)[j] = e[a + j]
  BY <1>3, <1>4, <1>5, <1>6
<1> QED BY <1>7 DEF n, e, a, z

(* Sequences of one length with the same elements are one.                 *)
LEMMA SameElements ==
    ASSUME NEW S, NEW a \in Seq(S), NEW b \in Seq(S), Len(a) = Len(b),
           \A i \in 1..Len(a) : a[i] = b[i]
    PROVE  a = b
BY SeqEqual

(* Chunks are known by their session and their place. *)
LEMMA ChunkIds ==
    /\ \A s : \A i : <<s, i>>[1] = s /\ <<s, i>>[2] = i
    /\ \A s \in Session : \A i \in 1..Leaves(lengths[s]) : <<s, i>> \in AllChunks
    /\ \A id \in AllChunks :
          /\ id[1] \in Session /\ id[2] \in 1..Leaves(lengths[id[1]])
          /\ id = <<id[1], id[2]>>
BY DEF AllChunks, ChunksOf

(* A padded chunk fills whole blocks. *)
LEMMA PaddedChunkType ==
    Lengthy => \A id \in AllChunks :
        /\ PaddedChunk(id) \in Seq(Bytes)
        /\ Len(PaddedChunk(id)) = PaddedLen(Len(Chunk(Message(id[1]), id[2])))
        /\ Len(PaddedChunk(id)) % Rate = 0 /\ Len(PaddedChunk(id)) \in Nat \ {0}
<1> SUFFICES ASSUME Lengthy, NEW id \in AllChunks
             PROVE  /\ PaddedChunk(id) \in Seq(Bytes)
                    /\ Len(PaddedChunk(id)) = PaddedLen(Len(Chunk(Message(id[1]), id[2])))
                    /\ Len(PaddedChunk(id)) % Rate = 0
                    /\ Len(PaddedChunk(id)) \in Nat \ {0}
  OBVIOUS
<1>1. Chunk(Message(id[1]), id[2]) \in Seq(Bytes)
  BY ChunkIds, ChunkType
<1>2. Leaf \in Nat
  BY DEF Leaf
<1> QED BY <1>1, <1>2, PaddedType DEF PaddedChunk

-----------------------------------------------------------------------------
(* The final node.                                                         *)

(* A function on 1..n is a sequence of length n. *)
LEMMA FunctionIsSeq ==
    ASSUME NEW S, NEW n \in Nat, NEW f \in [1..n -> S]
    PROVE  f \in Seq(S) /\ Len(f) = n
BY SeqDef

(* The chaining values of s in the tree of its message. *)
ExactCVs(s) == [i \in 1..Leaves(lengths[s]) |-> ChainingValue(PaddedChunk(<<s, i>>))]

(* A tree has no leaves exactly when one chunk holds the message. *)
LEMMA LeavesType ==
    Lengthy => \A s \in Session :
        /\ Leaves(lengths[s]) \in Nat
        /\ ChunksOf(s) = {} <=> Leaves(lengths[s]) = 0
        /\ Leaves(lengths[s]) = 0 <=> lengths[s] + 1 <= ChunkSize
<1> SUFFICES ASSUME Lengthy, NEW s \in Session
             PROVE  /\ Leaves(lengths[s]) \in Nat
                    /\ ChunksOf(s) = {} <=> Leaves(lengths[s]) = 0
                    /\ Leaves(lengths[s]) = 0 <=> lengths[s] + 1 <= ChunkSize
  OBVIOUS
<1> DEFINE n == lengths[s]
           q == n \div ChunkSize
           m == n % ChunkSize
<1>1. n \in Nat
  BY DEF Lengthy
<1>2. q \in Nat /\ m \in 0..ChunkSize-1 /\ n = ChunkSize * q + m
  BY <1>1, DivMod, TreeAssumption
<1>3. Leaves(n) = q
  BY DEF Leaves
<1>4. ChunksOf(s) = {<<s, i>> : i \in 1..q}
  BY <1>3 DEF ChunksOf
<1> HIDE DEF n, q, m
<1>5. q = 0 <=> n + 1 <= ChunkSize
  <2>1. CASE q = 0
    BY <1>1, <1>2, <2>1, TreeAssumption
  <2>2. CASE q >= 1
    <3>1. ChunkSize * q >= ChunkSize /\ ChunkSize * q \in Nat
      BY <1>2, <2>2, TreeAssumption
    <3> QED BY <1>1, <1>2, <2>2, <3>1, TreeAssumption
  <2> QED BY <1>2, <2>1, <2>2
<1>6. ChunksOf(s) = {} <=> q = 0
  <2>1. CASE q = 0
    BY <1>4, <2>1
  <2>2. CASE q # 0
    <3>1. 1 \in 1..q
      BY <1>2, <2>2
    <3>2. <<s, 1>> \in ChunksOf(s)
      BY <1>4, <3>1
    <3> QED BY <2>2, <3>2
  <2> QED BY <2>1, <2>2
<1> QED BY <1>2, <1>3, <1>5, <1>6 DEF n

(* The first chunk goes into the final node as it is. *)
LEMMA FirstChunkType ==
    Lengthy => \A s \in Session :
        /\ FirstChunk(Message(s)) \in Seq(Bytes)
        /\ lengths[s] + 1 <= ChunkSize => FirstChunk(Message(s)) = Encoded(Message(s))
<1> SUFFICES ASSUME Lengthy, NEW s \in Session
             PROVE  /\ FirstChunk(Message(s)) \in Seq(Bytes)
                    /\ lengths[s] + 1 <= ChunkSize
                          => FirstChunk(Message(s)) = Encoded(Message(s))
  OBVIOUS
<1> DEFINE n == lengths[s]
           e == Encoded(Message(s))
           z == IF ChunkSize <= n + 1 THEN ChunkSize ELSE n + 1
<1>1. n \in Nat /\ e \in Seq(Bytes) /\ Len(e) = n + 1
  BY EncodedType DEF Lengthy
<1>2. FirstChunk(Message(s)) = SubSeq(e, 1, z)
  <2>1. Min({ChunkSize, n + 1}) = z
    BY <1>1, TreeAssumption, MinOfTwo
  <2> QED BY <1>1, <2>1 DEF FirstChunk
<1>3. z \in 0..n+1 /\ 1 \in 1..n+2 /\ (n + 1 <= ChunkSize => z = n + 1)
  BY <1>1, TreeAssumption
<1> HIDE DEF n, e, z
<1>4. SubSeq(e, 1, z) \in Seq(Bytes)
  BY <1>1, <1>3, SubSeqType
<1>5. n + 1 <= ChunkSize => SubSeq(e, 1, z) = e
  BY <1>1, <1>3, SubSeqFull
<1> QED BY <1>2, <1>4, <1>5 DEF n, e

(* The input of a final node is a sequence of symbols. *)
LEMMA FinalInputType ==
    ASSUME NEW first \in Seq(Bytes), NEW values \in Seq(Symbols)
    PROVE  FinalInput(first, values) \in Seq(Symbols)
<1>1. \A k \in Nat : Byte(k) \in Symbols
  BY DEF Symbols, Bytes
<1>2. first \in Seq(Symbols)
  BY BytesAreSymbols
<1>3. Len(values) \in Nat
  OBVIOUS
<1> DEFINE marker == <<Byte(3)>>
           zeros == [i \in 1..7 |-> Byte(0)]
           count == LengthEncode(Len(values))
           end == <<Byte(255), Byte(255)>>
<1>4. marker \in Seq(Symbols) /\ zeros \in Seq(Symbols) /\ end \in Seq(Symbols)
  BY <1>1
<1>5. count \in Seq(Symbols)
  BY <1>1, <1>3 DEF LengthEncode
<1>6. FinalInput(first, values) = ((((first \o marker) \o zeros) \o values) \o count) \o end
  BY DEF FinalInput
<1> HIDE DEF marker, zeros, count, end
<1> DEFINE a == first \o marker
           b == a \o zeros
           c == b \o values
           d == c \o count
<1>7. a \in Seq(Symbols)
  BY <1>2, <1>4, ConcatType
<1> HIDE DEF a
<1>8. b \in Seq(Symbols)
  BY <1>4, <1>7, ConcatType
<1> HIDE DEF b
<1>9. c \in Seq(Symbols)
  BY <1>8, ConcatType
<1> HIDE DEF c
<1>10. d \in Seq(Symbols)
  BY <1>5, <1>9, ConcatType
<1> HIDE DEF d
<1>11. d \o end \in Seq(Symbols)
  BY <1>4, <1>10, ConcatType
<1> QED BY <1>6, <1>11 DEF a, b, c, d

(* Any final node fills whole blocks, and the exact one is the tree's.     *)
LEMMA FinalNode ==
    Lengthy => \A s \in Session :
        /\ \A values \in Seq(Symbols) :
              /\ Padded(FinalInput(FirstChunk(Message(s)), values), Tree) \in Seq(Symbols)
              /\ Len(Padded(FinalInput(FirstChunk(Message(s)), values), Tree)) % Rate = 0
        /\ Padded(FirstChunk(Message(s)), Single) \in Seq(Symbols)
        /\ Len(Padded(FirstChunk(Message(s)), Single)) % Rate = 0
        /\ ExactCVs(s) \in Seq(Symbols)
        /\ Kangaroo(Message(s)) =
              IF ChunksOf(s) = {} THEN Padded(FirstChunk(Message(s)), Single)
              ELSE Padded(FinalInput(FirstChunk(Message(s)), ExactCVs(s)), Tree)
<1> SUFFICES ASSUME Lengthy, NEW s \in Session
             PROVE
        /\ \A values \in Seq(Symbols) :
              /\ Padded(FinalInput(FirstChunk(Message(s)), values), Tree) \in Seq(Symbols)
              /\ Len(Padded(FinalInput(FirstChunk(Message(s)), values), Tree)) % Rate = 0
        /\ Padded(FirstChunk(Message(s)), Single) \in Seq(Symbols)
        /\ Len(Padded(FirstChunk(Message(s)), Single)) % Rate = 0
        /\ ExactCVs(s) \in Seq(Symbols)
        /\ Kangaroo(Message(s)) =
              IF ChunksOf(s) = {} THEN Padded(FirstChunk(Message(s)), Single)
              ELSE Padded(FinalInput(FirstChunk(Message(s)), ExactCVs(s)), Tree)
  OBVIOUS
<1>1. Tree \in Nat /\ Single \in Nat /\ Bytes \subseteq Symbols
  BY DEF Tree, Single, Symbols
<1>2. FirstChunk(Message(s)) \in Seq(Bytes) /\ FirstChunk(Message(s)) \in Seq(Symbols)
  BY FirstChunkType, BytesAreSymbols
<1>3. ASSUME NEW values \in Seq(Symbols)
      PROVE  /\ Padded(FinalInput(FirstChunk(Message(s)), values), Tree) \in Seq(Symbols)
             /\ Len(Padded(FinalInput(FirstChunk(Message(s)), values), Tree)) % Rate = 0
  <2>1. FinalInput(FirstChunk(Message(s)), values) \in Seq(Symbols)
    BY <1>2, FinalInputType
  <2> QED BY <1>1, <2>1, PaddedType
<1>4. /\ Padded(FirstChunk(Message(s)), Single) \in Seq(Symbols)
      /\ Len(Padded(FirstChunk(Message(s)), Single)) % Rate = 0
  BY <1>1, <1>2, PaddedType
<1>5. ExactCVs(s) \in Seq(Symbols)
  <2>1. \A i \in 1..Leaves(lengths[s]) : PaddedChunk(<<s, i>>) \in Seq(Bytes)
    BY ChunkIds, PaddedChunkType
  <2>2. \A i \in 1..Leaves(lengths[s]) : ChainingValue(PaddedChunk(<<s, i>>)) \in Symbols
    BY <2>1 DEF Symbols
  <2>3. Leaves(lengths[s]) \in Nat
    BY LeavesType
  <2>4. ExactCVs(s) \in [1..Leaves(lengths[s]) -> Symbols]
    BY <2>2 DEF ExactCVs
  <2> QED BY <2>3, <2>4, FunctionIsSeq
<1>6. /\ Len(Message(s)) = lengths[s] /\ Len(Encoded(Message(s))) = lengths[s] + 1
      /\ ChunksOf(s) = {} <=> lengths[s] + 1 <= ChunkSize
      /\ lengths[s] + 1 <= ChunkSize => FirstChunk(Message(s)) = Encoded(Message(s))
  BY EncodedType, LeavesType, FirstChunkType
<1>7. ExactCVs(s) = [i \in 1..Leaves(lengths[s]) |->
                       ChainingValue(Padded(Chunk(Message(s), i), Leaf))]
  BY ChunkIds DEF ExactCVs, PaddedChunk
<1>8. Kangaroo(Message(s)) =
              IF ChunksOf(s) = {} THEN Padded(FirstChunk(Message(s)), Single)
              ELSE Padded(FinalInput(FirstChunk(Message(s)), ExactCVs(s)), Tree)
  BY <1>6, <1>7 DEF Kangaroo
<1> QED BY <1>3, <1>4, <1>5, <1>8

-----------------------------------------------------------------------------
(* The vectorized cut.  With r the bytes of the last chunk, the suffix     *)
(* counted: if r is 0, the full chunks take the byte of the suffix from    *)
(* the message, which does not have it.                                    *)

(* The vectorized cut's numbers: remainder 0 fails, any other is the last chunk's. *)
LEMMA CutArithmetic ==
    ASSUME NEW n \in Nat, n >= ChunkSize,
           NEW F, F = (n - ChunkSize + 1) \div ChunkSize,
           NEW r, r = (n - ChunkSize + 1) % ChunkSize
    PROVE  /\ F \in Nat /\ r \in 0..ChunkSize-1
           /\ F * ChunkSize \in Nat /\ n + 1 = F * ChunkSize + ChunkSize + r
           /\ r = 0 => F > 0 /\ Leaves(n) = F
           /\ r > 0 => Leaves(n) = F + 1
<1> DEFINE m == n - ChunkSize + 1
<1>1. m \in Nat \ {0} /\ n = m + ChunkSize - 1
  BY TreeAssumption
<1>2. F \in Nat /\ r \in 0..ChunkSize-1 /\ m = ChunkSize * F + r
  BY <1>1, DivMod, TreeAssumption
<1> HIDE DEF m
<1>3. ChunkSize * F = F * ChunkSize /\ F * ChunkSize \in Nat
  BY <1>2, TreeAssumption
<1>4. n + 1 = F * ChunkSize + ChunkSize + r
  <2> DEFINE a == F * ChunkSize
  <2>1. a \in Nat /\ m = a + r
    BY <1>2, <1>3
  <2> HIDE DEF a
  <2>2. n + 1 = a + ChunkSize + r
    BY <1>1, <1>2, <2>1, TreeAssumption
  <2> QED BY <2>2 DEF a
<1>5. ASSUME r = 0 PROVE F > 0 /\ Leaves(n) = F
  <2>1. F > 0
    BY <1>1, <1>2, <1>5, TreeAssumption
  <2>2. n = ChunkSize * F + (ChunkSize - 1)
    BY <1>1, <1>2, <1>3, <1>5, TreeAssumption
  <2>3. ChunkSize - 1 \in 0..ChunkSize-1
    BY TreeAssumption
  <2>4. n \div ChunkSize = F
    BY <1>2, <2>2, <2>3, DivModUnique, TreeAssumption
  <2> QED BY <2>1, <2>4 DEF Leaves
<1>6. ASSUME r > 0 PROVE Leaves(n) = F + 1
  <2>1. ChunkSize * (F + 1) = ChunkSize * F + ChunkSize
    BY <1>2, TreeAssumption
  <2>2. n = ChunkSize * (F + 1) + (r - 1)
    <3> DEFINE a == ChunkSize * F
    <3>1. a \in Nat /\ m = a + r
      BY <1>2, <1>3
    <3> HIDE DEF a
    <3>2. n = (a + ChunkSize) + (r - 1)
      BY <1>1, <1>2, <3>1, TreeAssumption
    <3> QED BY <2>1, <3>2 DEF a
  <2>3. r - 1 \in 0..ChunkSize-1 /\ F + 1 \in Nat
    BY <1>2, <1>6, TreeAssumption
  <2>4. n \div ChunkSize = F + 1
    BY <2>2, <2>3, DivModUnique, TreeAssumption
  <2> QED BY <2>4 DEF Leaves
<1> QED BY <1>2, <1>3, <1>4, <1>5, <1>6

Cut ==
    /\ FullChunks \in Nat /\ LastChunkLen \in 0..ChunkSize-1
    /\ FullChunks * ChunkSize \in Nat
    /\ lengths[1] + 1 = FullChunks * ChunkSize + ChunkSize + LastChunkLen
    /\ LastChunkLen = 0 => FullChunks > 0 /\ ~FullChunksReshape
    /\ LastChunkLen > 0 => FullChunksReshape
    /\ \A s \in Session :
          /\ lengths[s] = lengths[1] /\ lengths[s] \in Nat
          /\ LastChunkLen = 0 => Leaves(lengths[s]) = FullChunks
          /\ LastChunkLen > 0 => Leaves(lengths[s]) = FullChunks + 1

(* The same for a call that the program accepts. *)
LEMMA CutIs == Lengthy /\ Accepts => Cut
<1> SUFFICES ASSUME Lengthy, Accepts PROVE Cut
  OBVIOUS
<1> DEFINE n == lengths[1]
           F == FullChunks
           r == LastChunkLen
<1>1. 1 \in Session
  BY BatchAssumption DEF Session
<1>2. /\ n \in Nat /\ n >= ChunkSize
      /\ \A s \in Session : lengths[s] = n
  BY <1>1 DEF Lengthy, Accepts
<1>3. F = (n - ChunkSize + 1) \div ChunkSize /\ r = (n - ChunkSize + 1) % ChunkSize
  BY DEF FullChunks, LastChunkLen, Remaining
<1>4. FullChunksReshape <=> (F > 0 => F * ChunkSize <= n - ChunkSize)
  BY DEF FullChunksReshape, Remaining
<1> HIDE DEF n, F, r
<1>5. /\ F \in Nat /\ r \in 0..ChunkSize-1
      /\ F * ChunkSize \in Nat /\ n + 1 = F * ChunkSize + ChunkSize + r
      /\ r = 0 => F > 0 /\ Leaves(n) = F
      /\ r > 0 => Leaves(n) = F + 1
  BY <1>2, <1>3, CutArithmetic
<1>6. (r = 0 => ~FullChunksReshape) /\ (r > 0 => FullChunksReshape)
  <2> DEFINE a == F * ChunkSize
  <2>1. a \in Nat /\ n + 1 = a + ChunkSize + r
        /\ (FullChunksReshape <=> (F > 0 => a <= n - ChunkSize))
    BY <1>4, <1>5
  <2> HIDE DEF a
  <2> QED BY <1>2, <1>5, <2>1, TreeAssumption
<1> QED BY <1>2, <1>5, <1>6 DEF Cut, n, F, r

(* The full chunks of a cut lie inside the material. *)
LEMMA FullBounds ==
    Cut => \A i \in 1..FullChunks :
        /\ i * ChunkSize \in Nat /\ i * ChunkSize + ChunkSize <= lengths[1] + 1
        /\ LastChunkLen > 0 => i * ChunkSize + ChunkSize <= lengths[1]
        /\ \A s \in Session :
              /\ i \in 1..Leaves(lengths[s])
              /\ ChunkEnd(lengths[s], i) = i * ChunkSize + ChunkSize
<1> SUFFICES ASSUME Cut, NEW i \in 1..FullChunks
             PROVE  /\ i * ChunkSize \in Nat /\ i * ChunkSize + ChunkSize <= lengths[1] + 1
                    /\ LastChunkLen > 0 => i * ChunkSize + ChunkSize <= lengths[1]
                    /\ \A s \in Session :
                          /\ i \in 1..Leaves(lengths[s])
                          /\ ChunkEnd(lengths[s], i) = i * ChunkSize + ChunkSize
  OBVIOUS
<1> DEFINE F == FullChunks
           r == LastChunkLen
           n == lengths[1]
<1>0. 1 \in Session
  BY BatchAssumption DEF Session
<1>1. /\ F \in Nat /\ i \in 1..F /\ r \in 0..ChunkSize-1 /\ n \in Nat
      /\ F * ChunkSize \in Nat /\ n + 1 = F * ChunkSize + ChunkSize + r
  BY <1>0 DEF Cut
<1> HIDE DEF F, r, n
<1>2. /\ i * ChunkSize \in Nat /\ i * ChunkSize <= F * ChunkSize
      /\ (i + 1) * ChunkSize = i * ChunkSize + ChunkSize
  BY <1>1, TreeAssumption
<1>3. /\ i * ChunkSize + ChunkSize <= n + 1
      /\ r > 0 => i * ChunkSize + ChunkSize <= n
  <2> DEFINE a == i * ChunkSize
             b == F * ChunkSize
  <2>1. a \in Nat /\ b \in Nat /\ a <= b /\ n + 1 = b + ChunkSize + r
    BY <1>1, <1>2
  <2> HIDE DEF a, b
  <2>2. a + ChunkSize <= n + 1 /\ (r > 0 => a + ChunkSize <= n)
    BY <1>1, <2>1, TreeAssumption
  <2> QED BY <2>2 DEF a
<1>4. ASSUME NEW s \in Session
      PROVE  /\ i \in 1..Leaves(lengths[s])
             /\ ChunkEnd(lengths[s], i) = i * ChunkSize + ChunkSize
  <2>1. lengths[s] = n /\ Leaves(lengths[s]) \in {F, F + 1}
    BY <1>1 DEF Cut, n, F, r
  <2>2. i \in 1..Leaves(lengths[s])
    BY <1>1, <2>1
  <2>3. ChunkEnd(n, i) = i * ChunkSize + ChunkSize
    BY <1>2, <1>3 DEF ChunkEnd
  <2> QED BY <2>1, <2>2, <2>3
<1> QED BY <1>2, <1>3, <1>4 DEF n, r

(* A full chunk of the cut is that chunk of the tree. *)
LEMMA FullChunkIs ==
    Lengthy /\ Cut => \A s \in Session : \A i \in 1..FullChunks :
        /\ Len(Chunk(Message(s), i)) = ChunkSize
        /\ LastChunkLen > 0 =>
              Chunk(Message(s), i) =
                  SubSeq(Message(s), i * ChunkSize + 1, i * ChunkSize + ChunkSize)
<1> SUFFICES ASSUME Lengthy, Cut, NEW s \in Session, NEW i \in 1..FullChunks
             PROVE  /\ Len(Chunk(Message(s), i)) = ChunkSize
                    /\ LastChunkLen > 0 =>
                         Chunk(Message(s), i) =
                             SubSeq(Message(s), i * ChunkSize + 1, i * ChunkSize + ChunkSize)
  OBVIOUS
<1> DEFINE n == lengths[s]
           a == i * ChunkSize
           e == Encoded(Message(s))
           ch == Chunk(Message(s), i)
           sub == SubSeq(Message(s), a + 1, a + ChunkSize)
<1>1. /\ n \in Nat /\ n = lengths[1] /\ i \in 1..Leaves(n)
      /\ a \in Nat /\ ChunkEnd(n, i) = a + ChunkSize
      /\ LastChunkLen > 0 => a + ChunkSize <= n
  BY FullBounds DEF Lengthy, Cut
<1>2. /\ ch \in Seq(Bytes) /\ Len(ch) = ChunkEnd(n, i) - a
      /\ \A j \in 1..Len(ch) : ch[j] = e[a + j]
  BY <1>1, ChunkType
<1>3. /\ Message(s) \in Seq(Bytes) /\ Len(Message(s)) = n
      /\ \A k \in 1..n : e[k] = Message(s)[k]
  BY EncodedType
<1> HIDE DEF n, a, e, ch
<1>4. Len(ch) = ChunkSize
  BY <1>1, <1>2, TreeAssumption
<1>5. ASSUME LastChunkLen > 0 PROVE ch = sub
  <2>1. a + 1 \in 1..n+1 /\ a + ChunkSize \in (a+1)-1..n
        /\ (a + ChunkSize) - (a + 1) + 1 = ChunkSize
    BY <1>1, <1>5, TreeAssumption
  <2>2. /\ sub \in Seq(Bytes) /\ Len(sub) = (a + ChunkSize) - (a + 1) + 1
        /\ \A j \in 1..(a+ChunkSize)-(a+1)+1 : sub[j] = Message(s)[(a + 1) + j - 1]
    BY <1>3, <2>1, SubSeqType
  <2> HIDE DEF sub
  <2>3. \A j \in 1..ChunkSize : (a + 1) + j - 1 = a + j /\ a + j \in 1..n
    BY <1>1, <1>5, TreeAssumption
  <2>4. \A j \in 1..Len(ch) : ch[j] = sub[j]
    BY <1>2, <1>3, <1>4, <2>1, <2>2, <2>3
  <2> QED BY <1>2, <1>4, <2>1, <2>2, <2>4, SameElements
<1> QED BY <1>4, <1>5 DEF a, ch

(* The last chunk of the cut is the last chunk of the tree. *)
LEMMA LastChunkIs ==
    Lengthy /\ Cut /\ LastChunkLen > 0 => \A s \in Session :
        LET i == FullChunks + 1
        IN  /\ Len(Chunk(Message(s), i)) = LastChunkLen
            /\ Chunk(Message(s), i) =
                  SubSeq(Message(s), i * ChunkSize + 1, lengths[1]) \o LengthEncode(0)
<1> DEFINE i == FullChunks + 1
<1> SUFFICES ASSUME Lengthy, Cut, LastChunkLen > 0, NEW s \in Session
             PROVE  /\ Len(Chunk(Message(s), i)) = LastChunkLen
                    /\ Chunk(Message(s), i) =
                         SubSeq(Message(s), i * ChunkSize + 1, lengths[1]) \o LengthEncode(0)
  OBVIOUS
<1> DEFINE n == lengths[s]
           a == i * ChunkSize
           r == LastChunkLen
           e == Encoded(Message(s))
           ch == Chunk(Message(s), i)
           sub == SubSeq(Message(s), a + 1, n)
           suffix == LengthEncode(0)
<1>1. /\ n \in Nat /\ n = lengths[1] /\ i = Leaves(n) /\ i \in Nat \ {0}
      /\ r \in 1..ChunkSize-1 /\ n + 1 = FullChunks * ChunkSize + ChunkSize + r
      /\ FullChunks \in Nat
  BY DEF Cut
<1>2. a = FullChunks * ChunkSize + ChunkSize /\ a \in Nat
      /\ (i + 1) * ChunkSize = a + ChunkSize
  BY <1>1, TreeAssumption
<1>3. n + 1 = a + r
  BY <1>1, <1>2
<1>4. ChunkEnd(n, i) = n + 1
  <2>1. ~((i + 1) * ChunkSize <= n + 1)
    <3> HIDE DEF a, r, n
    <3> QED BY <1>1, <1>2, <1>3, TreeAssumption
  <2> QED BY <2>1 DEF ChunkEnd
<1>5. /\ ch \in Seq(Bytes) /\ Len(ch) = ChunkEnd(n, i) - a
      /\ \A j \in 1..Len(ch) : ch[j] = e[a + j]
  <2>1. i \in 1..Leaves(n)
    BY <1>1
  <2> QED BY <2>1, ChunkType
<1>6. /\ Message(s) \in Seq(Bytes) /\ Len(Message(s)) = n
      /\ \A k \in 1..n : e[k] = Message(s)[k]
      /\ e[n + 1] = Byte(0)
  BY EncodedType
<1>7. suffix \in Seq(Bytes) /\ Len(suffix) = 1 /\ suffix[1] = Byte(0)
  BY DEF LengthEncode, Bytes
<1> HIDE DEF n, a, r, e, ch, i, suffix
<1>8. Len(ch) = r
  BY <1>1, <1>2, <1>3, <1>4, <1>5
<1>9. /\ sub \in Seq(Bytes) /\ Len(sub) = r - 1
      /\ \A j \in 1..r-1 : sub[j] = Message(s)[a + j]
  <2>1. a + 1 \in 1..n+1 /\ n \in (a+1)-1..n /\ n - (a + 1) + 1 = r - 1
    BY <1>1, <1>2, <1>3
  <2>2. /\ sub \in Seq(Bytes) /\ Len(sub) = n - (a + 1) + 1
        /\ \A j \in 1..n-(a+1)+1 : sub[j] = Message(s)[(a + 1) + j - 1]
    BY <1>6, <2>1, SubSeqType
  <2>3. \A j \in 1..r-1 : (a + 1) + j - 1 = a + j
    BY <1>1, <1>2
  <2> QED BY <2>1, <2>2, <2>3
<1> HIDE DEF sub
<1>10. /\ sub \o suffix \in Seq(Bytes) /\ Len(sub \o suffix) = Len(sub) + Len(suffix)
       /\ \A j \in 1..Len(sub)+Len(suffix) :
             (sub \o suffix)[j] = IF j <= Len(sub) THEN sub[j] ELSE suffix[j - Len(sub)]
  BY <1>7, <1>9, ConcatProperties
<1>11. Len(sub) + Len(suffix) = r
  BY <1>1, <1>7, <1>9
<1>12. ASSUME NEW j \in 1..r PROVE (sub \o suffix)[j] = ch[j]
  <2>1. ch[j] = e[a + j]
    BY <1>5, <1>8
  <2>2. CASE j \in 1..r-1
    <3>1. a + j \in 1..n /\ j <= r - 1
      BY <1>1, <1>2, <1>3, <2>2
    <3>2. (sub \o suffix)[j] = sub[j]
      BY <1>9, <1>10, <1>11, <3>1
    <3> QED BY <1>6, <1>9, <2>1, <2>2, <3>1, <3>2
  <2>3. CASE j = r
    <3>1. ~(j <= r - 1) /\ j - (r - 1) = 1 /\ a + j = n + 1
      BY <1>1, <1>2, <1>3, <2>3
    <3>2. (sub \o suffix)[j] = suffix[1]
      BY <1>9, <1>10, <1>11, <3>1
    <3> QED BY <1>6, <1>7, <2>1, <3>1, <3>2
  <2>4. j \in 1..r-1 \/ j = r
    BY <1>1
  <2> QED BY <2>2, <2>3, <2>4
<1>13. ch = sub \o suffix
  BY <1>5, <1>8, <1>10, <1>11, <1>12, SameElements
<1> QED BY <1>1, <1>8, <1>13 DEF ch, r, sub, suffix, a, i, n

(* The cut names chunks of the tree: all of them, with a last chunk that is short. *)
LEMMA CutIds ==
    Cut => /\ \A id \in FullIds : id \in AllChunks /\ id = <<id[1], id[2]>>
                                 /\ id[1] \in Session /\ id[2] \in 1..FullChunks
           /\ LastChunkLen > 0 =>
                 /\ \A id \in LastIds : id \in AllChunks /\ id[1] \in Session
                                        /\ id[2] = FullChunks + 1 /\ id \notin FullIds
                 /\ AllChunks = FullIds \cup LastIds
<1> SUFFICES ASSUME Cut
             PROVE  /\ \A id \in FullIds : id \in AllChunks /\ id = <<id[1], id[2]>>
                                 /\ id[1] \in Session /\ id[2] \in 1..FullChunks
                    /\ LastChunkLen > 0 =>
                         /\ \A id \in LastIds : id \in AllChunks /\ id[1] \in Session
                                        /\ id[2] = FullChunks + 1 /\ id \notin FullIds
                         /\ AllChunks = FullIds \cup LastIds
  OBVIOUS
<1>1. FullChunks \in Nat /\ LastChunkLen \in Nat
  BY TreeAssumption DEF Cut
<1>2. \A s \in Session :
         /\ LastChunkLen = 0 => Leaves(lengths[s]) = FullChunks
         /\ LastChunkLen > 0 => Leaves(lengths[s]) = FullChunks + 1
  BY DEF Cut
<1>3. \A s \in Session : \A i \in 1..FullChunks : i \in 1..Leaves(lengths[s])
  BY <1>1, <1>2
<1>4. ASSUME NEW id \in FullIds
      PROVE  id \in AllChunks /\ id = <<id[1], id[2]>>
             /\ id[1] \in Session /\ id[2] \in 1..FullChunks
  <2>1. PICK s \in Session, i \in 1..FullChunks : id = <<s, i>>
    BY DEF FullIds
  <2> QED BY <1>3, <2>1, ChunkIds
<1>5. ASSUME LastChunkLen > 0, NEW id \in LastIds
      PROVE  id \in AllChunks /\ id[1] \in Session
             /\ id[2] = FullChunks + 1 /\ id \notin FullIds
  <2>1. PICK s \in Session : id = <<s, FullChunks + 1>>
    BY DEF LastIds
  <2>2. FullChunks + 1 \in 1..Leaves(lengths[s])
    BY <1>1, <1>2, <1>5
  <2>3. id[2] \notin 1..FullChunks
    BY <1>1, <2>1
  <2> QED BY <1>4, <2>1, <2>2, <2>3, ChunkIds
<1>6. ASSUME LastChunkLen > 0, NEW id \in AllChunks
      PROVE  id \in FullIds \cup LastIds
  <2>1. /\ id[1] \in Session /\ id[2] \in 1..Leaves(lengths[id[1]])
        /\ id = <<id[1], id[2]>>
    BY ChunkIds
  <2>2. id[2] \in 1..FullChunks \/ id[2] = FullChunks + 1
    BY <1>1, <1>2, <1>6, <2>1
  <2> QED BY <2>1, <2>2 DEF FullIds, LastIds
<1> QED BY <1>4, <1>5, <1>6

(* The cut takes for each chunk what the tree has there.                   *)
LEMMA VectorizedExact ==
    Lengthy /\ Cut /\ LastChunkLen > 0 =>
        \A id \in AllChunks : VectorizedChunk(id) = PaddedChunk(id)
<1> SUFFICES ASSUME Lengthy, Cut, LastChunkLen > 0, NEW id \in AllChunks
             PROVE  VectorizedChunk(id) = PaddedChunk(id)
  OBVIOUS
<1>1. CASE id \in FullIds
  <2>1. id[1] \in Session /\ id[2] \in 1..FullChunks
    BY <1>1, CutIds
  <2>2. /\ Len(Chunk(Message(id[1]), id[2])) = ChunkSize
        /\ Chunk(Message(id[1]), id[2]) =
              SubSeq(Message(id[1]), id[2] * ChunkSize + 1, id[2] * ChunkSize + ChunkSize)
    BY <2>1, FullChunkIs
  <2> QED BY <1>1, <2>2 DEF VectorizedChunk, PaddedChunk, Padded
<1>2. CASE id \in LastIds
  <2>1. id[1] \in Session /\ id[2] = FullChunks + 1 /\ id \notin FullIds
    BY <1>2, CutIds
  <2>2. /\ Len(Chunk(Message(id[1]), id[2])) = LastChunkLen
        /\ Chunk(Message(id[1]), id[2]) =
              SubSeq(Message(id[1]), id[2] * ChunkSize + 1, lengths[1]) \o LengthEncode(0)
    BY <2>1, LastChunkIs
  <2> QED BY <2>1, <2>2 DEF VectorizedChunk, PaddedChunk, Padded
<1> QED BY <1>1, <1>2, CutIds

(* Which chunks the groups have: all of them, unless the group of the full *)
(* ones was replaced by that of the last ones.                             *)
LEMMA VectorizedGroupsCover ==
    Lengthy /\ Cut /\ LastChunkLen > 0 =>
        /\ UNION VectorizedGroups \subseteq AllChunks
        /\ UNION VectorizedGroups # AllChunks =>
              PaddedLen(LastChunkLen) = PaddedLen(ChunkSize)
<1> SUFFICES ASSUME Lengthy, Cut, LastChunkLen > 0
             PROVE  /\ UNION VectorizedGroups \subseteq AllChunks
                    /\ UNION VectorizedGroups # AllChunks =>
                          PaddedLen(LastChunkLen) = PaddedLen(ChunkSize)
  OBVIOUS
<1>1. AllChunks = FullIds \cup LastIds
  BY CutIds
<1>2. CASE PaddedLen(LastChunkLen) = PaddedLen(ChunkSize)
  <2>1. VectorizedGroups = {LastIds}
    BY <1>2 DEF VectorizedGroups
  <2> QED BY <1>1, <1>2, <2>1
<1>3. CASE PaddedLen(LastChunkLen) # PaddedLen(ChunkSize)
  <2>1. VectorizedGroups = (IF FullChunks > 0 THEN {FullIds} ELSE {}) \cup {LastIds}
    BY <1>3 DEF VectorizedGroups
  <2>2. CASE FullChunks > 0
    BY <1>1, <1>3, <2>1, <2>2
  <2>3. CASE ~(FullChunks > 0)
    <3>1. 1..FullChunks = {}
      BY <2>3 DEF Cut
    <3>2. FullIds = {}
      BY <3>1 DEF FullIds
    <3> QED BY <1>1, <1>3, <2>1, <2>3, <3>2
  <2> QED BY <2>2, <2>3
<1> QED BY <1>2, <1>3

(* The length of the last chunk of every session, in the three cases.      *)
LEMMA LastPaddedLen ==
    Lengthy /\ Cut => \A s \in Session :
        Len(PaddedChunk(<<s, Leaves(lengths[s])>>)) =
            IF LastChunkLen = 0 THEN PaddedLen(ChunkSize) ELSE PaddedLen(LastChunkLen)
<1> SUFFICES ASSUME Lengthy, Cut, NEW s \in Session
             PROVE  Len(PaddedChunk(<<s, Leaves(lengths[s])>>)) =
                      IF LastChunkLen = 0 THEN PaddedLen(ChunkSize) ELSE PaddedLen(LastChunkLen)
  OBVIOUS
<1> DEFINE i == Leaves(lengths[s])
<1>1. /\ FullChunks \in Nat /\ LastChunkLen \in Nat
      /\ LastChunkLen = 0 => FullChunks > 0 /\ i = FullChunks
      /\ LastChunkLen > 0 => i = FullChunks + 1
  BY TreeAssumption DEF Cut
<1>2. i \in 1..Leaves(lengths[s])
  BY <1>1
<1>3. Len(PaddedChunk(<<s, i>>)) = PaddedLen(Len(Chunk(Message(s), i)))
  BY <1>2, ChunkIds, PaddedChunkType
<1>4. CASE LastChunkLen = 0
  <2>1. i \in 1..FullChunks
    BY <1>1, <1>4
  <2>2. Len(Chunk(Message(s), i)) = ChunkSize
    BY <2>1, FullChunkIs
  <2> QED BY <1>3, <1>4, <2>2
<1>5. CASE LastChunkLen # 0
  <2>1. LastChunkLen > 0 /\ i = FullChunks + 1
    BY <1>1, <1>5
  <2>2. Len(Chunk(Message(s), i)) = LastChunkLen
    BY <2>1, LastChunkIs
  <2> QED BY <1>3, <1>5, <2>2
<1> QED BY <1>4, <1>5

-----------------------------------------------------------------------------
(* The inductive invariant.                                                *)

Types ==
    /\ orchestration \in Orchestrations
    /\ lengths \in [Session -> Lengths \cup {0}]
    /\ outBlocks \in OutBlocks \cup {0}
    /\ stage \in {"leaves", "finals", "returned", "refused", "failed"}
    /\ calls \in 0..MaxCalls

ResultTypes ==
    \A s \in Session :
        \/ results[s] = NoResult
        \/ results[s] \in Seq(Symbols) /\ Len(results[s]) % Rate = 0

LeafGroups == IF orchestration = "vectorized" THEN VectorizedGroups ELSE LengthGroups

(* Each chunk that has a group is pending, in the group that is being      *)
(* absorbed, or collected, and each session is pending or has its result.  *)
Accounted ==
    /\ DOMAIN cvs \subseteq AllChunks
    /\ group # {} => stage = "leaves" /\ group \in LeafGroups
    /\ stage \in {"returned", "refused", "failed"} => pending = {}
    /\ stage = "leaves" =>
          /\ pending \subseteq LeafGroups
          /\ (UNION pending) \cup group \cup DOMAIN cvs = UNION LeafGroups
          /\ orchestration = "vectorized" => Accepts /\ FullChunksReshape
    /\ stage = "finals" =>
          /\ orchestration = "fused"
          /\ pending \subseteq FinalGroups
          /\ DOMAIN cvs = AllChunks
          /\ \A s \in Session :
                <<s, 0>> \in UNION pending \/ results[s] = Kangaroo(Message(s))

(* What the chunk id has absorbed is how its padded bytes begin, by whole  *)
(* blocks.                                                                 *)
AbsorbedPart(id) ==
    /\ Len(absorbed[id]) \in 0..Len(PaddedChunk(id))
    /\ Len(absorbed[id]) % Rate = 0
    /\ absorbed[id] = SubSeq(PaddedChunk(id), 1, Len(absorbed[id]))

Absorbing ==
    /\ \A id \in group : AbsorbedPart(id)
    /\ orchestration = "lockstep" =>
          \A a, b \in group : Len(absorbed[a]) = Len(absorbed[b])

(* The shapes of a launch's fields, which its key determines: a lockstep   *)
(* key is the number of states, a leaf key ends with the sizes of its      *)
(* blocks, and a final key with those and the blocks of output.            *)
Shape(key) ==
    CASE Len(key) = 1 -> << <<key[1], 5, 5>> >>
      [] Len(key) = 3 -> << <<key[2], key[3], Rate>>, <<key[2], 5, 5>> >>
      [] OTHER -> << <<key[Len(key) - 2], key[Len(key) - 1], Rate>>,
                     <<key[Len(key) - 2], key[Len(key)], Rate>> >>

FieldsShaped ==
    /\ \A key \in DOMAIN fields : fields[key] = Shape(key)
    /\ upload # NoUpload => upload.key \in DOMAIN fields /\ upload.shapes = Shape(upload.key)

BatchInv ==
    /\ Types
    /\ ResultTypes
    /\ Accounted
    /\ Absorbing
    /\ LeavesExact
    /\ ResultsExact
    /\ FieldsShaped
    /\ FailsOnlyOnFullTail

(* Messages have lengths, as the lemmas above ask. *)
LEMMA TypesLengthy == Types => Lengthy
<1>1. Lengths \cup {0} \subseteq Nat
  BY BatchAssumption
<1> QED BY <1>1 DEF Types, Lengthy

(* Within a call, what depends on its messages only does not change.       *)
LEMMA SameMessages ==
    ASSUME UNCHANGED <<orchestration, lengths>>
    PROVE  /\ AllChunks' = AllChunks /\ LeafGroups' = LeafGroups
           /\ (Accepts /\ FullChunksReshape)' = (Accepts /\ FullChunksReshape)
           /\ \A id : PaddedChunk(id)' = PaddedChunk(id)
           /\ \A s : /\ Message(s)' = Message(s) /\ ChunksOf(s)' = ChunksOf(s)
                    /\ Kangaroo(Message(s))' = Kangaroo(Message(s))
<1>1. /\ \A s : Message(s)' = Message(s) /\ ChunksOf(s)' = ChunksOf(s)
      /\ \A id : PaddedChunk(id)' = PaddedChunk(id)
  BY DEF Message, ChunksOf, PaddedChunk
<1>2. AllChunks' = AllChunks
  BY <1>1 DEF AllChunks
<1>3. LengthGroups' = LengthGroups
  BY <1>1, <1>2 DEF LengthGroups, GroupsOf
<1>4. FullChunks' = FullChunks /\ LastChunkLen' = LastChunkLen /\ Remaining' = Remaining
  BY DEF FullChunks, LastChunkLen, Remaining
<1>5. VectorizedGroups' = VectorizedGroups
  BY <1>4 DEF VectorizedGroups, FullIds, LastIds
<1>6. (Accepts /\ FullChunksReshape)' = (Accepts /\ FullChunksReshape)
  BY <1>4 DEF Accepts, FullChunksReshape
<1>7. \A s : Kangaroo(Message(s))' = Kangaroo(Message(s))
  BY <1>1
<1> QED BY <1>1, <1>2, <1>3, <1>5, <1>6, <1>7 DEF LeafGroups

(* A group has chunks of the messages only, and those of a group that is   *)
(* absorbed in lockstep are padded to one length.                          *)
LEMMA LengthGroupsCover ==
    /\ UNION LengthGroups = AllChunks
    /\ \A ids \in LengthGroups : \A a, b \in ids :
          Len(PaddedChunk(a)) = Len(PaddedChunk(b))
BY DEF LengthGroups, GroupsOf

(* The groups of a call hold all its chunks, the vectorized ones no others. *)
LEMMA LeafGroupsCover ==
    Lengthy =>
        /\ orchestration = "vectorized" =>
              (Accepts /\ FullChunksReshape => UNION LeafGroups \subseteq AllChunks)
        /\ orchestration # "vectorized" => UNION LeafGroups = AllChunks
<1>1. Lengthy /\ Accepts /\ FullChunksReshape => UNION VectorizedGroups \subseteq AllChunks
  <2> SUFFICES ASSUME Lengthy, Accepts, FullChunksReshape
               PROVE  UNION VectorizedGroups \subseteq AllChunks
    OBVIOUS
  <2>1. Cut
    BY CutIs
  <2>2. LastChunkLen > 0
    BY <2>1, TreeAssumption DEF Cut
  <2> QED BY <2>1, <2>2, VectorizedGroupsCover
<1> QED BY <1>1, LengthGroupsCover DEF LeafGroups

(* While chunks are absorbed, the groups are of chunks of the tree.        *)
LEMMA GroupsAreChunks ==
    Types /\ Accounted /\ stage = "leaves" =>
        /\ UNION pending \subseteq AllChunks /\ group \subseteq AllChunks
        /\ orchestration # "vectorized" => UNION LeafGroups = AllChunks
<1> SUFFICES ASSUME Types, Accounted, stage = "leaves"
             PROVE  /\ UNION pending \subseteq AllChunks /\ group \subseteq AllChunks
                    /\ orchestration # "vectorized" => UNION LeafGroups = AllChunks
  OBVIOUS
<1>1. UNION LeafGroups \subseteq AllChunks
  BY TypesLengthy, LeafGroupsCover DEF Accounted
<1> QED BY <1>1, TypesLengthy, LeafGroupsCover DEF Accounted

(* The invariant holds before the first call. *)
LEMMA InitBatchInv == Init => BatchInv
<1> SUFFICES ASSUME Init PROVE BatchInv
  OBVIOUS
<1>1. Types
  BY BatchAssumption DEF Init, Types
<1>2. ResultTypes
  BY DEF Init, ResultTypes
<1>3. DOMAIN cvs = {}
  BY DEF Init
<1>4. Accounted
  BY <1>3 DEF Init, Accounted
<1>5. Absorbing
  BY DEF Init, Absorbing
<1>6. LeavesExact
  BY <1>3 DEF LeavesExact
<1>7. ResultsExact
  BY DEF Init, ResultsExact
<1>8. FieldsShaped
  BY DEF Init, FieldsShaped
<1>9. FailsOnlyOnFullTail
  BY DEF Init, FailsOnlyOnFullTail
<1> QED BY <1>1, <1>2, <1>4, <1>5, <1>6, <1>7, <1>8, <1>9 DEF BatchInv

-----------------------------------------------------------------------------
(* The steps.                                                              *)

(* A field taken from the cache or made new has the shape of its key. *)
LEMMA UploadShaped ==
    ASSUME FieldsShaped, NEW key, Upload(key, Shape(key))
    PROVE  FieldsShaped'
<1>1. upload' = [key |-> key, shapes |-> Shape(key)]
  BY DEF Upload
<1>2. upload'.key = key /\ upload'.shapes = Shape(key)
  BY <1>1
<1>3. CASE key \in DOMAIN fields
  <2>1. fields' = fields
    BY <1>3 DEF Upload
  <2> QED BY <1>2, <1>3, <2>1 DEF FieldsShaped
<1>4. CASE key \notin DOMAIN fields
  <2>1. fields' = [k \in DOMAIN fields \cup {key} |-> IF k = key THEN Shape(key) ELSE fields[k]]
    BY <1>4 DEF Upload
  <2>2. \A k \in DOMAIN fields' : fields'[k] = Shape(k)
    BY <2>1 DEF FieldsShaped
  <2>3. key \in DOMAIN fields'
    BY <2>1
  <2> QED BY <1>2, <2>2, <2>3 DEF FieldsShaped
<1> QED BY <1>3, <1>4

(* What stays when the chunks and the chaining values do.                  *)
LEMMA AbsorbingStays ==
    ASSUME Absorbing, UNCHANGED <<orchestration, lengths, outBlocks, group, absorbed>>
    PROVE  Absorbing'
BY SameMessages DEF Absorbing, AbsorbedPart

(* Chaining values collected stay exact while the messages are the same. *)
LEMMA ExactStays ==
    ASSUME LeavesExact, UNCHANGED <<orchestration, lengths, outBlocks, cvs>>
    PROVE  LeavesExact'
BY SameMessages DEF LeavesExact

(* A call starts with all of its chunks pending and none collected. *)
LEMMA CallStep ==
    ASSUME BatchInv, Call
    PROVE  BatchInv'
<1>1. Types /\ Accounted /\ FieldsShaped
  BY DEF BatchInv
<1>2. /\ stage \in {"returned", "refused", "failed"}
      /\ calls < MaxCalls /\ calls' = calls + 1
      /\ lengths' \in [Session -> Lengths]
      /\ outBlocks' \in OutBlocks
      /\ results' = [s \in Session |-> NoResult]
      /\ cvs' = <<>>
      /\ UNCHANGED <<orchestration, group, absorbed, fields, upload>>
  BY DEF Call
<1>3. \/ /\ orchestration = "vectorized" /\ ~Accepts'
         /\ stage' = "refused" /\ pending' = {}
      \/ /\ orchestration = "vectorized" /\ Accepts' /\ ~FullChunksReshape'
         /\ stage' = "failed" /\ pending' = {}
      \/ /\ orchestration = "vectorized" /\ Accepts' /\ FullChunksReshape'
         /\ stage' = "leaves" /\ pending' = VectorizedGroups'
      \/ /\ orchestration # "vectorized"
         /\ stage' = "leaves" /\ pending' = LengthGroups'
  BY DEF Call
<1>4. group' = {} /\ DOMAIN cvs' = {}
  BY <1>1, <1>2 DEF Accounted
<1>5. Types'
  <2>1. lengths' \in [Session -> Lengths \cup {0}]
    BY <1>2
  <2>2. calls' \in 0..MaxCalls
    BY <1>1, <1>2, BatchAssumption DEF Types
  <2>3. stage' \in {"leaves", "finals", "returned", "refused", "failed"}
    BY <1>3
  <2>4. outBlocks' \in OutBlocks \cup {0}
    BY <1>2
  <2> QED BY <1>1, <1>2, <2>1, <2>2, <2>3, <2>4 DEF Types
<1>6. Accounted'
  <2>1. stage' \in {"refused", "failed"} => pending' = {}
    BY <1>3
  <2>2. stage' = "leaves" =>
          /\ pending' = LeafGroups'
          /\ orchestration' = "vectorized" => Accepts' /\ FullChunksReshape'
    BY <1>2, <1>3 DEF LeafGroups
  <2>3. stage' \in {"refused", "failed", "leaves"}
    BY <1>3
  <2> QED BY <1>4, <2>1, <2>2, <2>3 DEF Accounted
<1>7. ResultTypes'
  BY <1>2 DEF ResultTypes
<1>8. Absorbing' /\ LeavesExact'
  BY <1>4 DEF Absorbing, LeavesExact
<1>9. ResultsExact'
  <2>1. stage' # "returned"
    BY <1>3
  <2> QED BY <2>1 DEF ResultsExact
<1>10. FieldsShaped'
  BY <1>1, <1>2 DEF FieldsShaped
<1>11. FailsOnlyOnFullTail'
  <2> SUFFICES ASSUME stage' = "failed"
               PROVE  FailsOnlyOnFullTail'
    BY DEF FailsOnlyOnFullTail
  <2>1. Accepts' /\ ~FullChunksReshape'
    BY <1>3
  <2>2. (Types => Lengthy)'
    BY TypesLengthy, PTL
  <2>3. (Lengthy /\ Accepts => Cut)'
    BY CutIs, PTL
  <2>4. Lengthy' /\ Cut'
    BY <1>5, <2>1, <2>2, <2>3
  <2>5. (Lengthy /\ Cut => \A s \in Session :
           Len(PaddedChunk(<<s, Leaves(lengths[s])>>)) =
             IF LastChunkLen = 0 THEN PaddedLen(ChunkSize) ELSE PaddedLen(LastChunkLen))'
    BY LastPaddedLen, PTL
  <2>6. LastChunkLen' = 0
    <3>1. LastChunkLen' \in 0..ChunkSize-1 /\ (LastChunkLen' > 0 => FullChunksReshape')
      BY <2>4 DEF Cut
    <3> QED BY <2>1, <3>1, TreeAssumption
  <2> QED BY <2>4, <2>5, <2>6 DEF FailsOnlyOnFullTail
<1> QED BY <1>5, <1>6, <1>7, <1>8, <1>9, <1>10, <1>11 DEF BatchInv

(* A group leaves those that are pending, and is absorbed.                 *)
LEMMA TakeGroup ==
    ASSUME BatchInv, NEW ids \in pending, stage = "leaves", group = {},
           pending' = pending \ {ids}, group' = ids,
           UNCHANGED <<orchestration, lengths, outBlocks, stage, cvs, results, calls>>
    PROVE  Types' /\ Accounted' /\ ResultTypes' /\ LeavesExact' /\ ResultsExact'
           /\ FailsOnlyOnFullTail'
<1>1. Types /\ Accounted /\ ResultTypes /\ LeavesExact
  BY DEF BatchInv
<1>2. Types' /\ ResultTypes'
  BY <1>1 DEF Types, ResultTypes
<1>3. (UNION pending') \cup group' = UNION pending
  OBVIOUS
<1>4. Accounted'
  <2>1. AllChunks' = AllChunks /\ LeafGroups' = LeafGroups
        /\ (Accepts /\ FullChunksReshape)' = (Accepts /\ FullChunksReshape)
    BY SameMessages
  <2>2. pending' \subseteq LeafGroups /\ group' \in LeafGroups
    BY <1>1 DEF Accounted
  <2>3. (UNION pending') \cup group' \cup DOMAIN cvs' = UNION LeafGroups
    BY <1>1, <1>3 DEF Accounted
  <2>4. orchestration = "vectorized" => (Accepts /\ FullChunksReshape)
    BY <1>1 DEF Accounted
  <2>5. DOMAIN cvs \subseteq AllChunks
    BY <1>1 DEF Accounted
  <2> QED BY <2>1, <2>2, <2>3, <2>4, <2>5 DEF Accounted
<1>5. LeavesExact'
  BY <1>1, ExactStays
<1>6. ResultsExact' /\ FailsOnlyOnFullTail'
  BY DEF ResultsExact, FailsOnlyOnFullTail
<1> QED BY <1>2, <1>4, <1>5, <1>6

(* Starting a group of the lockstep keeps the invariant. *)
LEMMA BeginLockstepStep ==
    ASSUME BatchInv, NEW ids \in pending, BeginLockstep(ids)
    PROVE  BatchInv'
<1>1. /\ stage = "leaves" /\ group = {} /\ pending' = pending \ {ids} /\ group' = ids
      /\ absorbed' = [id \in ids |-> <<>>]
      /\ UNCHANGED <<orchestration, lengths, outBlocks, stage, cvs, results, fields, upload, calls>>
  BY DEF BeginLockstep
<1>2. Types' /\ Accounted' /\ ResultTypes' /\ LeavesExact' /\ ResultsExact'
      /\ FailsOnlyOnFullTail'
  BY <1>1, TakeGroup
<1>3. Lengthy /\ ids \subseteq AllChunks
  BY <1>1, GroupsAreChunks, TypesLengthy DEF BatchInv
<1>4. ASSUME NEW id \in group'
      PROVE  AbsorbedPart(id)' /\ Len(absorbed'[id]) = 0
  <2>1. absorbed'[id] = <<>> /\ Len(<<>>) = 0
    BY <1>1, <1>4
  <2>2. Len(PaddedChunk(id)) \in Nat /\ PaddedChunk(id)' = PaddedChunk(id)
    BY <1>1, <1>3, PaddedChunkType, SameMessages
  <2>3. SubSeq(PaddedChunk(id), 1, 0) = <<>>
    BY SubSeqEmpty
  <2>4. 0 % Rate = 0
    BY TreeAssumption
  <2> QED BY <2>1, <2>2, <2>3, <2>4 DEF AbsorbedPart
<1>5. Absorbing'
  BY <1>4 DEF Absorbing
<1>6. FieldsShaped'
  BY <1>1 DEF BatchInv, FieldsShaped
<1> QED BY <1>2, <1>5, <1>6 DEF BatchInv

(* Hashing a group whole keeps the invariant. *)
LEMMA LaunchLeavesStep ==
    ASSUME BatchInv, NEW ids \in pending, LaunchLeaves(ids)
    PROVE  BatchInv'
<1>1. /\ stage = "leaves" /\ group = {} /\ pending' = pending \ {ids} /\ group' = ids
      /\ orchestration # "lockstep"
      /\ absorbed' = [id \in ids |-> IF orchestration = "fused" THEN PaddedChunk(id)
                                     ELSE VectorizedChunk(id)]
      /\ Upload(LeafKey(ids), << <<Cardinality(ids), Blocks(ids), Rate>>,
                                 <<Cardinality(ids), 5, 5>> >>)
      /\ UNCHANGED <<orchestration, lengths, outBlocks, stage, cvs, results, calls>>
  BY DEF LaunchLeaves
<1>2. Types' /\ Accounted' /\ ResultTypes' /\ LeavesExact' /\ ResultsExact'
      /\ FailsOnlyOnFullTail'
  BY <1>1, TakeGroup
<1>3. Lengthy /\ ids \subseteq AllChunks
  BY <1>1, GroupsAreChunks, TypesLengthy DEF BatchInv
<1>4. ASSUME NEW id \in ids
      PROVE  absorbed'[id] = PaddedChunk(id)
  <2>1. CASE orchestration = "fused"
    BY <1>1, <2>1
  <2>2. CASE orchestration # "fused"
    <3>1. orchestration = "vectorized"
      BY <1>1, <2>2, BatchAssumption DEF BatchInv, Types
    <3>2. Accepts /\ FullChunksReshape
      BY <1>1, <3>1 DEF BatchInv, Accounted
    <3>3. Cut /\ LastChunkLen > 0
      <4>1. Cut
        BY <1>3, <3>2, CutIs
      <4> QED BY <3>2, <4>1, TreeAssumption DEF Cut
    <3> QED BY <1>1, <1>3, <2>2, <3>3, VectorizedExact
  <2> QED BY <2>1, <2>2
<1>5. ASSUME NEW id \in group' PROVE AbsorbedPart(id)'
  <2>1. /\ PaddedChunk(id) \in Seq(Bytes) /\ Len(PaddedChunk(id)) % Rate = 0
        /\ Len(PaddedChunk(id)) \in Nat
    BY <1>1, <1>3, PaddedChunkType
  <2>2. PaddedChunk(id)' = PaddedChunk(id) /\ absorbed'[id] = PaddedChunk(id)
    BY <1>1, <1>4, SameMessages
  <2>3. SubSeq(PaddedChunk(id), 1, Len(PaddedChunk(id))) = PaddedChunk(id)
    BY <2>1, SubSeqFull
  <2>4. Len(PaddedChunk(id)) \in 0..Len(PaddedChunk(id))
    BY <2>1
  <2> QED BY <2>1, <2>2, <2>3, <2>4 DEF AbsorbedPart
<1>6. Absorbing'
  BY <1>1, <1>5 DEF Absorbing
<1>7. FieldsShaped'
  <2>1. Shape(LeafKey(ids)) = << <<Cardinality(ids), Blocks(ids), Rate>>,
                                 <<Cardinality(ids), 5, 5>> >>
    BY DEF Shape, LeafKey
  <2> QED BY <1>1, <2>1, UploadShaped DEF BatchInv
<1> QED BY <1>2, <1>6, <1>7 DEF BatchInv

(* Between two multiples of the rate there is at least a block.            *)
LEMMA NextBlock ==
    ASSUME NEW k \in Nat, NEW n \in Nat, k % Rate = 0, n % Rate = 0, k < n
    PROVE  k + Rate <= n /\ (k + Rate) % Rate = 0
<1> DEFINE a == k \div Rate
           b == n \div Rate
<1>1. a \in Nat /\ b \in Nat /\ k = Rate * a /\ n = Rate * b
  BY DivMod, TreeAssumption
<1> HIDE DEF a, b
<1>2. a + 1 <= b
  <2>1. CASE b <= a
    <3>1. Rate * b <= Rate * a
      BY <1>1, <2>1, TreeAssumption
    <3> QED BY <1>1, <3>1
  <2> QED BY <1>1, <2>1
<1>3. Rate * (a + 1) = k + Rate /\ Rate * (a + 1) <= Rate * b
  BY <1>1, <1>2, TreeAssumption
<1>4. (Rate * (a + 1) + 0) % Rate = 0 /\ Rate * (a + 1) + 0 = Rate * (a + 1)
  <2>1. a + 1 \in Nat /\ 0 \in 0..Rate-1
    BY <1>1, TreeAssumption
  <2> QED BY <1>1, <2>1, DivModUnique, TreeAssumption
<1> QED BY <1>1, <1>3, <1>4

(* A block more leaves a prefix of whole blocks. *)
LEMMA OneMoreBlock ==
    ASSUME Types, Accounted, NEW id \in group, AbsorbedPart(id),
           Len(absorbed[id]) < Len(PaddedChunk(id)),
           NEW more, more = absorbed[id] \o SubSeq(PaddedChunk(id), Len(absorbed[id]) + 1,
                                                  Len(absorbed[id]) + Rate)
    PROVE  /\ Len(more) = Len(absorbed[id]) + Rate
           /\ Len(more) \in 0..Len(PaddedChunk(id)) /\ Len(more) % Rate = 0
           /\ more = SubSeq(PaddedChunk(id), 1, Len(more))
<1> DEFINE p == PaddedChunk(id)
           k == Len(absorbed[id])
           n == Len(p)
<1>1. p \in Seq(Bytes) /\ n % Rate = 0 /\ n \in Nat
  <2>1. id \in AllChunks
    BY GroupsAreChunks DEF Accounted
  <2> QED BY <2>1, PaddedChunkType, TypesLengthy
<1>2. k \in 0..n /\ k % Rate = 0 /\ absorbed[id] = SubSeq(p, 1, k) /\ k < n
  BY DEF AbsorbedPart
<1>3. more = SubSeq(p, 1, k) \o SubSeq(p, k + 1, k + Rate)
  BY <1>2
<1> HIDE DEF p, k
<1>4. k + Rate <= n /\ (k + Rate) % Rate = 0
  <2> HIDE DEF n
  <2> QED BY <1>1, <1>2, NextBlock
<1>5. /\ 1 \in 1..Len(p)+1 /\ k \in 1-1..Len(p) /\ k + Rate \in k..Len(p)
      /\ k + Rate \in 1-1..Len(p) /\ (k + Rate) - 1 + 1 = k + Rate
      /\ k + Rate \in 0..n
  BY <1>1, <1>2, <1>4, TreeAssumption
<1>6. more = SubSeq(p, 1, k + Rate)
  BY <1>1, <1>3, <1>5, ConcatAdjacentSubSeq
<1>7. Len(SubSeq(p, 1, k + Rate)) = (k + Rate) - 1 + 1
  BY <1>1, <1>5, SubSeqType
<1>8. Len(more) = k + Rate
  BY <1>5, <1>6, <1>7
<1> QED BY <1>4, <1>5, <1>6, <1>8 DEF k, p

(* Absorbing a block of each chunk of the group keeps the invariant. *)
LEMMA LockstepBlockStep ==
    ASSUME BatchInv, LockstepBlock
    PROVE  BatchInv'
<1>1. Types /\ Accounted /\ Absorbing /\ ResultTypes /\ LeavesExact /\ ResultsExact
      /\ FailsOnlyOnFullTail /\ FieldsShaped
  BY DEF BatchInv
<1>2. /\ orchestration = "lockstep" /\ group # {}
      /\ absorbed' = [id \in group |->
                        absorbed[id] \o SubSeq(PaddedChunk(id), Len(absorbed[id]) + 1,
                                               Len(absorbed[id]) + Rate)]
      /\ Upload(<<Cardinality(group)>>, << <<Cardinality(group), 5, 5>> >>)
      /\ UNCHANGED <<orchestration, lengths, outBlocks, stage, pending, group, cvs, results, calls>>
  BY DEF LockstepBlock
<1>3. PICK one \in group : Len(absorbed[one]) < Len(PaddedChunk(one))
  BY DEF LockstepBlock
<1>4. group \in LengthGroups
  BY <1>1, <1>2 DEF Accounted, LeafGroups
<1>5. ASSUME NEW id \in group
      PROVE  /\ Len(absorbed'[id]) = Len(absorbed[id]) + Rate
             /\ AbsorbedPart(id)'
  <2>1. /\ Len(absorbed[id]) = Len(absorbed[one])
        /\ Len(PaddedChunk(id)) = Len(PaddedChunk(one)) /\ AbsorbedPart(id)
    BY <1>1, <1>2, <1>4, LengthGroupsCover DEF Absorbing
  <2>2. absorbed'[id] = absorbed[id] \o SubSeq(PaddedChunk(id), Len(absorbed[id]) + 1,
                                               Len(absorbed[id]) + Rate)
    BY <1>2
  <2>3. /\ Len(absorbed'[id]) = Len(absorbed[id]) + Rate
        /\ Len(absorbed'[id]) \in 0..Len(PaddedChunk(id)) /\ Len(absorbed'[id]) % Rate = 0
        /\ absorbed'[id] = SubSeq(PaddedChunk(id), 1, Len(absorbed'[id]))
    BY <1>1, <1>3, <2>1, <2>2, OneMoreBlock
  <2>4. PaddedChunk(id)' = PaddedChunk(id)
    BY <1>2, SameMessages
  <2> QED BY <2>3, <2>4 DEF AbsorbedPart
<1>6. Absorbing'
  <2>1. \A a, b \in group : Len(absorbed'[a]) = Len(absorbed'[b])
    <3> SUFFICES ASSUME NEW a \in group, NEW b \in group
                 PROVE  Len(absorbed'[a]) = Len(absorbed'[b])
      OBVIOUS
    <3>1. Len(absorbed[a]) = Len(absorbed[b])
      BY <1>1, <1>2 DEF Absorbing
    <3> QED BY <1>5, <3>1
  <2>2. group' = group /\ \A id \in group : AbsorbedPart(id)'
    BY <1>2, <1>5
  <2> QED BY <2>1, <2>2 DEF Absorbing
<1>7. Types' /\ ResultTypes'
  BY <1>1, <1>2 DEF Types, ResultTypes
<1>8. Accounted'
  <2>1. AllChunks' = AllChunks /\ LeafGroups' = LeafGroups
        /\ (Accepts /\ FullChunksReshape)' = (Accepts /\ FullChunksReshape)
    BY <1>2, SameMessages
  <2>2. stage = "leaves"
    BY <1>1, <1>2 DEF Accounted
  <2> QED BY <1>1, <1>2, <2>1, <2>2 DEF Accounted
<1>9. LeavesExact'
  BY <1>1, <1>2, ExactStays
<1>10. ResultsExact' /\ FailsOnlyOnFullTail'
  <2>1. stage = "leaves"
    BY <1>1, <1>2 DEF Accounted
  <2> QED BY <1>2, <2>1 DEF ResultsExact, FailsOnlyOnFullTail
<1>11. FieldsShaped'
  <2>1. Shape(<<Cardinality(group)>>) = << <<Cardinality(group), 5, 5>> >>
    BY DEF Shape
  <2> QED BY <1>1, <1>2, <2>1, UploadShaped
<1> QED BY <1>6, <1>7, <1>8, <1>9, <1>10, <1>11 DEF BatchInv

(* Handing a group's chaining values to their places keeps the invariant. *)
LEMMA CollectGroupStep ==
    ASSUME BatchInv, CollectGroup
    PROVE  BatchInv'
<1>1. Types /\ Accounted /\ Absorbing /\ ResultTypes /\ LeavesExact /\ FieldsShaped
  BY DEF BatchInv
<1>2. /\ group # {}
      /\ \A id \in group : Len(absorbed[id]) = Len(PaddedChunk(id))
      /\ cvs' = Collected /\ group' = {}
      /\ UNCHANGED <<orchestration, lengths, outBlocks, stage, pending, results, fields, upload, calls>>
  BY DEF CollectGroup
<1>3. stage = "leaves" /\ group \subseteq AllChunks /\ Lengthy
  BY <1>1, <1>2, GroupsAreChunks, TypesLengthy DEF Accounted
<1>4. \A id \in group : absorbed[id] = PaddedChunk(id)
  BY <1>1, <1>2, <1>3, PaddedChunkType, SubSeqFull DEF Absorbing, AbsorbedPart
<1>5. /\ DOMAIN cvs' = DOMAIN cvs \cup group
      /\ \A id \in DOMAIN cvs' : cvs'[id] = ChainingValue(PaddedChunk(id))
  BY <1>1, <1>2, <1>4 DEF Collected, LeavesExact
<1>6. /\ AllChunks' = AllChunks /\ LeafGroups' = LeafGroups
      /\ (Accepts /\ FullChunksReshape)' = (Accepts /\ FullChunksReshape)
      /\ \A id : PaddedChunk(id)' = PaddedChunk(id)
  BY <1>2, SameMessages
<1>7. LeavesExact'
  BY <1>5, <1>6 DEF LeavesExact
<1>8. Accounted'
  <2>1. DOMAIN cvs' \subseteq AllChunks
    BY <1>1, <1>3, <1>5 DEF Accounted
  <2>2. (UNION pending) \cup {} \cup DOMAIN cvs' = UNION LeafGroups
    BY <1>1, <1>3, <1>5 DEF Accounted
  <2> QED BY <1>1, <1>2, <1>3, <1>6, <2>1, <2>2 DEF Accounted
<1>9. Types' /\ ResultTypes' /\ Absorbing' /\ FieldsShaped'
  BY <1>1, <1>2 DEF Types, ResultTypes, Absorbing, FieldsShaped
<1>10. ResultsExact' /\ FailsOnlyOnFullTail'
  BY <1>2, <1>3 DEF ResultsExact, FailsOnlyOnFullTail
<1> QED BY <1>7, <1>8, <1>9, <1>10 DEF BatchInv

(* With the chaining values of all chunks, the final node is the tree's.   *)
LEMMA FinalExact ==
    ASSUME Types, LeavesExact, DOMAIN cvs = AllChunks, NEW s \in Session
    PROVE  /\ FusedFinal(s) = Kangaroo(Message(s))
           /\ Kangaroo(Message(s)) = IF ChunksOf(s) = {} THEN Padded(FirstChunk(Message(s)), Single)
                                    ELSE Padded(TreeInput(s), Tree)
           /\ Kangaroo(Message(s)) \in Seq(Symbols) /\ Len(Kangaroo(Message(s))) % Rate = 0
           /\ Padded(TreeInput(s), Tree) \in Seq(Symbols)
           /\ Len(Padded(TreeInput(s), Tree)) % Rate = 0
<1>1. Lengthy
  BY TypesLengthy
<1>2. SessionCVs(s) = ExactCVs(s)
  <2>1. \A i \in 1..Leaves(lengths[s]) : cvs[<<s, i>>] = ChainingValue(PaddedChunk(<<s, i>>))
    BY ChunkIds DEF LeavesExact
  <2> QED BY <2>1 DEF SessionCVs, ExactCVs
<1>3. TreeInput(s) = FinalInput(FirstChunk(Message(s)), ExactCVs(s))
  BY <1>2 DEF TreeInput
<1>4. Kangaroo(Message(s)) = IF ChunksOf(s) = {} THEN Padded(FirstChunk(Message(s)), Single)
                             ELSE Padded(TreeInput(s), Tree)
  BY <1>1, <1>3, FinalNode
<1>5. FusedFinal(s) = Kangaroo(Message(s))
  BY <1>4 DEF FusedFinal, Domain
<1>6. /\ Padded(TreeInput(s), Tree) \in Seq(Symbols)
      /\ Len(Padded(TreeInput(s), Tree)) % Rate = 0
      /\ Padded(FirstChunk(Message(s)), Single) \in Seq(Symbols)
      /\ Len(Padded(FirstChunk(Message(s)), Single)) % Rate = 0
  BY <1>1, <1>3, FinalNode
<1> QED BY <1>4, <1>5, <1>6

(* When nothing is pending, every chunk's chaining value is there. *)
LEMMA LeavesAllCollected ==
    ASSUME Types, Accounted, LeavesDone
    PROVE  /\ DOMAIN cvs = UNION LeafGroups
           /\ orchestration # "vectorized" => DOMAIN cvs = AllChunks
<1>1. (UNION {}) \cup {} \cup DOMAIN cvs = UNION LeafGroups
  BY DEF Accounted, LeavesDone
<1> QED BY <1>1, TypesLengthy, LeafGroupsCover

(* The host's final nodes keep the invariant. *)
LEMMA LockstepFinalsStep ==
    ASSUME BatchInv, LockstepFinals
    PROVE  BatchInv'
<1>1. Types /\ Accounted /\ Absorbing /\ LeavesExact /\ FieldsShaped
  BY DEF BatchInv
<1>2. /\ orchestration = "lockstep" /\ LeavesDone /\ stage' = "returned"
      /\ results' = IF AllChunks = {}
                    THEN [s \in Session |-> Padded(FirstChunk(Message(s)), Single)]
                    ELSE [s \in Session |-> Padded(TreeInput(s), Tree)]
      /\ UNCHANGED <<orchestration, lengths, outBlocks, pending, group, absorbed, cvs, fields,
                     upload, calls>>
  BY DEF LockstepFinals
<1>3. DOMAIN cvs = AllChunks
  BY <1>1, <1>2, LeavesAllCollected
<1>4. AllChunks = {} <=> \A s \in Session : ChunksOf(s) = {}
  BY DEF AllChunks
<1>5. \A s \in Session :
         /\ AllChunks = {} => results'[s] = Kangaroo(Message(s))
         /\ ChunksOf(s) # {} => results'[s] = Kangaroo(Message(s))
         /\ results'[s] \in Seq(Symbols) /\ Len(results'[s]) % Rate = 0
  BY <1>1, <1>2, <1>3, <1>4, FinalExact
<1>6. ResultTypes'
  BY <1>5 DEF ResultTypes
<1>7. ResultsExact'
  <2> SUFFICES ASSUME ~Mixed', NEW s \in Session
               PROVE  (results[s] = Kangaroo(Message(s)))'
    BY <1>2 DEF ResultsExact
  <2>1. Kangaroo(Message(s))' = Kangaroo(Message(s)) /\ Mixed' = Mixed
    BY <1>2, SameMessages DEF Mixed
  <2>2. AllChunks = {} \/ ChunksOf(s) # {}
    BY <1>4, <2>1 DEF Mixed
  <2> QED BY <1>5, <2>1, <2>2
<1>8. Types'
  BY <1>1, <1>2 DEF Types
<1>9. Accounted'
  <2>1. AllChunks' = AllChunks
    BY <1>2, SameMessages
  <2> QED BY <1>1, <1>2, <2>1 DEF Accounted, LeavesDone
<1>10. Absorbing' /\ LeavesExact'
  BY <1>1, <1>2, AbsorbingStays, ExactStays
<1>11. FieldsShaped' /\ FailsOnlyOnFullTail'
  BY <1>1, <1>2 DEF FieldsShaped, FailsOnlyOnFullTail
<1> QED BY <1>6, <1>7, <1>8, <1>9, <1>10, <1>11 DEF BatchInv

(* The groups of final nodes hold every session. *)
LEMMA FinalGroupsCover ==
    /\ UNION FinalGroups = {<<s, 0>> : s \in Session}
    /\ UNCHANGED <<lengths, cvs>> => FinalGroups' = FinalGroups
<1>1. UNION FinalGroups = {<<s, 0>> : s \in Session}
  <2> DEFINE ids == {<<s, 0>> : s \in Session}
             KeyOf(id) == <<Domain(id[1]), Len(FusedFinal(id[1]))>>
  <2>1. FinalGroups = {{id \in ids : KeyOf(id) = key} : key \in {KeyOf(id) : id \in ids}}
    BY DEF FinalGroups, GroupsOf
  <2> HIDE DEF ids, KeyOf
  <2>2. UNION FinalGroups = ids
    BY <2>1
  <2> QED BY <2>2 DEF ids
<1>2. ASSUME UNCHANGED <<lengths, cvs>> PROVE FinalGroups' = FinalGroups
  <2>1. \A s : Domain(s)' = Domain(s) /\ FusedFinal(s)' = FusedFinal(s)
    BY <1>2 DEF Domain, FusedFinal, ChunksOf, TreeInput, SessionCVs, Message
  <2> QED BY <2>1 DEF FinalGroups, GroupsOf
<1> QED BY <1>1, <1>2

(* Grouping the final nodes keeps the invariant. *)
LEMMA BeginFusedFinalsStep ==
    ASSUME BatchInv, BeginFusedFinals
    PROVE  BatchInv'
<1>1. Types /\ Accounted /\ Absorbing /\ ResultTypes /\ LeavesExact /\ FieldsShaped
  BY DEF BatchInv
<1>2. /\ orchestration = "fused" /\ LeavesDone /\ stage' = "finals"
      /\ pending' = FinalGroups
      /\ UNCHANGED <<orchestration, lengths, outBlocks, group, absorbed, cvs, results, fields,
                     upload, calls>>
  BY DEF BeginFusedFinals
<1>3. Accounted'
  <2>1. DOMAIN cvs = AllChunks /\ AllChunks' = AllChunks
    BY <1>1, <1>2, LeavesAllCollected, SameMessages
  <2>2. FinalGroups' = FinalGroups /\ \A s \in Session : <<s, 0>> \in UNION pending'
    BY <1>2, FinalGroupsCover
  <2>3. group' = {}
    BY <1>2 DEF LeavesDone
  <2> QED BY <1>2, <2>1, <2>2, <2>3 DEF Accounted
<1>4. Types' /\ ResultTypes'
  BY <1>1, <1>2 DEF Types, ResultTypes
<1>5. Absorbing' /\ LeavesExact'
  BY <1>1, <1>2, AbsorbingStays, ExactStays
<1>6. ResultsExact' /\ FieldsShaped' /\ FailsOnlyOnFullTail'
  BY <1>1, <1>2 DEF ResultsExact, FieldsShaped, FailsOnlyOnFullTail
<1> QED BY <1>3, <1>4, <1>5, <1>6 DEF BatchInv

(* Launching a group of final nodes keeps the invariant. *)
LEMMA LaunchFinalsStep ==
    ASSUME BatchInv, NEW ids \in pending, LaunchFinals(ids)
    PROVE  BatchInv'
<1>1. Types /\ Accounted /\ Absorbing /\ ResultTypes /\ LeavesExact /\ FieldsShaped
  BY DEF BatchInv
<1>2. /\ stage = "finals" /\ pending' = pending \ {ids}
      /\ results' = [s \in Session |-> IF <<s, 0>> \in ids THEN FusedFinal(s) ELSE results[s]]
      /\ stage' = IF pending' = {} THEN "returned" ELSE "finals"
      /\ UNCHANGED <<orchestration, lengths, outBlocks, group, absorbed, cvs, calls>>
  BY DEF LaunchFinals
<1>3. /\ orchestration = "fused" /\ pending \subseteq FinalGroups /\ DOMAIN cvs = AllChunks
      /\ group = {}
      /\ \A s \in Session : <<s, 0>> \in UNION pending \/ results[s] = Kangaroo(Message(s))
  BY <1>1, <1>2 DEF Accounted
<1>4. \A s \in Session :
         /\ FusedFinal(s) = Kangaroo(Message(s))
         /\ Kangaroo(Message(s)) \in Seq(Symbols) /\ Len(Kangaroo(Message(s))) % Rate = 0
         /\ Kangaroo(Message(s))' = Kangaroo(Message(s))
  BY <1>1, <1>2, <1>3, FinalExact, SameMessages
<1>5. \A s \in Session : <<s, 0>> \in UNION pending' \/ results'[s] = Kangaroo(Message(s))
  <2> SUFFICES ASSUME NEW s \in Session, <<s, 0>> \notin UNION pending'
               PROVE  results'[s] = Kangaroo(Message(s))
    OBVIOUS
  <2>1. <<s, 0>> \in ids \/ <<s, 0>> \notin UNION pending
    BY <1>2
  <2> QED BY <1>2, <1>3, <1>4, <2>1
<1>6. Types'
  BY <1>1, <1>2 DEF Types
<1>7. ResultTypes'
  BY <1>1, <1>2, <1>4 DEF ResultTypes
<1>8. Accounted'
  <2>1. AllChunks' = AllChunks /\ FinalGroups' = FinalGroups
    BY <1>2, SameMessages, FinalGroupsCover
  <2>2. stage' \in {"returned", "finals"} /\ (stage' = "returned" => pending' = {})
    BY <1>2
  <2> QED BY <1>2, <1>3, <1>4, <1>5, <2>1, <2>2 DEF Accounted
<1>9. Absorbing' /\ LeavesExact'
  BY <1>1, <1>2, AbsorbingStays, ExactStays
<1>10. ResultsExact'
  <2> SUFFICES ASSUME stage' = "returned", NEW s \in Session
               PROVE  (results[s] = Kangaroo(Message(s)))'
    BY DEF ResultsExact
  <2>1. pending' = {}
    BY <1>2
  <2> QED BY <1>4, <1>5, <2>1
<1>11. FieldsShaped'
  <2>1. PICK id \in ids :
          LET blocks == Len(FusedFinal(id[1])) \div Rate
          IN  Upload(<<"final", Domain(id[1]), Cardinality(ids), blocks, outBlocks>>,
                     FinalShapes(Cardinality(ids), blocks))
    BY DEF LaunchFinals
  <2> DEFINE blocks == Len(FusedFinal(id[1])) \div Rate
             key == <<"final", Domain(id[1]), Cardinality(ids), blocks, outBlocks>>
  <2>2. Upload(key, FinalShapes(Cardinality(ids), blocks))
    BY <2>1
  <2> HIDE DEF blocks
  <2>3. Shape(key) = FinalShapes(Cardinality(ids), blocks)
    BY DEF Shape, FinalShapes
  <2> HIDE DEF key
  <2> QED BY <1>1, <2>2, <2>3, UploadShaped
<1>12. FailsOnlyOnFullTail'
  BY <1>2 DEF FailsOnlyOnFullTail
<1> QED BY <1>6, <1>7, <1>8, <1>9, <1>10, <1>11, <1>12 DEF BatchInv

(* The vectorized final nodes keep the invariant, or the call fails. *)
LEMMA VectorizedFinalsStep ==
    ASSUME BatchInv, VectorizedFinals
    PROVE  BatchInv'
<1>1. Types /\ Accounted /\ Absorbing /\ ResultTypes /\ LeavesExact /\ FieldsShaped
  BY DEF BatchInv
<1>2. /\ orchestration = "vectorized" /\ LeavesDone
      /\ UNCHANGED <<orchestration, lengths, outBlocks, pending, group, absorbed, cvs, calls>>
  BY DEF VectorizedFinals
<1>3. stage = "leaves" /\ pending = {} /\ group = {} /\ Lengthy
  BY <1>1, <1>2, TypesLengthy DEF LeavesDone
<1>4. Cut /\ LastChunkLen > 0
  <2>1. Accepts /\ FullChunksReshape
    BY <1>1, <1>2, <1>3 DEF Accounted
  <2>2. Cut
    BY <1>3, <2>1, CutIs
  <2> QED BY <2>1, <2>2, TreeAssumption DEF Cut
<1>5. Types' /\ Absorbing' /\ LeavesExact'
  <2>1. stage' \in {"returned", "failed"}
    BY DEF VectorizedFinals
  <2>2. Types'
    BY <1>1, <1>2, <2>1 DEF Types
  <2> QED BY <1>1, <1>2, <2>2, AbsorbingStays, ExactStays
<1>6. Accounted'
  <2>1. stage' \in {"returned", "failed"}
    BY DEF VectorizedFinals
  <2>2. AllChunks' = AllChunks
    BY <1>2, SameMessages
  <2> QED BY <1>1, <1>2, <1>3, <2>1, <2>2 DEF Accounted
<1>7. CASE DOMAIN cvs = AllChunks
  <2>1. /\ stage' = "returned"
        /\ results' = [s \in Session |-> Padded(TreeInput(s), Tree)]
        /\ LET blocks == Len(results'[1]) \div Rate
           IN  Upload(<<"final", Sessions, blocks, outBlocks>>,
                         FinalShapes(Sessions, blocks))
    BY <1>7 DEF VectorizedFinals
  <2>2. ASSUME NEW s \in Session
        PROVE  /\ results'[s] = Kangaroo(Message(s))
               /\ results'[s] \in Seq(Symbols) /\ Len(results'[s]) % Rate = 0
    <3>1. Leaves(lengths[s]) = FullChunks + 1 /\ FullChunks \in Nat
      BY <1>4 DEF Cut
    <3>2. ChunksOf(s) # {}
      BY <1>3, <3>1, LeavesType
    <3> QED BY <1>1, <1>7, <2>1, <3>2, FinalExact
  <2>3. ResultTypes'
    BY <2>2 DEF ResultTypes
  <2>4. ResultsExact'
    <3>1. \A s \in Session : Kangaroo(Message(s))' = Kangaroo(Message(s))
      BY <1>2, SameMessages
    <3> QED BY <2>2, <3>1 DEF ResultsExact
  <2>5. FieldsShaped'
    <3> DEFINE blocks == Len(results'[1]) \div Rate
               key == <<"final", Sessions, blocks, outBlocks>>
    <3>1. Upload(key, FinalShapes(Sessions, blocks))
      BY <2>1
    <3> HIDE DEF blocks
    <3>2. Shape(key) = FinalShapes(Sessions, blocks)
      BY DEF Shape, FinalShapes
    <3> HIDE DEF key
    <3> QED BY <1>1, <3>1, <3>2, UploadShaped
  <2>6. FailsOnlyOnFullTail'
    BY <2>1 DEF FailsOnlyOnFullTail
  <2> QED BY <1>5, <1>6, <2>3, <2>4, <2>5, <2>6 DEF BatchInv
<1>8. CASE DOMAIN cvs # AllChunks
  <2>1. stage' = "failed" /\ UNCHANGED <<results, fields, upload>>
    BY <1>8 DEF VectorizedFinals
  <2>2. ResultTypes' /\ FieldsShaped' /\ ResultsExact'
    BY <1>1, <2>1 DEF ResultTypes, FieldsShaped, ResultsExact
  <2>3. UNION VectorizedGroups # AllChunks
    BY <1>1, <1>2, <1>8, LeavesAllCollected DEF LeafGroups
  <2>4. PaddedLen(LastChunkLen) = PaddedLen(ChunkSize)
    BY <1>3, <1>4, <2>3, VectorizedGroupsCover
  <2>5. \A s \in Session : Len(PaddedChunk(<<s, Leaves(lengths[s])>>)) = PaddedLen(ChunkSize)
    BY <1>3, <1>4, <2>4, LastPaddedLen
  <2>6. FailsOnlyOnFullTail'
    <3>1. \A id : PaddedChunk(id)' = PaddedChunk(id)
      BY <1>2, SameMessages
    <3> QED BY <1>2, <2>5, <3>1 DEF FailsOnlyOnFullTail
  <2> QED BY <1>5, <1>6, <2>2, <2>6 DEF BatchInv
<1> QED BY <1>7, <1>8

(* A step that changes nothing keeps the invariant. *)
LEMMA StutterStep ==
    ASSUME BatchInv, UNCHANGED vars
    PROVE  BatchInv'
<1>1. UNCHANGED <<orchestration, lengths, outBlocks, stage, pending, group, absorbed, cvs,
                  results, fields, upload, calls>>
  BY DEF vars
<1>2. /\ AllChunks' = AllChunks /\ LeafGroups' = LeafGroups /\ FinalGroups' = FinalGroups
      /\ (Accepts /\ FullChunksReshape)' = (Accepts /\ FullChunksReshape)
      /\ \A id : PaddedChunk(id)' = PaddedChunk(id)
      /\ \A s : Kangaroo(Message(s))' = Kangaroo(Message(s)) /\ ChunksOf(s)' = ChunksOf(s)
  BY <1>1, SameMessages, FinalGroupsCover
<1>3. Types' /\ ResultTypes' /\ FieldsShaped'
  BY <1>1 DEF BatchInv, Types, ResultTypes, FieldsShaped
<1>4. Accounted'
  BY <1>1, <1>2 DEF BatchInv, Accounted
<1>5. Absorbing' /\ LeavesExact'
  BY <1>1, AbsorbingStays, ExactStays DEF BatchInv
<1>6. ResultsExact'
  BY <1>1, <1>2 DEF BatchInv, ResultsExact, Mixed
<1>7. FailsOnlyOnFullTail'
  BY <1>1, <1>2 DEF BatchInv, FailsOnlyOnFullTail
<1> QED BY <1>3, <1>4, <1>5, <1>6, <1>7 DEF BatchInv

(* No step of the program leaves the invariant. *)
LEMMA BatchInvInductive == BatchInv /\ [Next]_vars => BatchInv'
<1> SUFFICES ASSUME BatchInv, [Next]_vars PROVE BatchInv'
  OBVIOUS
<1>1. CASE Call
  BY <1>1, CallStep
<1>2. ASSUME NEW ids \in pending, BeginLockstep(ids) PROVE BatchInv'
  BY <1>2, BeginLockstepStep
<1>3. ASSUME NEW ids \in pending, LaunchLeaves(ids) PROVE BatchInv'
  BY <1>3, LaunchLeavesStep
<1>4. ASSUME NEW ids \in pending, LaunchFinals(ids) PROVE BatchInv'
  BY <1>4, LaunchFinalsStep
<1>5. CASE LockstepBlock
  BY <1>5, LockstepBlockStep
<1>6. CASE CollectGroup
  BY <1>6, CollectGroupStep
<1>7. CASE LockstepFinals
  BY <1>7, LockstepFinalsStep
<1>8. CASE BeginFusedFinals
  BY <1>8, BeginFusedFinalsStep
<1>9. CASE VectorizedFinals
  BY <1>9, VectorizedFinalsStep
<1>10. CASE UNCHANGED vars
  BY <1>10, StutterStep
<1> QED BY <1>1, <1>2, <1>3, <1>4, <1>5, <1>6, <1>7, <1>8, <1>9, <1>10 DEF Next

-----------------------------------------------------------------------------
(* The theorems.                                                           *)

(* Groups and chaining values are of chunks that the messages have, no     *)
(* chunk absorbs more than its padded bytes, and a final node fills whole  *)
(* blocks.                                                                 *)
THEOREM BatchTypeCorrect == Spec => []TypeOK
<1>1. BatchInv => TypeOK
  <2> SUFFICES ASSUME BatchInv PROVE TypeOK
    OBVIOUS
  <2>1. Types /\ Accounted /\ Absorbing /\ ResultTypes
    BY DEF BatchInv
  <2>2. \A ids \in pending : ids \subseteq AllChunks \cup {<<s, 0>> : s \in Session}
    <3>1. stage = "leaves" => UNION pending \subseteq AllChunks
      BY <2>1, GroupsAreChunks
    <3>2. stage = "finals" => UNION pending \subseteq {<<s, 0>> : s \in Session}
      BY <2>1, FinalGroupsCover DEF Accounted
    <3>3. stage \notin {"leaves", "finals"} => pending = {}
      BY <2>1 DEF Accounted, Types
    <3> QED BY <3>1, <3>2, <3>3
  <2>3. group \subseteq AllChunks /\ DOMAIN cvs \subseteq AllChunks
    BY <2>1, GroupsAreChunks DEF Accounted
  <2>4. \A id \in group : Len(absorbed[id]) \in 0..Len(PaddedChunk(id))
    BY <2>1 DEF Absorbing, AbsorbedPart
  <2>5. \A s \in Session : results[s] = NoResult \/ Len(results[s]) % Rate = 0
    BY <2>1 DEF ResultTypes
  <2> QED BY <2>1, <2>2, <2>3, <2>4, <2>5 DEF TypeOK, Types
<1> QED BY <1>1, InitBatchInv, BatchInvInductive, PTL DEF Spec

(* In every orchestration, a chaining value is that of its own chunk in    *)
(* the tree of its own message, whatever shared its group.                 *)
THEOREM BatchLeavesExact == Spec => []LeavesExact
<1>1. BatchInv => LeavesExact
  BY DEF BatchInv
<1> QED BY <1>1, InitBatchInv, BatchInvInductive, PTL DEF Spec

(* A batch returns what kangarootwelve() gives for each message alone,     *)
(* unless it runs in lockstep and only some messages fit into one chunk.   *)
THEOREM BatchResultsExact == Spec => []ResultsExact
<1>1. BatchInv => ResultsExact
  BY DEF BatchInv
<1> QED BY <1>1, InitBatchInv, BatchInvInductive, PTL DEF Spec

(* The keys of the field cache determine the shapes, for any calls.        *)
THEOREM BatchFieldFits == Spec => []FieldFits
<1>1. BatchInv => FieldFits
  BY DEF BatchInv, FieldsShaped, FieldFits
<1> QED BY <1>1, InitBatchInv, BatchInvInductive, PTL DEF Spec

(* The vectorized path fails for no other lengths than those whose last    *)
(* chunk is padded to the length of a full one.                            *)
THEOREM BatchFailsOnlyOnFullTail == Spec => []FailsOnlyOnFullTail
<1>1. BatchInv => FailsOnlyOnFullTail
  BY DEF BatchInv
<1> QED BY <1>1, InitBatchInv, BatchInvInductive, PTL DEF Spec
=============================================================================
