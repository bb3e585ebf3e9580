------------------------ MODULE KeccakKernelsProofs ------------------------
(***************************************************************************)
(* What KeccakKernels promises, for every width of the lanes, number of    *)
(* rounds, rate, set of threads and set of inputs.                         *)
(***************************************************************************)
EXTENDS KeccakKernels, TLAPS

-----------------------------------------------------------------------------
(* The steps of the permutation keep a state a state.                      *)

(* The model's XOR is the library's symmetric difference. *)
LEMMA XorIsSymDiff == \A A, B : K!SymDiff(A, B) = SymDiff(A, B)
BY DEF K!SymDiff, SymDiff

(* XOR of lanes is a lane, as ^ of two words of the device is a word. *)
LEMMA XorType ==
    ASSUME NEW A \in K!Lanes, NEW B \in K!Lanes
    PROVE  SymDiff(A, B) \in K!Lanes
BY DEF SymDiff, K!Lanes

(* XOR with the same lane twice is no XOR. *)
LEMMA XorCancels ==
    ASSUME NEW A, NEW B
    PROVE  SymDiff(SymDiff(A, B), B) = A
BY DEF SymDiff

(* The sizes of the code's permutation are in range. *)
LEMMA Parameters ==
    /\ LaneBits \in Nat \ {0} /\ NumRounds \in 1..24 /\ RateLanes \in 1..25
    /\ Inputs \subseteq Seq(K!Block) /\ MaxWanted \in Nat \ {0}
BY KernelsAssumption DEF K!ParametersOK

(* rol turns a lane into a lane. *)
LEMMA RolType ==
    ASSUME NEW lane \in K!Lanes, NEW n \in Nat
    PROVE  K!Rol(lane, n) \in K!Lanes
<1> SUFFICES ASSUME NEW i \in lane PROVE (i + n) % LaneBits \in K!Bits
  BY DEF K!Rol, K!Lanes
<1>1. i \in Nat
  BY Parameters DEF K!Lanes, K!Bits
<1> QED BY <1>1, Parameters DEF K!Bits

(* Each rho offset is a natural number. *)
LEMMA OffsetType ==
    ASSUME NEW x \in X, NEW y \in X
    PROVE  K!Offset[x + 1][y + 1] \in Nat
<1>1. /\ x \in {0, 1, 2, 3, 4}
      /\ y \in {0, 1, 2, 3, 4}
  BY DEF X, K!X
<1>2. CASE x = 0 BY <1>1, <1>2 DEF K!Offset
<1>3. CASE x = 1 BY <1>1, <1>3 DEF K!Offset
<1>4. CASE x = 2 BY <1>1, <1>4 DEF K!Offset
<1>5. CASE x = 3 BY <1>1, <1>5 DEF K!Offset
<1>6. CASE x = 4 BY <1>1, <1>6 DEF K!Offset
<1> QED BY <1>1, <1>2, <1>3, <1>4, <1>5, <1>6

(* The columns that theta adds to the lanes, from the state it starts at.  *)
Effects(st) == [x \in X |-> K!ColumnEffect([y \in X |-> K!Column(st, y)], x)]

(* Theta's effects are a lane for each column. *)
LEMMA EffectsType ==
    ASSUME NEW st
    PROVE  /\ [x \in X |-> K!Column(st, x)] \in [X -> K!Lanes]
           /\ Effects(st) \in [X -> K!Lanes]
<1> DEFINE columns == [x \in X |-> K!Column(st, x)]
<1>1. \A x : K!Column(st, x) \in K!Lanes
  BY DEF K!Column, K!Lanes
<1>2. columns \in [X -> K!Lanes]
  BY <1>1
<1> HIDE DEF columns
<1>3. ASSUME NEW x \in X PROVE K!ColumnEffect(columns, x) \in K!Lanes
  <2>1. (x + 4) % 5 \in X /\ (x + 1) % 5 \in X
    BY DEF X, K!X
  <2>2. columns[(x + 4) % 5] \in K!Lanes /\ K!Rol(columns[(x + 1) % 5], 1) \in K!Lanes
    BY <1>2, <2>1, RolType
  <2> QED BY <2>2, XorIsSymDiff, XorType DEF K!ColumnEffect
<1> QED BY <1>2, <1>3 DEF Effects, columns

(* Theta XORs the effect of its column to each lane. *)
LEMMA ThetaIsEffects ==
    ASSUME NEW st
    PROVE  K!Theta(st) = [p \in X \X X |-> SymDiff(st[p], Effects(st)[p[1]])]
BY XorIsSymDiff DEF K!Theta, Effects, X

(* Pi takes each lane from a place of the state. *)
LEMMA SourceType ==
    ASSUME NEW q \in X \X X
    PROVE  K!Source(q) \in X \X X
<1>1. PICK u \in X, v \in X : q = <<u, v>>
  OBVIOUS
<1>2. \E x \in X : (2 * x + 3 * u) % 5 = v
  <2>1. u \in {0, 1, 2, 3, 4} /\ v \in {0, 1, 2, 3, 4}
    BY DEF X, K!X
  <2>2. (3 * (v + 2 * u)) % 5 \in X
    BY <2>1 DEF X, K!X
  <2>3. (2 * ((3 * (v + 2 * u)) % 5) + 3 * u) % 5 = v
    BY <2>1
  <2> QED BY <2>2, <2>3
<1>3. PICK x \in X : (2 * x + 3 * u) % 5 = v
  BY <1>2
<1>4. <<x, u>> \in X \X X /\ <<x, u>>[1] = x /\ <<x, u>>[2] = u
  OBVIOUS
<1>5. \E p \in X \X X : q = <<p[2], (2 * p[1] + 3 * p[2]) % 5>>
  BY <1>1, <1>3, <1>4
<1> QED BY <1>5 DEF K!Source, X

(* rho and pi give a state. *)
LEMMA RhoPiType ==
    ASSUME NEW st \in K!States
    PROVE  K!RhoPi(st) \in K!States
<1>1. ASSUME NEW q \in X \X X PROVE K!Moved(st, q) \in K!Lanes
  <2> DEFINE p == K!Source(q)
  <2>1. p \in X \X X
    BY SourceType
  <2> HIDE DEF p
  <2>2. st[p] \in K!Lanes /\ K!Offset[p[1] + 1][p[2] + 1] \in Nat
    BY <2>1, OffsetType DEF K!States, X
  <2> QED BY <2>2, RolType DEF K!Moved, p
<1> QED BY <1>1 DEF K!RhoPi, K!States, X

(* Chi gives a state. *)
LEMMA ChiType ==
    ASSUME NEW st \in K!States
    PROVE  K!Chi(st) \in K!States
<1>1. ASSUME NEW x \in X, NEW y \in X PROVE K!ChiLane(st, x, y) \in K!Lanes
  <2>1. (x + 1) % 5 \in X /\ (x + 2) % 5 \in X
    BY DEF X, K!X
  <2>2. /\ st[<<x, y>>] \in K!Lanes
        /\ st[<<(x + 2) % 5, y>>] \ st[<<(x + 1) % 5, y>>] \in K!Lanes
    BY <2>1 DEF K!States, X, K!Lanes
  <2> QED BY <2>2, XorIsSymDiff, XorType DEF K!ChiLane
<1> QED BY <1>1 DEF K!Chi, K!States, X

(* Iota gives a state. *)
LEMMA IotaType ==
    ASSUME NEW st \in K!States, NEW r
    PROVE  K!Iota(st, r) \in K!States
<1>1. K!RoundConstantOf(r) \in K!Lanes
  BY DEF K!RoundConstantOf, K!Lanes
<1>2. <<0, 0>> \in X \X X
  BY DEF X, K!X
<1>3. SymDiff(st[<<0, 0>>], K!RoundConstantOf(r)) \in K!Lanes
  BY <1>1, <1>2, XorType DEF K!States, X
<1> QED BY <1>2, <1>3, XorIsSymDiff DEF K!Iota, K!States, X

(* The state of zeros that absorbing starts from is a state. *)
LEMMA ZeroType == K!Zero \in K!States
BY DEF K!Zero, K!States, K!Lanes

(* XOR with theta's columns, on a whole state, and back. *)
WithColumns(st, columns) == [p \in X \X X |-> SymDiff(st[p], columns[p[1]])]

(* XOR with d column by column is undone by itself. *)
LEMMA WithColumnsType ==
    ASSUME NEW st \in K!States, NEW columns \in [X -> K!Lanes]
    PROVE  /\ WithColumns(st, columns) \in K!States
           /\ WithColumns(WithColumns(st, columns), columns) = st
<1>1. \A p \in X \X X : st[p] \in K!Lanes /\ columns[p[1]] \in K!Lanes
  BY DEF K!States, X
<1>2. WithColumns(st, columns) \in K!States
  BY <1>1, XorType DEF WithColumns, K!States, X
<1>3. WithColumns(WithColumns(st, columns), columns)
        = [p \in X \X X |-> SymDiff(SymDiff(st[p], columns[p[1]]), columns[p[1]])]
  BY DEF WithColumns
<1>4. st = [p \in X \X X |-> st[p]]
  BY DEF K!States, X
<1> QED BY <1>2, <1>3, <1>4, XorCancels

-----------------------------------------------------------------------------
(* The inductive invariant: what the loops of a round have computed so far, *)
(* and where a thread is when its loops are done.                          *)

Computed(b) ==
    /\ phase[b] \in {"idle", "written"} <=> rnd[b] = 24
    /\ phase[b] = "theta" => d[b] = Effects(Held(b))
    /\ phase[b] \in {"rho", "chi"} => d[b] = Effects(WithColumns(Held(b), d[b]))
    /\ phase[b] = "chi" => t[b] = K!RhoPi(Held(b))
    /\ phase[b] = "written" => kernel = "leaf" /\ field[b] = Held(b)
    /\ phase[b] = "written" \/ squeezed[b] # <<>> => blk[b] = Len(input[b])

(* Only keccak_p12_fused_absorb_squeeze squeezes more than once.           *)
OneDigest == kernel # "final" => wanted = 1

KInv == TypeOK /\ OneDigest /\ \A b \in Sessions : Computed(b)

(* What thread b does, whatever the others do. *)
ThreadStep(b) ==
    \/ ThreadAbsorb(b) \/ Columns(b) \/ ThetaLanes(b) \/ RhoPiLanes(b)
    \/ ChiLanes(b) \/ IotaLane(b) \/ WriteBack(b) \/ Squeeze(b)

(* A thread's input is a sequence of blocks. *)
LEMMA InputType ==
    ASSUME TypeOK, NEW b \in Sessions
    PROVE  /\ input[b] \in Seq(K!Block) /\ Len(input[b]) \in Nat
           /\ \A i \in 1..Len(input[b]) : input[b][i] \in K!Block
<1>1. input[b] \in Seq(K!Block)
  BY Parameters DEF TypeOK
<1> QED BY <1>1

(* x + 5y is one of the 25 places of a vector. *)
LEMMA PositionType ==
    ASSUME NEW p \in X \X X
    PROVE  p[1] + 5 * p[2] \in 0..24
BY DEF X, K!X

(* What a thread computes on, in the field or in its own vector, is a state. *)
LEMMA HeldType ==
    ASSUME TypeOK, NEW b \in Sessions
    PROVE  /\ Held(b) \in K!States
           /\ kernel = "batch" => Held(b) = field[b]
           /\ kernel # "batch" =>
                 Held(b) = [p \in X \X X |-> s[b][p[1] + 5 * p[2]]]
<1>1. field[b] \in K!States /\ s[b] \in [0..24 -> K!Lanes]
  BY DEF TypeOK
<1>2. CASE kernel = "batch"
  <2>1. Held(b) = [p \in X \X X |-> field[b][<<p[1], p[2]>>]]
    BY <1>2 DEF Held, Lane
  <2>2. \A p \in X \X X : <<p[1], p[2]>> = p
    OBVIOUS
  <2>3. field[b] = [p \in X \X X |-> field[b][p]]
    BY <1>1 DEF K!States, X
  <2> QED BY <1>1, <1>2, <2>1, <2>2, <2>3
<1>3. CASE kernel # "batch"
  <2>1. Held(b) = [p \in X \X X |-> s[b][p[1] + 5 * p[2]]]
    BY <1>3 DEF Held, Lane
  <2>2. \A p \in X \X X : s[b][p[1] + 5 * p[2]] \in K!Lanes
    BY <1>1, PositionType
  <2> QED BY <1>3, <2>1, <2>2 DEF K!States, X
<1> QED BY <1>2, <1>3

(* A state written in the order x + 5y is a vector of 25 lanes. *)
LEMMA FlatType ==
    ASSUME NEW st \in K!States
    PROVE  /\ Flat(st) \in [0..24 -> K!Lanes]
           /\ \A p \in X \X X : Flat(st)[p[1] + 5 * p[2]] = st[p]
<1>1. \A i \in 0..24 : <<i % 5, i \div 5>> \in X \X X
  BY DEF X, K!X
<1>2. Flat(st) \in [0..24 -> K!Lanes]
  BY <1>1 DEF Flat, K!States, X
<1>3. ASSUME NEW p \in X \X X
      PROVE  Flat(st)[p[1] + 5 * p[2]] = st[p]
  <2> DEFINE i == p[1] + 5 * p[2]
  <2>1. i % 5 = p[1] /\ i \div 5 = p[2] /\ i \in 0..24
    BY DEF X, K!X
  <2>2. <<p[1], p[2]>> = p
    OBVIOUS
  <2> HIDE DEF i
  <2> QED BY <2>1, <2>2 DEF Flat, i
<1> QED BY <1>2, <1>3

(* Storing a state: the thread holds it, and nothing else of it changes.   *)
LEMMA StoreHolds ==
    ASSUME TypeOK, NEW b \in Sessions, NEW st \in K!States,
           Store(b, st), UNCHANGED kernel
    PROVE  /\ Held(b)' = st
           /\ field' \in [Sessions -> K!States]
           /\ s' \in [Sessions -> [0..24 -> K!Lanes]]
           /\ \A a \in Sessions \ {b} : field'[a] = field[a] /\ s'[a] = s[a]
           /\ kernel # "batch" => field' = field
<1>1. field \in [Sessions -> K!States] /\ s \in [Sessions -> [0..24 -> K!Lanes]]
  BY DEF TypeOK
<1>2. st = [p \in X \X X |-> st[p]]
  BY DEF K!States, X
<1>3. CASE kernel = "batch"
  <2>1. field' = [field EXCEPT ![b] = st] /\ s' = s
    BY <1>3 DEF Store
  <2>2. Held(b)' = [p \in X \X X |-> field'[b][<<p[1], p[2]>>]]
    BY <1>3 DEF Held, Lane
  <2>3. \A p \in X \X X : <<p[1], p[2]>> = p
    OBVIOUS
  <2> QED BY <1>1, <1>2, <1>3, <2>1, <2>2, <2>3
<1>4. CASE kernel # "batch"
  <2>1. s' = [s EXCEPT ![b] = Flat(st)] /\ field' = field
    BY <1>4 DEF Store
  <2>2. Held(b)' = [p \in X \X X |-> s'[b][p[1] + 5 * p[2]]]
    BY <1>4 DEF Held, Lane
  <2>3. s'[b] = Flat(st)
    BY <1>1, <2>1
  <2> QED BY <1>1, <1>2, <1>4, <2>1, <2>2, <2>3, FlatType
<1> QED BY <1>3, <1>4

(* A thread's step leaves the state of any other thread alone. *)
LEMMA OthersUntouched ==
    ASSUME TypeOK, NEW b \in Sessions, ThreadStep(b), NEW a \in Sessions \ {b}
    PROVE  /\ field'[a] = field[a] /\ s'[a] = s[a] /\ c'[a] = c[a] /\ d'[a] = d[a]
           /\ t'[a] = t[a] /\ phase'[a] = phase[a] /\ rnd'[a] = rnd[a]
           /\ blk'[a] = blk[a] /\ squeezed'[a] = squeezed[a]
           /\ UNCHANGED <<kernel, input, wanted>>
<1>1. CASE ThreadAbsorb(b) BY <1>1 DEF TypeOK, ThreadAbsorb
<1>2. CASE Columns(b) BY <1>2 DEF TypeOK, Columns
<1>3. CASE ThetaLanes(b) BY <1>3 DEF TypeOK, ThetaLanes, Store
<1>4. CASE RhoPiLanes(b) BY <1>4 DEF TypeOK, RhoPiLanes
<1>5. CASE ChiLanes(b) BY <1>5 DEF TypeOK, ChiLanes, Store
<1>6. CASE IotaLane(b) BY <1>6 DEF TypeOK, IotaLane, Store
<1>7. CASE WriteBack(b) BY <1>7 DEF TypeOK, WriteBack
<1>8. CASE Squeeze(b)
  <2>1. \/ phase' = [phase EXCEPT ![b] = "columns"] /\ rnd' = [rnd EXCEPT ![b] = 24 - NumRounds]
        \/ UNCHANGED <<phase, rnd>>
    BY <1>8 DEF Squeeze
  <2>2. phase'[a] = phase[a] /\ rnd'[a] = rnd[a]
    BY <2>1 DEF TypeOK
  <2>3. squeezed'[a] = squeezed[a]
    BY <1>8 DEF Squeeze
  <2> QED BY <1>8, <2>2, <2>3 DEF Squeeze
<1> QED BY <1>1, <1>2, <1>3, <1>4, <1>5, <1>6, <1>7, <1>8 DEF ThreadStep

(* A thread that is not touched is as far as it was. *)
LEMMA ComputedStays ==
    ASSUME NEW a \in Sessions, Computed(a),
           field'[a] = field[a], s'[a] = s[a], d'[a] = d[a], t'[a] = t[a],
           phase'[a] = phase[a], rnd'[a] = rnd[a], blk'[a] = blk[a],
           squeezed'[a] = squeezed[a], UNCHANGED <<kernel, input>>
    PROVE  Computed(a)' /\ Held(a)' = Held(a)
<1>1. Held(a)' = Held(a)
  BY DEF Held, Lane
<1> QED BY <1>1 DEF Computed

(* What SpongeState is at each place of a round. *)
LEMMA SpongeStateIs ==
    ASSUME NEW b
    PROVE  /\ phase[b] \in {"rho", "chi"} => SpongeState(b) = WithColumns(Held(b), d[b])
           /\ phase[b] = "iota" => SpongeState(b) = K!Iota(Held(b), rnd[b])
           /\ phase[b] \notin {"rho", "chi", "iota"} => SpongeState(b) = Held(b)
BY DEF SpongeState, WithColumns

-----------------------------------------------------------------------------
(* The steps of a thread: each keeps the types and what was computed, and  *)
(* means to the reference's state what ImplementsSponge says.              *)

Block(b) == input[b][blk[b] + 1]

(* The kernel's XOR into the first lanes absorbs as the reference does. *)
LEMMA AbsorbedIsXor ==
    ASSUME NEW st \in K!States, NEW block \in K!Block
    PROVE  /\ Absorbed(st, block) = K!XorBlock(st, block)
           /\ K!XorBlock(st, block) \in K!States
<1>1. ASSUME NEW p \in X \X X, p[1] + 5 * p[2] < RateLanes
      PROVE  SymDiff(st[p], block[p[1] + 5 * p[2]]) \in K!Lanes
  <2>1. p[1] + 5 * p[2] \in 0..RateLanes-1
    <3> DEFINE i == p[1] + 5 * p[2]
    <3>1. i \in 0..24 /\ i < RateLanes
      BY <1>1, PositionType
    <3> HIDE DEF i
    <3>2. i \in 0..RateLanes-1
      BY <3>1, Parameters
    <3> QED BY <3>2 DEF i
  <2>2. block[p[1] + 5 * p[2]] \in K!Lanes /\ st[p] \in K!Lanes
    BY <2>1 DEF K!Block, K!States, X
  <2> QED BY <2>2, XorType
<1>2. Absorbed(st, block) \in K!States
  BY <1>1 DEF Absorbed, K!States, X
<1>3. Absorbed(st, block) = K!XorBlock(st, block)
  BY XorIsSymDiff DEF Absorbed, K!XorBlock, K!Position, X
<1> QED BY <1>2, <1>3

(* The absorbing loop of a thread keeps the invariant. *)
LEMMA ThreadAbsorbStep ==
    ASSUME KInv, NEW b \in Sessions, ThreadAbsorb(b)
    PROVE  /\ TypeOK' /\ Computed(b)'
           /\ SpongeState(b)' = K!XorBlock(SpongeState(b), Block(b))
<1>0. TypeOK /\ Computed(b)
  BY DEF KInv
<1>10. /\ s \in [Sessions -> [0..24 -> K!Lanes]] /\ phase \in [Sessions -> Phases]
      /\ rnd \in [Sessions -> 24-NumRounds..24]
      /\ blk \in [Sessions -> Nat]
      /\ \A a \in Sessions : blk[a] <= Len(input[a])
  BY <1>0 DEF TypeOK
<1>1. /\ kernel # "batch" /\ phase[b] = "idle" /\ blk[b] < Len(input[b])
      /\ phase'[b] = "columns" /\ rnd'[b] = 24 - NumRounds /\ blk'[b] = blk[b] + 1
      /\ UNCHANGED <<kernel, input, wanted, field, c, d, t, squeezed>>
  BY <1>10 DEF ThreadAbsorb
<1>2. Block(b) \in K!Block /\ blk[b] + 1 \in 1..Len(input[b])
  <2>1. blk[b] + 1 \in 1..Len(input[b])
    <3> DEFINE n == Len(input[b])
    <3>1. n \in Nat /\ blk[b] \in Nat /\ blk[b] < n
      BY <1>0, <1>10, <1>1, InputType
    <3> HIDE DEF n
    <3>2. blk[b] + 1 \in 1..n
      BY <3>1
    <3> QED BY <3>2 DEF n
  <2> QED BY <1>0, <2>1, InputType DEF Block
<1>3. s'[b] = [i \in 0..24 |-> IF i < RateLanes THEN SymDiff(s[b][i], Block(b)[i])
                               ELSE s[b][i]]
  BY <1>10 DEF ThreadAbsorb, Block
<1>4. s'[b] \in [0..24 -> K!Lanes]
  <2>1. ASSUME NEW i \in 0..24, i < RateLanes
        PROVE  SymDiff(s[b][i], Block(b)[i]) \in K!Lanes
    <3>1. i \in 0..RateLanes-1
      BY <2>1, Parameters
    <3>2. s[b][i] \in K!Lanes /\ Block(b)[i] \in K!Lanes
      BY <1>10, <1>2, <3>1 DEF K!Block
    <3> QED BY <3>2, XorType
  <2>2. s[b] \in [0..24 -> K!Lanes]
    BY <1>0 DEF TypeOK
  <2> QED BY <1>3, <2>1, <2>2
<1>5. Held(b)' = K!XorBlock(Held(b), Block(b))
  <2>1. Held(b)' = [p \in X \X X |-> s'[b][p[1] + 5 * p[2]]]
    BY <1>1 DEF Held, Lane
  <2>2. Held(b) \in K!States /\ Held(b) = [p \in X \X X |-> s[b][p[1] + 5 * p[2]]]
    BY <1>0, <1>1, HeldType
  <2>3. Held(b)' = Absorbed(Held(b), Block(b))
    BY <1>3, <2>1, <2>2, PositionType DEF Absorbed
  <2> QED BY <1>2, <2>2, <2>3, AbsorbedIsXor
<1>6. TypeOK'
  <2>1. s' \in [Sessions -> [0..24 -> K!Lanes]]
    BY <1>10, <1>4 DEF ThreadAbsorb
  <2>2. phase' \in [Sessions -> Phases] /\ rnd' \in [Sessions -> 24-NumRounds..24]
    <3>1. 24 - NumRounds \in 24-NumRounds..24
      BY Parameters
    <3> QED BY <1>10, <3>1 DEF ThreadAbsorb, Phases
  <2>3. blk' \in [Sessions -> Nat] /\ \A a \in Sessions : blk'[a] <= Len(input[a])
    <3>1. blk' = [blk EXCEPT ![b] = blk[b] + 1]
      BY DEF ThreadAbsorb
    <3>2. blk[b] + 1 \in Nat /\ blk[b] + 1 <= Len(input[b])
      BY <1>2
    <3> QED BY <1>10, <3>1, <3>2
  <2> QED BY <1>0, <1>1, <2>1, <2>2, <2>3 DEF TypeOK
<1>7. Computed(b)'
  <2>1. squeezed[b] = <<>>
    BY <1>0, <1>1, <1>2, InputType DEF Computed
  <2> QED BY <1>1, <2>1, Parameters DEF Computed
<1> QED BY <1>1, <1>5, <1>6, <1>7, SpongeStateIs DEF SpongeState

(* The loop for d keeps the invariant: d is then theta's of the state. *)
LEMMA ColumnsStep ==
    ASSUME KInv, NEW b \in Sessions, Columns(b)
    PROVE  /\ TypeOK' /\ Computed(b)'
           /\ SpongeState(b)' = SpongeState(b)
<1>0. TypeOK /\ Computed(b)
  BY DEF KInv
<1>1. /\ phase[b] = "columns" /\ phase'[b] = "theta"
      /\ c'[b] = [x \in X |-> K!Column(Held(b), x)]
      /\ d'[b] = [x \in X |-> K!ColumnEffect(c'[b], x)]
      /\ UNCHANGED <<kernel, input, wanted, field, s, t, rnd, blk, squeezed>>
  BY <1>0 DEF Columns, TypeOK
<1>2. Held(b)' = Held(b)
  BY <1>1 DEF Held, Lane
<1>3. d'[b] = Effects(Held(b))
  BY <1>1 DEF Effects
<1>4. TypeOK'
  <2>1. c'[b] \in [X -> K!Lanes] /\ d'[b] \in [X -> K!Lanes]
    BY <1>1, <1>3, EffectsType
  <2>2. c' \in [Sessions -> [X -> K!Lanes]] /\ d' \in [Sessions -> [X -> K!Lanes]]
    BY <1>0, <2>1 DEF TypeOK, Columns
  <2>3. phase' \in [Sessions -> Phases]
    BY <1>0 DEF TypeOK, Columns, Phases
  <2> QED BY <1>0, <1>1, <2>2, <2>3 DEF TypeOK
<1>5. Computed(b)'
  BY <1>0, <1>1, <1>2, <1>3 DEF Computed
<1> QED BY <1>1, <1>2, <1>4, <1>5 DEF SpongeState

(* The theta loop keeps the invariant: the state is then theta's. *)
LEMMA ThetaStep ==
    ASSUME KInv, NEW b \in Sessions, ThetaLanes(b)
    PROVE  /\ TypeOK' /\ Computed(b)'
           /\ SpongeState(b)' = SpongeState(b)
<1>0. TypeOK /\ Computed(b)
  BY DEF KInv
<1>1. /\ phase[b] = "theta" /\ phase'[b] = "rho"
      /\ Store(b, WithColumns(Held(b), d[b]))
      /\ phase' \in [Sessions -> Phases]
      /\ UNCHANGED <<kernel, input, wanted, c, d, t, rnd, blk, squeezed>>
  BY <1>0 DEF ThetaLanes, TypeOK, WithColumns, Phases
<1>2. Held(b) \in K!States /\ d[b] \in [X -> K!Lanes]
  BY <1>0, HeldType DEF TypeOK
<1>3. /\ WithColumns(Held(b), d[b]) \in K!States
      /\ WithColumns(WithColumns(Held(b), d[b]), d[b]) = Held(b)
  BY <1>2, WithColumnsType
<1>4. /\ Held(b)' = WithColumns(Held(b), d[b])
      /\ field' \in [Sessions -> K!States] /\ s' \in [Sessions -> [0..24 -> K!Lanes]]
  BY <1>0, <1>1, <1>3, StoreHolds
<1>5. WithColumns(Held(b), d[b])' = Held(b)
  <2>1. WithColumns(Held(b), d[b])' = WithColumns(Held(b)', d[b])
    BY <1>1 DEF WithColumns
  <2> QED BY <1>3, <1>4, <2>1
<1>6. TypeOK'
  BY <1>0, <1>1, <1>4 DEF TypeOK
<1>7. Computed(b)'
  <2>1. d'[b] = Effects(WithColumns(Held(b), d[b])')
    BY <1>0, <1>1, <1>5 DEF Computed
  <2>2. d'[b] = Effects(WithColumns(Held(b), d[b]))'
    BY <2>1 DEF Effects
  <2> QED BY <1>0, <1>1, <2>2 DEF Computed
<1>8. SpongeState(b)' = WithColumns(Held(b), d[b])'
  BY <1>1 DEF SpongeState, WithColumns
<1> QED BY <1>1, <1>5, <1>6, <1>7, <1>8, SpongeStateIs

(* The rho and pi loop keeps the invariant: t is then of theta's state. *)
LEMMA RhoPiStep ==
    ASSUME KInv, NEW b \in Sessions, RhoPiLanes(b)
    PROVE  /\ TypeOK' /\ Computed(b)'
           /\ SpongeState(b)' = SpongeState(b)
<1>0. TypeOK /\ Computed(b)
  BY DEF KInv
<1>1. /\ phase[b] = "rho" /\ phase'[b] = "chi"
      /\ t'[b] = K!RhoPi(Held(b))
      /\ phase' \in [Sessions -> Phases]
      /\ UNCHANGED <<kernel, input, wanted, field, s, c, d, rnd, blk, squeezed>>
  BY <1>0 DEF RhoPiLanes, TypeOK, Phases
<1>2. Held(b)' = Held(b)
  BY <1>1 DEF Held, Lane
<1>3. TypeOK'
  <2>1. K!RhoPi(Held(b)) \in K!States
    BY <1>0, HeldType, RhoPiType
  <2>2. t' \in [Sessions -> K!States]
    BY <1>0, <2>1 DEF TypeOK, RhoPiLanes
  <2> QED BY <1>0, <1>1, <2>2 DEF TypeOK
<1>4. WithColumns(Held(b), d[b])' = WithColumns(Held(b), d[b])
  BY <1>1, <1>2 DEF WithColumns
<1>5. Computed(b)'
  <2>1. d'[b] = Effects(WithColumns(Held(b), d[b])')
    BY <1>0, <1>1, <1>4 DEF Computed
  <2>2. d'[b] = Effects(WithColumns(Held(b), d[b]))'
    BY <2>1 DEF Effects
  <2>3. t'[b] = K!RhoPi(Held(b)')
    BY <1>1, <1>2
  <2>4. t'[b] = K!RhoPi(Held(b))'
    BY <2>3 DEF K!RhoPi, K!Moved
  <2> QED BY <1>0, <1>1, <2>2, <2>4 DEF Computed
<1>6. SpongeState(b)' = WithColumns(Held(b), d[b])'
  BY <1>1 DEF SpongeState, WithColumns
<1> QED BY <1>1, <1>3, <1>4, <1>5, <1>6, SpongeStateIs

(* Chi is where the round of the reference takes place. *)
LEMMA ChiStep ==
    ASSUME KInv, NEW b \in Sessions, ChiLanes(b)
    PROVE  /\ TypeOK' /\ Computed(b)'
           /\ SpongeState(b)' = K!RoundOf(SpongeState(b), rnd[b])
<1>0. TypeOK /\ Computed(b)
  BY DEF KInv
<1>1. /\ phase[b] = "chi" /\ phase'[b] = "iota"
      /\ Store(b, K!Chi(t[b]))
      /\ phase' \in [Sessions -> Phases]
      /\ UNCHANGED <<kernel, input, wanted, c, d, t, rnd, blk, squeezed>>
  BY <1>0 DEF ChiLanes, ChiOf, TypeOK, Phases
<1>2. K!Chi(t[b]) \in K!States
  BY <1>0, ChiType DEF TypeOK
<1>3. /\ Held(b)' = K!Chi(t[b])
      /\ field' \in [Sessions -> K!States] /\ s' \in [Sessions -> [0..24 -> K!Lanes]]
  BY <1>0, <1>1, <1>2, StoreHolds
<1>4. TypeOK'
  BY <1>0, <1>1, <1>3 DEF TypeOK
<1>5. Computed(b)'
  BY <1>0, <1>1 DEF Computed
<1>6. Held(b) = K!Theta(SpongeState(b))
  <2> DEFINE old == WithColumns(Held(b), d[b])
  <2>1. SpongeState(b) = old /\ d[b] = Effects(old)
    BY <1>0, <1>1, SpongeStateIs DEF Computed
  <2>2. WithColumns(old, d[b]) = Held(b)
    BY <1>0, HeldType, WithColumnsType DEF TypeOK
  <2>3. K!Theta(old) = WithColumns(old, Effects(old))
    BY ThetaIsEffects DEF WithColumns
  <2> HIDE DEF old
  <2> QED BY <2>1, <2>2, <2>3
<1>7. SpongeState(b)' = K!Iota(Held(b), rnd[b])'
  BY <1>1 DEF SpongeState
<1>8. K!Iota(Held(b), rnd[b])' = K!Iota(K!Chi(t[b]), rnd[b])
  BY <1>1, <1>3 DEF K!Iota
<1>9. t[b] = K!RhoPi(Held(b))
  BY <1>0, <1>1 DEF Computed
<1> QED BY <1>4, <1>5, <1>6, <1>7, <1>8, <1>9 DEF K!RoundOf

(* Iota ends a round; for the reference it was over with chi. *)
LEMMA IotaStep ==
    ASSUME KInv, NEW b \in Sessions, IotaLane(b)
    PROVE  /\ TypeOK' /\ Computed(b)'
           /\ SpongeState(b)' = SpongeState(b)
           /\ rnd'[b] = rnd[b] + 1 /\ phase'[b] # "iota"
<1>0. TypeOK /\ Computed(b)
  BY DEF KInv
<1>1. /\ phase[b] = "iota"
      /\ Store(b, K!Iota(Held(b), rnd[b]))
      /\ phase' = [phase EXCEPT ![b] = IF rnd[b] + 1 < 24 THEN "columns" ELSE "idle"]
      /\ rnd' = [rnd EXCEPT ![b] = rnd[b] + 1]
      /\ UNCHANGED <<kernel, input, wanted, c, d, t, blk, squeezed>>
  BY DEF IotaLane
<1>2. /\ rnd \in [Sessions -> 24-NumRounds..24] /\ phase \in [Sessions -> Phases]
      /\ rnd[b] # 24
  BY <1>0, <1>1 DEF TypeOK, Computed
<1>3. /\ rnd' \in [Sessions -> 24-NumRounds..24] /\ phase' \in [Sessions -> Phases]
      /\ rnd'[b] = rnd[b] + 1
      /\ phase'[b] = IF rnd'[b] < 24 THEN "columns" ELSE "idle"
      /\ phase'[b] = "idle" <=> rnd'[b] = 24
  BY <1>1, <1>2, Parameters DEF Phases
<1>4. K!Iota(Held(b), rnd[b]) \in K!States
  BY <1>0, HeldType, IotaType
<1>5. /\ Held(b)' = K!Iota(Held(b), rnd[b])
      /\ field' \in [Sessions -> K!States] /\ s' \in [Sessions -> [0..24 -> K!Lanes]]
  BY <1>0, <1>1, <1>4, StoreHolds
<1>6. TypeOK'
  BY <1>0, <1>1, <1>3, <1>5 DEF TypeOK
<1>7. Computed(b)'
  BY <1>0, <1>1, <1>3 DEF Computed
<1>8. SpongeState(b)' = Held(b)'
  BY <1>3 DEF SpongeState
<1>9. SpongeState(b) = K!Iota(Held(b), rnd[b])
  BY <1>1, SpongeStateIs
<1> QED BY <1>3, <1>5, <1>6, <1>7, <1>8, <1>9

(* Writing the leaf's state to the field keeps the invariant. *)
LEMMA WriteBackStep ==
    ASSUME KInv, NEW b \in Sessions, WriteBack(b)
    PROVE  /\ TypeOK' /\ Computed(b)'
           /\ SpongeState(b)' = SpongeState(b)
<1>0. TypeOK /\ Computed(b)
  BY DEF KInv
<1>1. /\ kernel = "leaf" /\ phase[b] = "idle" /\ phase'[b] = "written"
      /\ blk[b] = Len(input[b])
      /\ field' = [field EXCEPT ![b] = Held(b)] /\ field'[b] = Held(b)
      /\ phase' \in [Sessions -> Phases]
      /\ UNCHANGED <<kernel, input, wanted, s, c, d, t, rnd, blk, squeezed>>
  BY <1>0 DEF WriteBack, TypeOK, Phases
<1>2. Held(b)' = Held(b)
  BY <1>1 DEF Held, Lane
<1>3. TypeOK'
  <2>1. field' \in [Sessions -> K!States]
    BY <1>0, <1>1, HeldType DEF TypeOK
  <2> QED BY <1>0, <1>1, <2>1 DEF TypeOK
<1>4. Computed(b)'
  BY <1>0, <1>1, <1>2 DEF Computed
<1> QED BY <1>1, <1>2, <1>3, <1>4 DEF SpongeState

(* The outer part that is squeezed is a block. *)
LEMMA OuterType ==
    ASSUME NEW st \in K!States
    PROVE  K!OuterPart(st) \in K!Block
<1>1. \A i \in 0..24 : <<i % 5, i \div 5>> \in X \X X
  BY DEF X, K!X
<1>2. \A i \in 0..RateLanes-1 : i \in 0..24
  BY Parameters
<1> QED BY <1>1, <1>2 DEF K!OuterPart, K!Block, K!States, X

(* A block more is a sequence of blocks one longer. *)
LEMMA AppendBlock ==
    ASSUME NEW S, NEW blocks \in Seq(S), NEW block \in S
    PROVE  /\ Append(blocks, block) \in Seq(S)
           /\ Len(Append(blocks, block)) = Len(blocks) + 1
           /\ Len(blocks) \in Nat
           /\ Append(blocks, block) # <<>>
OBVIOUS

(* The squeezing of a thread keeps the invariant. *)
LEMMA SqueezeStep ==
    ASSUME KInv, NEW b \in Sessions, Squeeze(b)
    PROVE  /\ TypeOK' /\ Computed(b)'
           /\ SpongeState(b)' = SpongeState(b)
           /\ squeezed'[b] = Append(squeezed[b], K!OuterPart(SpongeState(b)))
           /\ rnd'[b] = IF Len(squeezed'[b]) < wanted THEN 24 - NumRounds ELSE 24
<1>0. TypeOK /\ Computed(b)
  BY DEF KInv
<1>10. /\ phase \in [Sessions -> Phases] /\ rnd \in [Sessions -> 24-NumRounds..24]
       /\ squeezed \in [Sessions -> Seq(K!Block)]
       /\ \A a \in Sessions : Len(squeezed[a]) <= wanted
       /\ wanted \in Nat
  <2>1. wanted \in 1..MaxWanted
    BY <1>0 DEF TypeOK
  <2>2. wanted \in Nat
    BY <2>1
  <2> QED BY <1>0, <2>2 DEF TypeOK
<1>1. /\ kernel = "final" /\ phase[b] = "idle" /\ rnd[b] = 24
      /\ blk[b] = Len(input[b]) /\ Len(squeezed[b]) < wanted
      /\ squeezed' = [squeezed EXCEPT
                        ![b] = Append(squeezed[b], [i \in 0..RateLanes-1 |-> s[b][i]])]
      /\ UNCHANGED <<kernel, input, wanted, field, s, c, d, t, blk>>
  BY <1>0 DEF Squeeze, Computed
<1>2. [i \in 0..RateLanes-1 |-> s[b][i]] = K!OuterPart(Held(b))
  <2>1. Held(b) = [p \in X \X X |-> s[b][p[1] + 5 * p[2]]]
    BY <1>0, <1>1, HeldType
  <2>2. ASSUME NEW i \in 0..RateLanes-1
        PROVE  Held(b)[<<i % 5, i \div 5>>] = s[b][i]
    <3>1. i \in 0..24
      BY Parameters
    <3>2. <<i % 5, i \div 5>> \in X \X X /\ (i % 5) + 5 * (i \div 5) = i
      BY <3>1 DEF X, K!X
    <3> QED BY <2>1, <3>2
  <2> QED BY <2>2 DEF K!OuterPart
<1>3. /\ squeezed'[b] = Append(squeezed[b], K!OuterPart(Held(b)))
      /\ squeezed' \in [Sessions -> Seq(K!Block)]
      /\ \A a \in Sessions : Len(squeezed'[a]) <= wanted
      /\ squeezed'[b] # <<>>
  <2>1. K!OuterPart(Held(b)) \in K!Block
    BY <1>0, HeldType, OuterType
  <2>2. squeezed[b] \in Seq(K!Block)
    BY <1>10
  <2>3. /\ Append(squeezed[b], K!OuterPart(Held(b))) \in Seq(K!Block)
        /\ Len(Append(squeezed[b], K!OuterPart(Held(b)))) = Len(squeezed[b]) + 1
        /\ Len(squeezed[b]) \in Nat
        /\ Append(squeezed[b], K!OuterPart(Held(b))) # <<>>
    BY <2>1, <2>2, AppendBlock
  <2>4. Len(squeezed[b]) + 1 <= wanted
    BY <1>1, <1>10, <2>3
  <2> QED BY <1>1, <1>2, <1>10, <2>3, <2>4
<1>4. /\ phase'[b] = IF Len(squeezed'[b]) < wanted THEN "columns" ELSE "idle"
      /\ rnd'[b] = IF Len(squeezed'[b]) < wanted THEN 24 - NumRounds ELSE 24
      /\ phase' \in [Sessions -> Phases] /\ rnd' \in [Sessions -> 24-NumRounds..24]
  <2>1. 24 - NumRounds \in 24-NumRounds..24
    BY Parameters
  <2>2. CASE Len(squeezed'[b]) < wanted
    BY <1>10, <2>1, <2>2 DEF Squeeze, Phases
  <2>3. CASE ~(Len(squeezed'[b]) < wanted)
    BY <1>1, <1>10, <2>3 DEF Squeeze
  <2> QED BY <2>2, <2>3
<1>5. TypeOK'
  BY <1>0, <1>1, <1>3, <1>4 DEF TypeOK
<1>6. Computed(b)'
  <2>1. 24 - NumRounds # 24
    BY Parameters
  <2> QED BY <1>1, <1>4, <2>1 DEF Computed
<1>7. Held(b)' = Held(b)
  BY <1>1 DEF Held, Lane
<1>8. SpongeState(b) = Held(b) /\ SpongeState(b)' = Held(b)'
  BY <1>1, <1>4 DEF SpongeState
<1> QED BY <1>3, <1>4, <1>5, <1>6, <1>7, <1>8

-----------------------------------------------------------------------------
(* The steps of the host, for all threads at once.                         *)

(* The host's absorbing and launch for all threads keep the invariant. *)
LEMMA HostAbsorbStep ==
    ASSUME KInv, HostAbsorb
    PROVE  /\ TypeOK'
           /\ \A b \in Sessions :
                 Computed(b)' /\ SpongeState(b)' = K!XorBlock(SpongeState(b), Block(b))
<1>0. TypeOK /\ \A b \in Sessions : Computed(b)
  BY DEF KInv
<1>1. /\ kernel = "batch"
      /\ \A b \in Sessions : phase[b] = "idle" /\ blk[b] < Len(input[b])
      /\ field' = [b \in Sessions |-> Absorbed(field[b], Block(b))]
      /\ phase' = [b \in Sessions |-> "columns"]
      /\ rnd' = [b \in Sessions |-> 24 - NumRounds]
      /\ blk' = [b \in Sessions |-> blk[b] + 1]
      /\ UNCHANGED <<kernel, input, wanted, s, c, d, t, squeezed>>
  BY DEF HostAbsorb, Block
<1>2. ASSUME NEW b \in Sessions
      PROVE  /\ Block(b) \in K!Block /\ blk[b] + 1 \in Nat /\ blk[b] + 1 <= Len(input[b])
             /\ blk[b] # Len(input[b])
  <2> DEFINE n == Len(input[b])
  <2>1. n \in Nat /\ blk[b] \in Nat /\ blk[b] < n
    BY <1>0, <1>1, InputType DEF TypeOK
  <2> HIDE DEF n
  <2>2. blk[b] + 1 \in 1..n /\ blk[b] # n
    BY <2>1
  <2>3. Block(b) \in K!Block
    BY <1>0, <2>2, InputType DEF Block, n
  <2> QED BY <2>1, <2>2, <2>3 DEF n
<1>3. ASSUME NEW b \in Sessions
      PROVE  /\ field'[b] = K!XorBlock(field[b], Block(b)) /\ field'[b] \in K!States
             /\ Held(b) = field[b]
             /\ Held(b)' = field'[b]
  <2>1. field[b] \in K!States /\ Held(b) = field[b]
    BY <1>0, <1>1, HeldType DEF TypeOK
  <2>2. field'[b] = K!XorBlock(field[b], Block(b)) /\ field'[b] \in K!States
    BY <1>1, <1>2, <2>1, AbsorbedIsXor
  <2>3. Held(b)' = [p \in X \X X |-> field'[b][<<p[1], p[2]>>]]
    BY <1>1 DEF Held, Lane
  <2>4. field'[b] = [p \in X \X X |-> field'[b][p]]
    BY <2>2 DEF K!States, X
  <2>5. \A p \in X \X X : <<p[1], p[2]>> = p
    OBVIOUS
  <2> QED BY <2>1, <2>2, <2>3, <2>4, <2>5
<1>4. TypeOK'
  <2>1. field' \in [Sessions -> K!States]
    BY <1>1, <1>3
  <2>2. rnd' \in [Sessions -> 24-NumRounds..24] /\ phase' \in [Sessions -> Phases]
    BY <1>1, Parameters DEF Phases
  <2>3. blk' \in [Sessions -> Nat] /\ \A b \in Sessions : blk'[b] <= Len(input[b])
    BY <1>1, <1>2
  <2> QED BY <1>0, <1>1, <2>1, <2>2, <2>3 DEF TypeOK
<1>5. ASSUME NEW b \in Sessions
      PROVE  Computed(b)' /\ SpongeState(b)' = K!XorBlock(SpongeState(b), Block(b))
  <2>1. phase[b] = "idle" /\ phase'[b] = "columns" /\ rnd'[b] = 24 - NumRounds
    BY <1>1
  <2>2. squeezed[b] = <<>> /\ squeezed' = squeezed
    BY <1>0, <1>1, <1>2 DEF Computed
  <2>3. Computed(b)'
    BY <2>1, <2>2, Parameters DEF Computed
  <2>4. SpongeState(b)' = Held(b)' /\ SpongeState(b) = Held(b)
    BY <2>1 DEF SpongeState
  <2> QED BY <1>3, <2>3, <2>4
<1> QED BY <1>4, <1>5

(* The host's reading of the digests keeps the invariant. *)
LEMMA HostDigestStep ==
    ASSUME KInv, HostDigest
    PROVE  /\ TypeOK'
           /\ \A b \in Sessions :
                 /\ Computed(b)' /\ SpongeState(b)' = SpongeState(b)
                 /\ rnd[b] = 24 /\ phase[b] # "iota" /\ blk[b] = Len(input[b])
                 /\ squeezed[b] = <<>>
                 /\ squeezed'[b] = Append(squeezed[b], K!OuterPart(SpongeState(b)))
                 /\ Len(squeezed'[b]) = 1 /\ wanted = 1
<1>0. TypeOK /\ OneDigest /\ \A b \in Sessions : Computed(b)
  BY DEF KInv
<1>1. /\ kernel # "final" /\ wanted = 1
      /\ squeezed' = [b \in Sessions |-> <<K!OuterPart(field[b])>>]
      /\ UNCHANGED <<kernel, input, wanted, field, s, c, d, t, phase, rnd, blk>>
  BY <1>0 DEF HostDigest, OneDigest
<1>2. ASSUME NEW b \in Sessions
      PROVE  /\ rnd[b] = 24 /\ phase[b] \in {"idle", "written"} /\ blk[b] = Len(input[b])
             /\ squeezed[b] = <<>> /\ field[b] = Held(b)
  <2>1. /\ phase[b] = (IF kernel = "batch" THEN "idle" ELSE "written")
        /\ blk[b] = Len(input[b]) /\ squeezed[b] = <<>>
    BY DEF HostDigest
  <2>2. rnd[b] = 24
    BY <1>0, <2>1 DEF Computed
  <2>3. field[b] = Held(b)
    BY <1>0, <2>1, HeldType DEF Computed
  <2> QED BY <2>1, <2>2, <2>3
<1>3. ASSUME NEW b \in Sessions
      PROVE  /\ squeezed'[b] \in Seq(K!Block) /\ Len(squeezed'[b]) = 1
             /\ squeezed'[b] = Append(<<>>, K!OuterPart(Held(b)))
  <2>1. K!OuterPart(Held(b)) \in K!Block
    BY <1>0, HeldType, OuterType
  <2>2. squeezed'[b] = <<K!OuterPart(Held(b))>>
    BY <1>1, <1>2
  <2> QED BY <2>1, <2>2
<1>4. TypeOK'
  <2>1. squeezed' \in [Sessions -> Seq(K!Block)]
    BY <1>1, <1>3
  <2>2. \A b \in Sessions : Len(squeezed'[b]) <= wanted
    BY <1>1, <1>3
  <2> QED BY <1>0, <1>1, <2>1, <2>2 DEF TypeOK
<1>5. ASSUME NEW b \in Sessions
      PROVE  Computed(b)' /\ SpongeState(b)' = Held(b) /\ SpongeState(b) = Held(b)
  <2>1. Held(b)' = Held(b)
    BY <1>1 DEF Held, Lane
  <2>2. Computed(b)'
    BY <1>0, <1>1, <1>2, <2>1 DEF Computed
  <2> QED BY <1>1, <1>2, <2>1, <2>2 DEF SpongeState
<1> QED BY <1>1, <1>2, <1>3, <1>4, <1>5

-----------------------------------------------------------------------------
(* The invariant is inductive.                                             *)

(* The invariant holds at first, for each of the three kernels. *)
LEMMA InitKInv == Init => KInv
<1> SUFFICES ASSUME Init PROVE KInv
  OBVIOUS
<1>1. /\ kernel \in {"batch", "leaf", "final"} /\ input \in [Sessions -> Inputs]
      /\ wanted \in 1..MaxWanted
      /\ field = [b \in Sessions |-> K!Zero]
      /\ s = [b \in Sessions |-> Flat(K!Zero)]
      /\ c = [b \in Sessions |-> [x \in X |-> {}]]
      /\ d = [b \in Sessions |-> [x \in X |-> {}]]
      /\ t = [b \in Sessions |-> K!Zero]
      /\ phase = [b \in Sessions |-> "idle"]
      /\ rnd = [b \in Sessions |-> 24]
      /\ blk = [b \in Sessions |-> 0]
      /\ squeezed = [b \in Sessions |-> <<>>]
  <2>1. 1 \in 1..MaxWanted
    BY Parameters
  <2> QED BY <2>1 DEF Init
<1>2. /\ field \in [Sessions -> K!States] /\ s \in [Sessions -> [0..24 -> K!Lanes]]
      /\ t \in [Sessions -> K!States]
  BY <1>1, ZeroType, FlatType
<1>3. c \in [Sessions -> [X -> K!Lanes]] /\ d \in [Sessions -> [X -> K!Lanes]]
  BY <1>1 DEF K!Lanes
<1>4. phase \in [Sessions -> Phases] /\ rnd \in [Sessions -> 24-NumRounds..24]
  BY <1>1, Parameters DEF Phases
<1>5. /\ blk \in [Sessions -> Nat] /\ squeezed \in [Sessions -> Seq(K!Block)]
      /\ \A b \in Sessions : blk[b] <= Len(input[b]) /\ Len(squeezed[b]) <= wanted
  <2>1. ASSUME NEW b \in Sessions PROVE Len(input[b]) \in Nat
    <3>1. input[b] \in Seq(K!Block)
      BY <1>1, Parameters
    <3> QED BY <3>1
  <2>2. wanted \in Nat
    BY <1>1
  <2> QED BY <1>1, <2>1, <2>2
<1>6. TypeOK
  BY <1>1, <1>2, <1>3, <1>4, <1>5 DEF TypeOK
<1>7. OneDigest
  BY DEF Init, OneDigest
<1>8. \A b \in Sessions : Computed(b)
  BY <1>1 DEF Computed
<1> QED BY <1>6, <1>7, <1>8 DEF KInv

(* A step that keeps the types and its own thread's part keeps the invariant. *)
LEMMA OneThread ==
    ASSUME KInv, NEW b \in Sessions, ThreadStep(b), TypeOK', Computed(b)'
    PROVE  KInv'
<1>1. TypeOK /\ OneDigest /\ \A a \in Sessions : Computed(a)
  BY DEF KInv
<1>2. UNCHANGED <<kernel, input, wanted>>
  BY DEF ThreadStep, ThreadAbsorb, Columns, ThetaLanes, RhoPiLanes, ChiLanes,
         IotaLane, WriteBack, Squeeze
<1>3. \A a \in Sessions \ {b} : Computed(a)'
  BY <1>1, OthersUntouched, ComputedStays
<1> QED BY <1>1, <1>2, <1>3 DEF KInv, OneDigest

(* No step of the kernels leaves the invariant. *)
LEMMA KInvInductive == KInv /\ [Next]_vars => KInv'
<1> SUFFICES ASSUME KInv, [Next]_vars PROVE KInv'
  OBVIOUS
<1>1. CASE HostAbsorb
  <2>1. OneDigest'
    BY <1>1 DEF HostAbsorb, KInv, OneDigest
  <2> QED BY <1>1, <2>1, HostAbsorbStep DEF KInv
<1>2. CASE HostDigest
  <2>1. OneDigest'
    BY <1>2 DEF HostDigest, KInv, OneDigest
  <2> QED BY <1>2, <2>1, HostDigestStep DEF KInv
<1>3. ASSUME NEW b \in Sessions, ThreadStep(b) PROVE KInv'
  <2>1. TypeOK' /\ Computed(b)'
    BY <1>3, ThreadAbsorbStep, ColumnsStep, ThetaStep, RhoPiStep, ChiStep, IotaStep,
       WriteBackStep, SqueezeStep DEF ThreadStep
  <2> QED BY <1>3, <2>1, OneThread
<1>4. CASE UNCHANGED vars
  <2>1. TypeOK' /\ OneDigest'
    BY <1>4 DEF vars, KInv, TypeOK, OneDigest
  <2>2. \A b \in Sessions : Computed(b)'
    BY <1>4, ComputedStays DEF vars, KInv
  <2> QED BY <2>1, <2>2 DEF KInv
<1> QED BY <1>1, <1>2, <1>3, <1>4 DEF Next, ThreadStep

(* Whichever kernel runs and however its threads are interleaved, states   *)
(* stay states: a lane never has a bit beyond its width, and no thread     *)
(* absorbs or squeezes more than it was asked to.                          *)
THEOREM KernelsTypeCorrect == Spec => []TypeOK
<1>1. KInv => TypeOK
  BY DEF KInv
<1> QED BY <1>1, InitKInv, KInvInductive, PTL DEF Spec

-----------------------------------------------------------------------------
(* The refinement.                                                         *)

(* The reference of one thread and the operators above are the same. *)
LEMMA OneSponge ==
    ASSUME NEW b, NEW st
    PROVE  /\ \A block : Sponge(b)!XorBlock(st, block) = K!XorBlock(st, block)
           /\ \A r : Sponge(b)!RoundOf(st, r) = K!RoundOf(st, r)
           /\ Sponge(b)!OuterPart(st) = K!OuterPart(st)
           /\ Sponge(b)!Zero = K!Zero
<1>1. \A A, B : Sponge(b)!SymDiff(A, B) = K!SymDiff(A, B)
  BY DEF Sponge!SymDiff, K!SymDiff
<1>2. Sponge(b)!X = K!X /\ Sponge(b)!Zero = K!Zero
  BY DEF Sponge!X, K!X, Sponge!Zero, K!Zero
<1>3. \A block : Sponge(b)!XorBlock(st, block) = K!XorBlock(st, block)
  BY <1>1, <1>2 DEF Sponge!XorBlock, K!XorBlock, Sponge!Position, K!Position
<1>4. \A q : Sponge(b)!Theta(q) = K!Theta(q)
  <2>1. \A q, x : Sponge(b)!Column(q, x) = K!Column(q, x)
    <3>1. \A T : Sponge(b)!Cardinality(T) = K!Cardinality(T)
      BY DEF Sponge!Cardinality, K!Cardinality
    <3> QED BY <1>2, <3>1 DEF Sponge!Column, K!Column, Sponge!Bits, K!Bits
  <2>2. \A columns, x : Sponge(b)!ColumnEffect(columns, x) = K!ColumnEffect(columns, x)
    BY <1>1 DEF Sponge!ColumnEffect, K!ColumnEffect, Sponge!Rol, K!Rol
  <2> QED BY <1>1, <1>2, <2>1, <2>2 DEF Sponge!Theta, K!Theta
<1>5. \A q : Sponge(b)!RhoPi(q) = K!RhoPi(q)
  BY <1>2 DEF Sponge!RhoPi, K!RhoPi, Sponge!Moved, K!Moved, Sponge!Source, K!Source,
     Sponge!Rol, K!Rol, Sponge!Offset, K!Offset
<1>6. \A q : Sponge(b)!Chi(q) = K!Chi(q)
  BY <1>1, <1>2 DEF Sponge!Chi, K!Chi, Sponge!ChiLane, K!ChiLane
<1>7. \A q, r : Sponge(b)!Iota(q, r) = K!Iota(q, r)
  BY <1>1 DEF Sponge!Iota, K!Iota, Sponge!RoundConstantOf, K!RoundConstantOf,
     Sponge!RC, K!RC, Sponge!Bits, K!Bits
<1>8. \A r : Sponge(b)!RoundOf(st, r) = K!RoundOf(st, r)
  BY <1>4, <1>5, <1>6, <1>7 DEF Sponge!RoundOf, K!RoundOf
<1>9. Sponge(b)!OuterPart(st) = K!OuterPart(st)
  BY DEF Sponge!OuterPart, K!OuterPart
<1> QED BY <1>2, <1>3, <1>8, <1>9

(* Each thread starts as the reference does. *)
LEMMA InitMaps == Init => \A b \in Sessions : Sponge(b)!Init
<1> SUFFICES ASSUME Init, NEW b \in Sessions PROVE Sponge(b)!Init
  OBVIOUS
<1>1. KInv
  BY InitKInv
<1>2. /\ phase[b] = "idle" /\ rnd[b] = 24 /\ blk[b] = 0 /\ squeezed[b] = <<>>
      /\ field[b] = K!Zero /\ s[b] = Flat(K!Zero)
  BY DEF Init
<1>3. SpongeState(b) = K!Zero
  <2>1. SpongeState(b) = Held(b)
    BY <1>2, SpongeStateIs
  <2>2. \A p \in X \X X : s[b][p[1] + 5 * p[2]] = K!Zero[p]
    BY <1>2, FlatType, ZeroType
  <2>3. K!Zero = [p \in X \X X |-> K!Zero[p]]
    BY ZeroType DEF K!States, X
  <2> QED BY <1>1, <1>2, <2>1, <2>2, <2>3, HeldType DEF KInv
<1>4. input[b] \in Inputs /\ wanted \in 1..MaxWanted
  BY <1>1 DEF KInv, TypeOK
<1> QED BY <1>2, <1>3, <1>4, OneSponge DEF Sponge!Init

(* What thread b does is a step of its sponge, or none: the loops of a     *)
(* round are one round, at the moment chi overwrites the lanes.            *)
LEMMA ThreadMaps ==
    ASSUME KInv, NEW b \in Sessions, ThreadStep(b)
    PROVE  [Sponge(b)!Next]_(Sponge(b)!vars)
<1>1. /\ rnd[b] \in 24-NumRounds..24 /\ NumRounds \in 1..24
      /\ phase[b] \in {"idle", "written"} <=> rnd[b] = 24
      /\ phase \in [Sessions -> Phases] /\ rnd \in [Sessions -> 24-NumRounds..24]
      /\ blk \in [Sessions -> Nat]
  BY Parameters DEF KInv, TypeOK, Computed
<1>2. CASE ThreadAbsorb(b)
  <2>1. /\ phase[b] = "idle" /\ blk[b] < Len(input[b])
        /\ phase' = [phase EXCEPT ![b] = "columns"]
        /\ rnd' = [rnd EXCEPT ![b] = 24 - NumRounds]
        /\ blk' = [blk EXCEPT ![b] = @ + 1]
        /\ UNCHANGED <<input, wanted, squeezed>>
    BY <1>2 DEF ThreadAbsorb
  <2>2. SpongeState(b)' = Sponge(b)!XorBlock(SpongeState(b), input[b][blk[b] + 1])
    BY <1>2, ThreadAbsorbStep, OneSponge DEF Block
  <2>3. Sponge(b)!Absorb
    BY <1>1, <2>1, <2>2 DEF Sponge!Absorb
  <2> QED BY <2>3 DEF Sponge!Next
<1>3. CASE Columns(b)
  <2>1. /\ phase[b] = "columns" /\ phase' = [phase EXCEPT ![b] = "theta"]
        /\ UNCHANGED <<input, wanted, rnd, blk, squeezed>>
    BY <1>3 DEF Columns
  <2>2. SpongeState(b)' = SpongeState(b)
    BY <1>3, ColumnsStep
  <2> QED BY <1>1, <2>1, <2>2 DEF Sponge!vars
<1>4. CASE ThetaLanes(b)
  <2>1. /\ phase[b] = "theta" /\ phase' = [phase EXCEPT ![b] = "rho"]
        /\ UNCHANGED <<input, wanted, rnd, blk, squeezed>>
    BY <1>4 DEF ThetaLanes
  <2>2. SpongeState(b)' = SpongeState(b)
    BY <1>4, ThetaStep
  <2> QED BY <1>1, <2>1, <2>2 DEF Sponge!vars
<1>5. CASE RhoPiLanes(b)
  <2>1. /\ phase[b] = "rho" /\ phase' = [phase EXCEPT ![b] = "chi"]
        /\ UNCHANGED <<input, wanted, rnd, blk, squeezed>>
    BY <1>5 DEF RhoPiLanes
  <2>2. SpongeState(b)' = SpongeState(b)
    BY <1>5, RhoPiStep
  <2> QED BY <1>1, <2>1, <2>2 DEF Sponge!vars
<1>6. CASE ChiLanes(b)
  <2>1. /\ phase[b] = "chi" /\ phase' = [phase EXCEPT ![b] = "iota"]
        /\ UNCHANGED <<input, wanted, rnd, blk, squeezed>>
    BY <1>6 DEF ChiLanes
  <2>2. SpongeState(b)' = Sponge(b)!RoundOf(SpongeState(b), rnd[b])
    BY <1>6, ChiStep, OneSponge
  <2>3. Sponge(b)!Round
    BY <1>1, <2>1, <2>2 DEF Sponge!Round
  <2> QED BY <2>3 DEF Sponge!Next
<1>7. CASE IotaLane(b)
  <2>1. phase[b] = "iota" /\ UNCHANGED <<input, wanted, blk, squeezed>>
    BY <1>7 DEF IotaLane
  <2>2. /\ SpongeState(b)' = SpongeState(b)
        /\ rnd'[b] = rnd[b] + 1 /\ phase'[b] # "iota"
    BY <1>7, IotaStep
  <2> QED BY <2>1, <2>2 DEF Sponge!vars
<1>8. CASE WriteBack(b)
  <2>1. /\ phase[b] = "idle" /\ phase' = [phase EXCEPT ![b] = "written"]
        /\ UNCHANGED <<input, wanted, rnd, blk, squeezed>>
    BY <1>8 DEF WriteBack
  <2>2. SpongeState(b)' = SpongeState(b)
    BY <1>8, WriteBackStep
  <2> QED BY <1>1, <2>1, <2>2 DEF Sponge!vars
<1>9. CASE Squeeze(b)
  <2>1. /\ phase[b] = "idle" /\ blk[b] = Len(input[b]) /\ Len(squeezed[b]) < wanted
        /\ UNCHANGED <<input, wanted, blk>>
    BY <1>9 DEF Squeeze
  <2>2. /\ SpongeState(b)' = SpongeState(b)
        /\ squeezed'[b] = Append(squeezed[b], Sponge(b)!OuterPart(SpongeState(b)))
        /\ rnd'[b] = IF Len(squeezed'[b]) < wanted THEN 24 - NumRounds ELSE 24
    BY <1>9, SqueezeStep, OneSponge
  <2>3. phase'[b] # "iota"
    <3>1. phase'[b] \in {"columns", "idle"}
      BY <1>1, <1>9, <2>1 DEF Squeeze
    <3> QED BY <3>1
  <2>4. Sponge(b)!Squeeze
    BY <1>1, <2>1, <2>2, <2>3 DEF Sponge!Squeeze
  <2> QED BY <2>4 DEF Sponge!Next
<1> QED BY <1>2, <1>3, <1>4, <1>5, <1>6, <1>7, <1>8, <1>9 DEF ThreadStep

(* A step of the kernels is, for each thread, one of the reference or none. *)
LEMMA StepMaps ==
    KInv /\ [Next]_vars => \A b \in Sessions : [Sponge(b)!Next]_(Sponge(b)!vars)
<1> SUFFICES ASSUME KInv, [Next]_vars, NEW b \in Sessions
             PROVE  [Sponge(b)!Next]_(Sponge(b)!vars)
  OBVIOUS
<1>0. TypeOK /\ Computed(b)
  BY DEF KInv
<1>1. CASE HostAbsorb
  <2>1. /\ phase[b] = "idle" /\ blk[b] < Len(input[b])
        /\ phase'[b] = "columns" /\ rnd'[b] = 24 - NumRounds /\ blk'[b] = blk[b] + 1
        /\ UNCHANGED <<input, wanted, squeezed>>
    BY <1>1 DEF HostAbsorb
  <2>2. SpongeState(b)' = Sponge(b)!XorBlock(SpongeState(b), input[b][blk[b] + 1])
    BY <1>1, HostAbsorbStep, OneSponge DEF Block
  <2>3. Sponge(b)!Absorb
    BY <1>0, <2>1, <2>2 DEF Sponge!Absorb, Computed
  <2> QED BY <2>3 DEF Sponge!Next
<1>2. CASE HostDigest
  <2>1. UNCHANGED <<input, wanted, phase, rnd, blk>>
    BY <1>2 DEF HostDigest
  <2>2. /\ SpongeState(b)' = SpongeState(b)
        /\ rnd[b] = 24 /\ phase[b] # "iota" /\ blk[b] = Len(input[b])
        /\ squeezed[b] = <<>> /\ Len(squeezed'[b]) = 1 /\ wanted = 1
        /\ squeezed'[b] = Append(squeezed[b], Sponge(b)!OuterPart(SpongeState(b)))
    BY <1>2, HostDigestStep, OneSponge
  <2>3. Sponge(b)!Squeeze
    BY <2>1, <2>2 DEF Sponge!Squeeze
  <2> QED BY <2>3 DEF Sponge!Next
<1>3. ASSUME NEW a \in Sessions, ThreadStep(a)
      PROVE  [Sponge(b)!Next]_(Sponge(b)!vars)
  <2>1. CASE a = b
    BY <1>3, <2>1, ThreadMaps
  <2>2. CASE a # b
    <3>1. /\ field'[b] = field[b] /\ s'[b] = s[b] /\ d'[b] = d[b] /\ t'[b] = t[b]
          /\ phase'[b] = phase[b] /\ rnd'[b] = rnd[b]
          /\ blk'[b] = blk[b] /\ squeezed'[b] = squeezed[b]
          /\ UNCHANGED <<kernel, input, wanted>>
      BY <1>0, <1>3, <2>2, OthersUntouched
    <3>2. SpongeState(b)' = SpongeState(b)
      BY <1>0, <3>1, ComputedStays DEF SpongeState
    <3> QED BY <3>1, <3>2 DEF Sponge!vars
  <2> QED BY <2>1, <2>2
<1>4. CASE UNCHANGED vars
  <2>1. SpongeState(b)' = SpongeState(b)
    BY <1>0, <1>4, ComputedStays DEF SpongeState, vars
  <2> QED BY <1>4, <2>1 DEF Sponge!vars, vars
<1> QED BY <1>1, <1>2, <1>3, <1>4 DEF Next, ThreadStep

(* Each thread of each kernel goes through the sponge of                   *)
(* keccak_reference.py on its own input, for every width of the lanes, any *)
(* number of rounds and threads, and however their loops are interleaved.  *)
THEOREM KernelsImplementSponge == Spec => ImplementsSponge
<1>1. KInv /\ [Next]_vars =>
        [\A b \in Sessions : [Sponge(b)!Next]_(Sponge(b)!vars)]_vars
  BY StepMaps
<1> QED BY <1>1, InitKInv, InitMaps, KInvInductive, PTL DEF Spec, ImplementsSponge
=============================================================================
