------------------------ MODULE LatticeKernelsProofs ------------------------
(***************************************************************************)
(* What LatticeKernels promises, for every size of the lattice, number of  *)
(* rounds, and set of sessions in a launch.                                *)
(***************************************************************************)
EXTENDS LatticeKernels, WellFoundedInduction, TLAPS

-----------------------------------------------------------------------------
(* The public round function.                                              *)

LEMMA XorIsSymDiff == \A A, B : L!SymDiff(A, B) = SymDiff(A, B)
BY DEF L!SymDiff, SymDiff

LEMMA SymDiffType ==
    ASSUME NEW S, NEW A \in SUBSET S, NEW B \in SUBSET S
    PROVE  SymDiff(A, B) \in SUBSET S
BY DEF SymDiff

(* XOR with the same half twice is no XOR. *)
LEMMA SymDiffCancels ==
    ASSUME NEW A, NEW B
    PROVE  SymDiff(SymDiff(A, B), B) = A
BY DEF SymDiff

LEMMA SymDiffInjective ==
    ASSUME NEW A, NEW B, NEW F, SymDiff(A, F) = SymDiff(B, F)
    PROVE  A = B
BY SymDiffCancels

LEMMA ThetaType == ASSUME NEW half PROVE L!Theta(half) \in L!HalfLattices
BY DEF L!Theta, L!HalfLattices

LEMMA CubicType == ASSUME NEW half PROVE L!ChiCubic(half) \in L!HalfLattices
BY DEF L!ChiCubic, L!HalfLattices

(* A round can be undone, whatever F is. *)
LEMMA RoundInverts ==
    ASSUME NEW rl, NEW g, NEW r, NEW A, NEW B
    PROVE  L!UndoRound(rl, L!RoundOf(rl, <<A, B>>, g, r), g, r) = <<A, B>>
<1> DEFINE F == L!FeistelF(rl, B, g, r)
<1>1. L!RoundOf(rl, <<A, B>>, g, r) = <<B, SymDiff(A, F)>>
  BY XorIsSymDiff DEF L!RoundOf
<1>2. L!UndoRound(rl, <<B, SymDiff(A, F)>>, g, r) = <<SymDiff(SymDiff(A, F), F), B>>
  BY XorIsSymDiff DEF L!UndoRound
<1> QED BY <1>1, <1>2, SymDiffCancels

(* Induction up to a bound, over a set. *)
LEMMA CountUp ==
    ASSUME NEW n \in Nat, NEW T, 0 \in T,
           \A k \in 0..n-1 : k \in T => k + 1 \in T
    PROVE  \A k \in 0..n : k \in T
<1> DEFINE Out == {k \in Nat : k <= n /\ k \notin T}
<1>1. SUFFICES ASSUME Out # {} PROVE FALSE
  OBVIOUS
<1>2. PICK k \in Out : \A j \in Out : ~ (<<j, k>> \in OpToRel(<, Nat))
  <2> HIDE DEF Out
  <2>1. Out \subseteq Nat
    BY DEF Out
  <2> QED BY <1>1, <2>1, NatLessThanWellFounded, WFMin
<1>3. k # 0 /\ k - 1 \in 0..n-1
  OBVIOUS
<1>4. k - 1 \notin Out
  <2>1. <<k - 1, k>> \in OpToRel(<, Nat)
    BY <1>3 DEF OpToRel
  <2> QED BY <1>2, <2>1
<1> QED BY <1>3, <1>4

(* The loop of feistel_step is well defined. *)
LEMMA StepLoop ==
    ASSUME NEW rl, NEW grid, NEW g, Rounds \in Nat
    PROVE  \E loop : loop = [r \in 0..Rounds |->
               IF r = 0 THEN grid ELSE L!RoundOf(rl, loop[r-1], g, r-1)]
<1> DEFINE Loop(f, n) ==
              f = [r \in 0..n |-> IF r = 0 THEN grid ELSE L!RoundOf(rl, f[r-1], g, r-1)]
           T == {n \in 0..Rounds : \E f : Loop(f, n)}
<1>1. 0 \in T
  <2>1. Loop([r \in 0..0 |-> grid], 0)
    OBVIOUS
  <2>2. \E f : Loop(f, 0)
    <3> HIDE DEF Loop
    <3> QED BY <2>1
  <2> HIDE DEF Loop
  <2> QED BY <2>2
<1>2. ASSUME NEW n \in 0..Rounds-1, n \in T PROVE n + 1 \in T
  <2>1. PICK f : Loop(f, n)
    BY <1>2
  <2> DEFINE h == [r \in 0..n+1 |-> IF r = n + 1 THEN L!RoundOf(rl, f[n], g, n) ELSE f[r]]
  <2>2. \A r \in 0..n : h[r] = f[r]
    OBVIOUS
  <2>3. ASSUME NEW r \in 0..n+1
        PROVE  h[r] = IF r = 0 THEN grid ELSE L!RoundOf(rl, h[r-1], g, r-1)
    <3>1. CASE r = n + 1
      <4>1. h[r] = L!RoundOf(rl, f[n], g, n) /\ h[r-1] = f[n] /\ r - 1 = n /\ r # 0
        BY <3>1, <2>2
      <4> QED BY <4>1
    <3>2. CASE r # n + 1
      <4>1. r \in 0..n /\ h[r] = f[r]
        BY <3>2, <2>2
      <4>2. f[r] = IF r = 0 THEN grid ELSE L!RoundOf(rl, f[r-1], g, r-1)
        BY <2>1, <4>1
      <4>3. r # 0 => h[r-1] = f[r-1]
        BY <2>2, <4>1
      <4> HIDE DEF h, Loop
      <4> QED BY <4>1, <4>2, <4>3
    <3> QED BY <3>1, <3>2
  <2>4. Loop(h, n + 1)
    <3>1. h = [r \in 0..n+1 |-> h[r]]
      OBVIOUS
    <3> HIDE DEF h
    <3> QED BY <2>3, <3>1
  <2>5. \E k : Loop(k, n + 1)
    <3> HIDE DEF Loop, h
    <3> QED BY <2>4
  <2> HIDE DEF Loop
  <2> QED BY <2>5
<1>3. Rounds \in T
  <2> HIDE DEF T
  <2> QED BY <1>1, <1>2, CountUp
<1> QED BY <1>3

(* The loop of feistel_step_inverse is well defined. *)
LEMMA UndoLoop ==
    ASSUME NEW rl, NEW grid, NEW g, Rounds \in Nat
    PROVE  \E loop : loop = [r \in 0..Rounds |->
               IF r = Rounds THEN grid ELSE L!UndoRound(rl, loop[r+1], g, r)]
<1> DEFINE Loop(f, n) ==
              f = [r \in Rounds-n..Rounds |->
                     IF r = Rounds THEN grid ELSE L!UndoRound(rl, f[r+1], g, r)]
           T == {n \in 0..Rounds : \E f : Loop(f, n)}
<1>1. 0 \in T
  <2>1. Loop([r \in Rounds..Rounds |-> grid], 0)
    OBVIOUS
  <2>2. \E f : Loop(f, 0)
    <3> HIDE DEF Loop
    <3> QED BY <2>1
  <2> HIDE DEF Loop
  <2> QED BY <2>2
<1>2. ASSUME NEW n \in 0..Rounds-1, n \in T PROVE n + 1 \in T
  <2>1. PICK f : Loop(f, n)
    BY <1>2
  <2> DEFINE m == Rounds - (n + 1)
             h == [r \in m..Rounds |-> IF r = m THEN L!UndoRound(rl, f[m+1], g, m) ELSE f[r]]
  <2>0. m + 1 = Rounds - n /\ m \in Nat /\ m # Rounds /\ m <= Rounds
    OBVIOUS
  <2>2. \A r \in m+1..Rounds : h[r] = f[r]
    BY <2>0
  <2>3. ASSUME NEW r \in m..Rounds
        PROVE  h[r] = IF r = Rounds THEN grid ELSE L!UndoRound(rl, h[r+1], g, r)
    <3>1. CASE r = m
      <4>1. h[r] = L!UndoRound(rl, f[m+1], g, m) /\ h[r+1] = f[m+1] /\ r # Rounds
        BY <3>1, <2>0, <2>2
      <4> QED BY <3>1, <4>1
    <3>2. CASE r # m
      <4>1. r \in m+1..Rounds /\ h[r] = f[r]
        BY <3>2, <2>0, <2>2
      <4>2. f[r] = IF r = Rounds THEN grid ELSE L!UndoRound(rl, f[r+1], g, r)
        BY <2>0, <2>1, <4>1
      <4>3. r # Rounds => h[r+1] = f[r+1]
        BY <2>0, <2>2, <4>1
      <4> HIDE DEF h, Loop
      <4> QED BY <4>1, <4>2, <4>3
    <3> QED BY <3>1, <3>2
  <2>4. Loop(h, n + 1)
    <3>1. h = [r \in m..Rounds |-> h[r]]
      OBVIOUS
    <3> HIDE DEF h
    <3> QED BY <2>3, <3>1
  <2>5. \E k : Loop(k, n + 1)
    <3> HIDE DEF Loop, h
    <3> QED BY <2>4
  <2> HIDE DEF Loop
  <2> QED BY <2>5
<1>3. Rounds \in T
  <2> HIDE DEF T
  <2> QED BY <1>1, <1>2, CountUp
<1> QED BY <1>3

(* The inverse takes the rounds back one by one, the last one first. *)
LEMMA StepInverts ==
    ASSUME NEW rl, NEW A, NEW B, NEW g, Rounds \in Nat
    PROVE  L!UndoStep(rl, L!StepOf(rl, <<A, B>>, g), g) = <<A, B>>
<1> DEFINE start == <<A, B>>
           end == L!StepOf(rl, start, g)
           there[r \in 0..Rounds] ==
              IF r = 0 THEN start ELSE L!RoundOf(rl, there[r-1], g, r-1)
           back[r \in 0..Rounds] ==
              IF r = Rounds THEN end ELSE L!UndoRound(rl, back[r+1], g, r)
<1>1. there = [r \in 0..Rounds |->
                IF r = 0 THEN start ELSE L!RoundOf(rl, there[r-1], g, r-1)]
  <2> HIDE DEF start
  <2> QED BY StepLoop, SMTT(60)
<1>2. back = [r \in 0..Rounds |->
                IF r = Rounds THEN end ELSE L!UndoRound(rl, back[r+1], g, r)]
  <2> HIDE DEF end
  <2> QED BY UndoLoop, SMTT(60)
<1>3. end = there[Rounds]
  BY DEF L!StepOf
<1>4. L!UndoStep(rl, end, g) = back[0]
  BY DEF L!UndoStep
<1> HIDE DEF end, there, back
<1> DEFINE T == {n \in 0..Rounds : back[Rounds - n] = there[Rounds - n]}
<1>5. 0 \in T
  <2>1. back[Rounds] = end
    BY <1>2
  <2> QED BY <1>3, <2>1
<1>6. ASSUME NEW n \in 0..Rounds-1, n \in T PROVE n + 1 \in T
  <2> DEFINE r == Rounds - (n + 1)
  <2>1. r \in 0..Rounds /\ r + 1 \in 0..Rounds /\ r + 1 = Rounds - n /\ r # Rounds
        /\ r + 1 # 0 /\ (r + 1) - 1 = r
    OBVIOUS
  <2> HIDE DEF r
  <2>2. back[r + 1] = there[r + 1]
    BY <1>6, <2>1
  <2>3. there[r + 1] = L!RoundOf(rl, there[r], g, r)
    BY <1>1, <2>1
  <2>4. back[r] = L!UndoRound(rl, back[r + 1], g, r)
    BY <1>2, <2>1
  <2>5. PICK a, b : there[r] = <<a, b>>
    <3>1. CASE r = 0
      BY <1>1, <2>1, <3>1
    <3>2. CASE r # 0
      <4>1. there[r] = L!RoundOf(rl, there[r-1], g, r-1)
        BY <1>1, <2>1, <3>2
      <4> QED BY <4>1 DEF L!RoundOf
    <3> QED BY <3>1, <3>2
  <2>6. back[r] = there[r]
    BY <2>2, <2>3, <2>4, <2>5, RoundInverts
  <2> QED BY <2>1, <2>6 DEF r
<1>7. Rounds \in T
  <2> HIDE DEF T
  <2> QED BY <1>5, <1>6, CountUp
<1>8. there[0] = <<A, B>>
  BY <1>1
<1>9. back[0] = there[0]
  <2>1. Rounds - Rounds = 0
    OBVIOUS
  <2> QED BY <1>7, <2>1
<1> QED BY <1>4, <1>8, <1>9 DEF end

(* The instance for one session and the one for the operators agree. *)
LEMMA OneLattice ==
    ASSUME NEW o, NEW s
    PROVE  /\ Lattice(o, s)!RoundOf("cubic", Grid(o, s), generation[o], roundIndex[o])
                = L!RoundOf("cubic", Grid(o, s), generation[o], roundIndex[o])
           /\ \A mask : Lattice(o, s)!Masked(Grid(o, s), mask) = L!Masked(Grid(o, s), mask)
           /\ Lattice(o, s)!NoMask = L!NoMask
<1>1. \A A, B : Lattice(o, s)!SymDiff(A, B) = L!SymDiff(A, B)
  BY DEF Lattice!SymDiff, L!SymDiff
<1>2. \A half : Lattice(o, s)!Theta(half) = L!Theta(half)
  BY DEF Lattice!Theta, L!Theta, Lattice!Cells, L!Cells, Lattice!At, L!At,
         Lattice!Half, L!Half, Lattice!Star, L!Star
<1>3. \A half : Lattice(o, s)!ChiCubic(half) = L!ChiCubic(half)
  BY DEF Lattice!ChiCubic, L!ChiCubic, Lattice!Cells, L!Cells, Lattice!At, L!At,
         Lattice!Half, L!Half
<1>4. \A half : Lattice(o, s)!Chi("cubic", half) = L!Chi("cubic", half)
  BY <1>3 DEF Lattice!Chi, L!Chi
<1>5. \A half, g, r : Lattice(o, s)!FeistelF("cubic", half, g, r) = L!FeistelF("cubic", half, g, r)
  BY <1>1, <1>2, <1>4 DEF Lattice!FeistelF, L!FeistelF
<1> QED
  BY <1>1, <1>5 DEF Lattice!RoundOf, L!RoundOf, Lattice!Masked, L!Masked,
                    Lattice!NoMask, L!NoMask

-----------------------------------------------------------------------------
(* The inductive invariant: what the launches of a round have computed so  *)
(* far, and that a step once begun has a generation to go to.              *)

Shapes ==
    /\ field = [o \in Objects |-> field[o]]
    /\ scratch = [o \in Objects |-> scratch[o]]

Launched ==
    \A o \in Objects :
        /\ phase[o] # "theta" =>
              /\ roundIndex[o] < Rounds
              /\ \A s \in o : scratch[o][s] = L!Theta(field[o][ref[o].right][s])
        /\ phase[o] = "combine" =>
              constant[o] = RoundConstant[generation[o]][roundIndex[o]]
        /\ ~Idle(o) => generation[o] < MaxGeneration

KInv == TypeOK /\ Shapes /\ Launched

LEMMA Parameters ==
    /\ Rounds \in Nat \ {0} /\ MaxGeneration \in Nat
    /\ \A g \in 0..MaxGeneration, r \in 0..Rounds-1 : RoundConstant[g][r] \in L!HalfLattices
    /\ \A seed \in Seeds : seed[1] \in L!HalfLattices /\ seed[2] \in L!HalfLattices
    /\ \A mask \in Masks \cup {L!NoMask} :
          mask[1] \in L!HalfLattices /\ mask[2] \in L!HalfLattices
BY KernelsAssumption DEF L!ParametersOK, L!Grids, L!NoMask, L!HalfLattices

(* The three buffers never coincide. *)
LEMMA BuffersApart ==
    ASSUME TypeOK, NEW o \in Objects
    PROVE  /\ ref[o].left \in Buffers /\ ref[o].right \in Buffers /\ ref[o].extra \in Buffers
           /\ ref[o].left # ref[o].right /\ ref[o].left # ref[o].extra
           /\ ref[o].right # ref[o].extra
<1>1. ref[o] \in [left : Buffers, right : Buffers, extra : Buffers]
  BY DEF TypeOK
<1>2. {ref[o].left, ref[o].right, ref[o].extra} = Buffers
  BY DEF TypeOK
<1>3. 1 \in Buffers /\ 2 \in Buffers /\ 3 \in Buffers
  BY DEF Buffers
<1> QED BY <1>1, <1>2, <1>3

LEMMA InitKInv == Init => KInv
<1> SUFFICES ASSUME Init PROVE KInv
  OBVIOUS
<1>1. PICK seeds \in [Objects -> [UNION Objects -> Seeds]] :
         field = Uploaded(seeds)
  BY DEF Init
<1>2. \A o \in Objects : field[o] \in [Buffers -> [o -> L!HalfLattices]]
  <2> SUFFICES ASSUME NEW o \in Objects, NEW b \in Buffers, NEW s \in o
               PROVE  (CASE b = 1 -> seeds[o][s][1]
                         [] b = 2 -> seeds[o][s][2]
                         [] b = 3 -> {}) \in L!HalfLattices
    BY <1>1 DEF Uploaded
  <2>1. seeds[o][s] \in Seeds
    OBVIOUS
  <2> QED BY <2>1, Parameters DEF Buffers, L!HalfLattices
<1>3. TypeOK
  BY <1>2, Parameters DEF TypeOK, Init, Buffers, L!HalfLattices
<1>4. Shapes /\ Launched
  BY <1>1 DEF Uploaded, Shapes, Launched, Init, Idle
<1> QED BY <1>3, <1>4 DEF KInv

-----------------------------------------------------------------------------
(* What each launch does to the grids.                                     *)

LEMMA ThetaKeepsGrid ==
    ASSUME NEW o \in Objects, LaunchTheta(o) \/ UploadConstant(o)
    PROVE  UNCHANGED <<field, ref, roundIndex, generation>>
BY DEF LaunchTheta, UploadConstant

LEMMA CombineRounds ==
    ASSUME KInv, NEW o \in Objects, LaunchCombine(o), NEW s \in o
    PROVE  Grid(o, s)' = L!RoundOf("cubic", Grid(o, s), generation[o], roundIndex[o])
<1>1. /\ field'[o] = [field[o] EXCEPT ![ref[o].extra] = [x \in o |-> Combined(o, x)]]
      /\ ref'[o] = [left |-> ref[o].right, right |-> ref[o].extra, extra |-> ref[o].left]
  BY DEF KInv, TypeOK, Shapes, LaunchCombine, Rotate
<1>2. field'[o][ref[o].right] = field[o][ref[o].right]
  BY <1>1, BuffersApart DEF KInv, TypeOK
<1>3. field'[o][ref[o].extra] = [x \in o |-> Combined(o, x)]
  BY <1>1, BuffersApart DEF KInv, TypeOK
<1>4. Grid(o, s)' = <<field[o][ref[o].right][s], Combined(o, s)>>
  BY <1>1, <1>2, <1>3 DEF Grid
<1>5. Combined(o, s) = SymDiff(field[o][ref[o].left][s],
                          L!FeistelF("cubic", field[o][ref[o].right][s],
                                     generation[o], roundIndex[o]))
  <2>1. /\ scratch[o][s] = L!Theta(field[o][ref[o].right][s])
        /\ constant[o] = RoundConstant[generation[o]][roundIndex[o]]
    BY DEF KInv, Launched, LaunchCombine
  <2> QED BY <2>1, XorIsSymDiff DEF Combined, L!FeistelF, L!Chi
<1> QED BY <1>4, <1>5, XorIsSymDiff DEF Grid, L!RoundOf

LEMMA EndStepMasks ==
    ASSUME KInv, NEW o \in Objects, NEW mask, EndStep(o, mask), NEW s \in o
    PROVE  Grid(o, s)' = L!Masked(Grid(o, s), mask)
<1>1. /\ field'[o][ref[o].left] = [x \in o |-> SymDiff(field[o][ref[o].left][x], mask[1])]
      /\ field'[o][ref[o].right] = [x \in o |-> SymDiff(field[o][ref[o].right][x], mask[2])]
      /\ ref' = ref
  BY BuffersApart DEF KInv, TypeOK, Shapes, EndStep
<1> QED BY <1>1, XorIsSymDiff DEF Grid, L!Masked

LEMMA OthersUntouched ==
    ASSUME KInv, NEW o \in Objects, NEW q \in Objects, q # o,
           \/ LaunchTheta(o) \/ UploadConstant(o) \/ LaunchCombine(o)
           \/ \E mask : EndStep(o, mask)
    PROVE  /\ field'[q] = field[q] /\ ref'[q] = ref[q] /\ scratch'[q] = scratch[q]
           /\ constant'[q] = constant[q] /\ phase'[q] = phase[q]
           /\ roundIndex'[q] = roundIndex[q] /\ generation'[q] = generation[q]
BY DEF KInv, TypeOK, Shapes, LaunchTheta, UploadConstant, LaunchCombine, EndStep

-----------------------------------------------------------------------------
(* The invariant is inductive.                                             *)

LEMMA ThetaKInv ==
    ASSUME KInv, NEW o \in Objects, LaunchTheta(o)
    PROVE  KInv'
<1>1. /\ scratch'[o] = [s \in o |-> L!Theta(field[o][ref[o].right][s])]
      /\ phase'[o] = "constant"
      /\ UNCHANGED <<field, ref, constant, roundIndex, generation>>
  BY DEF KInv, TypeOK, Shapes, LaunchTheta
<1>2. TypeOK'
  <2>1. scratch'[o] \in [o -> L!HalfLattices]
    BY <1>1, ThetaType
  <2>2. \A q \in Objects : scratch'[q] \in [q -> L!HalfLattices]
    BY <2>1, OthersUntouched DEF KInv, TypeOK
  <2>3. phase' \in [Objects -> {"theta", "constant", "combine"}]
    BY DEF KInv, TypeOK, LaunchTheta
  <2> QED BY <1>1, <2>2, <2>3 DEF KInv, TypeOK
<1>3. Shapes'
  BY DEF KInv, Shapes, LaunchTheta
<1>4. Launched'
  <2> SUFFICES ASSUME NEW q \in Objects
               PROVE  /\ phase'[q] # "theta" =>
                            /\ roundIndex'[q] < Rounds
                            /\ \A s \in q : scratch'[q][s] = L!Theta(field'[q][ref'[q].right][s])
                      /\ phase'[q] = "combine" =>
                            constant'[q] = RoundConstant[generation'[q]][roundIndex'[q]]
                      /\ ~Idle(q)' => generation'[q] < MaxGeneration
    BY DEF Launched
  <2>1. CASE q = o
    BY <1>1, <2>1 DEF LaunchTheta, Idle
  <2>2. CASE q # o
    BY <2>2, OthersUntouched DEF KInv, Launched, Idle
  <2> QED BY <2>1, <2>2
<1> QED BY <1>2, <1>3, <1>4 DEF KInv

LEMMA UploadKInv ==
    ASSUME KInv, NEW o \in Objects, UploadConstant(o)
    PROVE  KInv'
<1>1. /\ constant'[o] = RoundConstant[generation[o]][roundIndex[o]]
      /\ phase'[o] = "combine"
      /\ UNCHANGED <<field, ref, scratch, roundIndex, generation>>
  BY DEF KInv, TypeOK, UploadConstant
<1>2. TypeOK'
  <2>1. /\ generation[o] \in 0..MaxGeneration
        /\ roundIndex[o] \in Nat /\ roundIndex[o] < Rounds
    BY DEF KInv, TypeOK, Launched, UploadConstant
  <2>2. constant'[o] \in L!HalfLattices
    BY <1>1, <2>1, Parameters
  <2>3. constant' \in [Objects -> L!HalfLattices]
    BY <2>2 DEF KInv, TypeOK, UploadConstant
  <2>4. phase' \in [Objects -> {"theta", "constant", "combine"}]
    BY DEF KInv, TypeOK, UploadConstant
  <2> QED BY <1>1, <2>3, <2>4 DEF KInv, TypeOK
<1>3. Shapes'
  BY DEF KInv, Shapes, UploadConstant
<1>4. Launched'
  <2> SUFFICES ASSUME NEW q \in Objects
               PROVE  /\ phase'[q] # "theta" =>
                            /\ roundIndex'[q] < Rounds
                            /\ \A s \in q : scratch'[q][s] = L!Theta(field'[q][ref'[q].right][s])
                      /\ phase'[q] = "combine" =>
                            constant'[q] = RoundConstant[generation'[q]][roundIndex'[q]]
                      /\ ~Idle(q)' => generation'[q] < MaxGeneration
    BY DEF Launched
  <2>1. CASE q = o
    BY <1>1, <2>1 DEF KInv, Launched, UploadConstant, Idle
  <2>2. CASE q # o
    BY <2>2, OthersUntouched DEF KInv, Launched, Idle
  <2> QED BY <2>1, <2>2
<1> QED BY <1>2, <1>3, <1>4 DEF KInv

LEMMA CombineKInv ==
    ASSUME KInv, NEW o \in Objects, LaunchCombine(o)
    PROVE  KInv'
<1>1. /\ field'[o] = [field[o] EXCEPT ![ref[o].extra] = [s \in o |-> Combined(o, s)]]
      /\ ref'[o] = [left |-> ref[o].right, right |-> ref[o].extra, extra |-> ref[o].left]
      /\ phase'[o] = "theta"
      /\ roundIndex'[o] = roundIndex[o] + 1
      /\ UNCHANGED <<scratch, constant, generation>>
  BY DEF KInv, TypeOK, Shapes, LaunchCombine, Rotate
<1>2. roundIndex[o] \in Nat /\ roundIndex[o] < Rounds /\ generation[o] < MaxGeneration
  BY DEF KInv, TypeOK, Launched, LaunchCombine, Idle
<1>3. TypeOK'
  <2>1. \A s \in o : Combined(o, s) \in L!HalfLattices
    <3> SUFFICES ASSUME NEW s \in o PROVE Combined(o, s) \in L!HalfLattices
      OBVIOUS
    <3>1. /\ field[o][ref[o].left][s] \in SUBSET L!Cells
          /\ constant[o] \in SUBSET L!Cells
          /\ L!ChiCubic(scratch[o][s]) \in SUBSET L!Cells
      BY BuffersApart, CubicType DEF KInv, TypeOK, L!HalfLattices
    <3> QED BY <3>1, SymDiffType DEF Combined, L!HalfLattices
  <2>2. \A q \in Objects : field'[q] \in [Buffers -> [q -> L!HalfLattices]]
    <3>1. \A q \in Objects : field[q] \in [Buffers -> [q -> L!HalfLattices]]
      BY DEF KInv, TypeOK
    <3>2. [s \in o |-> Combined(o, s)] \in [o -> L!HalfLattices]
      BY <2>1
    <3>3. field'[o] \in [Buffers -> [o -> L!HalfLattices]]
      BY <1>1, <3>1, <3>2
    <3>4. \A q \in Objects \ {o} : field'[q] = field[q]
      BY OthersUntouched
    <3> QED BY <3>1, <3>3, <3>4
  <2>3. ref' \in [Objects -> [left : Buffers, right : Buffers, extra : Buffers]]
    BY DEF KInv, TypeOK, LaunchCombine, Rotate
  <2>4. \A q \in Objects : {ref'[q].left, ref'[q].right, ref'[q].extra} = Buffers
    <3>1. \A q \in Objects : {ref[q].left, ref[q].right, ref[q].extra} = Buffers
      BY DEF KInv, TypeOK
    <3>2. {ref'[o].left, ref'[o].right, ref'[o].extra}
             = {ref[o].left, ref[o].right, ref[o].extra}
      BY <1>1
    <3>3. \A q \in Objects \ {o} : ref'[q] = ref[q]
      BY OthersUntouched
    <3> QED BY <3>1, <3>2, <3>3
  <2>5. phase' \in [Objects -> {"theta", "constant", "combine"}]
    BY DEF KInv, TypeOK, LaunchCombine
  <2>6. roundIndex' \in [Objects -> 0..Rounds]
    BY <1>2, Parameters DEF KInv, TypeOK, LaunchCombine
  <2> QED BY <1>1, <2>2, <2>3, <2>4, <2>5, <2>6 DEF KInv, TypeOK
<1>4. Shapes'
  BY DEF KInv, Shapes, LaunchCombine
<1>5. Launched'
  <2> SUFFICES ASSUME NEW q \in Objects
               PROVE  /\ phase'[q] # "theta" =>
                            /\ roundIndex'[q] < Rounds
                            /\ \A s \in q : scratch'[q][s] = L!Theta(field'[q][ref'[q].right][s])
                      /\ phase'[q] = "combine" =>
                            constant'[q] = RoundConstant[generation'[q]][roundIndex'[q]]
                      /\ ~Idle(q)' => generation'[q] < MaxGeneration
    BY DEF Launched
  <2>1. CASE q = o
    BY <1>1, <1>2, <2>1
  <2>2. CASE q # o
    BY <2>2, OthersUntouched DEF KInv, Launched, Idle
  <2> QED BY <2>1, <2>2
<1> QED BY <1>3, <1>4, <1>5 DEF KInv

LEMMA EndStepKInv ==
    ASSUME KInv, NEW o \in Objects, NEW mask \in Masks \cup {L!NoMask}, EndStep(o, mask)
    PROVE  KInv'
<1>1. /\ field'[o] = [field[o] EXCEPT
                        ![ref[o].left] = [s \in o |-> SymDiff(field[o][ref[o].left][s], mask[1])],
                        ![ref[o].right] = [s \in o |-> SymDiff(field[o][ref[o].right][s], mask[2])]]
      /\ generation'[o] = generation[o] + 1
      /\ roundIndex'[o] = 0
      /\ UNCHANGED <<ref, scratch, constant, phase>>
  BY BuffersApart DEF KInv, TypeOK, Shapes, EndStep
<1>2. /\ phase[o] = "theta"
      /\ generation[o] \in Nat /\ generation[o] < MaxGeneration
  BY Parameters DEF KInv, TypeOK, Launched, EndStep, Idle
<1>3. TypeOK'
  <2>1. \A s \in o : /\ SymDiff(field[o][ref[o].left][s], mask[1]) \in L!HalfLattices
                     /\ SymDiff(field[o][ref[o].right][s], mask[2]) \in L!HalfLattices
    <3> SUFFICES ASSUME NEW s \in o
                 PROVE  /\ SymDiff(field[o][ref[o].left][s], mask[1]) \in L!HalfLattices
                        /\ SymDiff(field[o][ref[o].right][s], mask[2]) \in L!HalfLattices
      OBVIOUS
    <3>1. /\ field[o][ref[o].left][s] \in SUBSET L!Cells
          /\ field[o][ref[o].right][s] \in SUBSET L!Cells
          /\ mask[1] \in SUBSET L!Cells /\ mask[2] \in SUBSET L!Cells
      BY BuffersApart, Parameters DEF KInv, TypeOK, L!HalfLattices
    <3> QED BY <3>1, SymDiffType DEF L!HalfLattices
  <2>2. \A q \in Objects : field'[q] \in [Buffers -> [q -> L!HalfLattices]]
    <3>1. \A q \in Objects : field[q] \in [Buffers -> [q -> L!HalfLattices]]
      BY DEF KInv, TypeOK
    <3>2. /\ [s \in o |-> SymDiff(field[o][ref[o].left][s], mask[1])] \in [o -> L!HalfLattices]
          /\ [s \in o |-> SymDiff(field[o][ref[o].right][s], mask[2])] \in [o -> L!HalfLattices]
      BY <2>1
    <3>3. field'[o] \in [Buffers -> [o -> L!HalfLattices]]
      <4>1. field[o] \in [Buffers -> [o -> L!HalfLattices]]
        BY <3>1
      <4>2. \A f \in [Buffers -> [o -> L!HalfLattices]] :
               \A b, e : \A u, v \in [o -> L!HalfLattices] :
                  [f EXCEPT ![b] = u, ![e] = v] \in [Buffers -> [o -> L!HalfLattices]]
        OBVIOUS
      <4> QED BY <1>1, <3>2, <4>1, <4>2
    <3>4. \A q \in Objects \ {o} : field'[q] = field[q]
      BY OthersUntouched
    <3> QED BY <3>1, <3>3, <3>4
  <2>3. generation' \in [Objects -> 0..MaxGeneration]
    BY <1>2, Parameters DEF KInv, TypeOK, EndStep
  <2>4. roundIndex' \in [Objects -> 0..Rounds]
    BY Parameters DEF KInv, TypeOK, EndStep
  <2> QED BY <1>1, <2>2, <2>3, <2>4 DEF KInv, TypeOK
<1>4. Shapes'
  BY DEF KInv, Shapes, EndStep
<1>5. Launched'
  <2> SUFFICES ASSUME NEW q \in Objects
               PROVE  /\ phase'[q] # "theta" =>
                            /\ roundIndex'[q] < Rounds
                            /\ \A s \in q : scratch'[q][s] = L!Theta(field'[q][ref'[q].right][s])
                      /\ phase'[q] = "combine" =>
                            constant'[q] = RoundConstant[generation'[q]][roundIndex'[q]]
                      /\ ~Idle(q)' => generation'[q] < MaxGeneration
    BY DEF Launched
  <2>1. CASE q = o
    BY <1>1, <1>2, <2>1 DEF Idle
  <2>2. CASE q # o
    BY <2>2, OthersUntouched DEF KInv, Launched, Idle
  <2> QED BY <2>1, <2>2
<1> QED BY <1>3, <1>4, <1>5 DEF KInv

LEMMA KInvInductive == KInv /\ [Next]_vars => KInv'
<1> SUFFICES ASSUME KInv, [Next]_vars PROVE KInv'
  OBVIOUS
<1>1. ASSUME NEW o \in Objects, LaunchTheta(o) PROVE KInv'
  BY <1>1, ThetaKInv
<1>2. ASSUME NEW o \in Objects, UploadConstant(o) PROVE KInv'
  BY <1>2, UploadKInv
<1>3. ASSUME NEW o \in Objects, LaunchCombine(o) PROVE KInv'
  BY <1>3, CombineKInv
<1>4. ASSUME NEW o \in Objects, NEW mask \in Masks \cup {L!NoMask}, EndStep(o, mask) PROVE KInv'
  BY <1>4, EndStepKInv
<1>5. CASE UNCHANGED vars
  BY <1>5 DEF vars, KInv, TypeOK, Shapes, Launched, Idle
<1> QED BY <1>1, <1>2, <1>3, <1>4, <1>5 DEF Next

-----------------------------------------------------------------------------
(* Whatever is launched, the buffers and what they hold keep their types.  *)
THEOREM LatticeTypeCorrect == Spec => []TypeOK
<1>1. KInv => TypeOK
  BY DEF KInv
<1> QED BY <1>1, InitKInv, KInvInductive, PTL DEF Spec

(* The reversed loop of feistel_step_inverse undoes the loop of            *)
(* feistel_step, on every lattice, for any number of rounds and for both   *)
(* nonlinear steps, and needs no inverse of either.                        *)
THEOREM StepsAreInverted == Spec => []RoundTrip
<1>1. RoundTrip
  <2>1. Rounds \in Nat
    BY KernelsAssumption DEF L!ParametersOK
  <2> QED BY <2>1, StepInverts DEF RoundTrip, Grid
<1> QED BY <1>1, PTL

LEMMA ApartInductive ==
    KInv /\ SessionsStayApart /\ [Next]_vars => SessionsStayApart'
<1> SUFFICES ASSUME KInv, SessionsStayApart, [Next]_vars,
                    NEW p \in Objects, NEW s \in p, NEW t \in p, s # t,
                    Grid(p, s)' = Grid(p, t)'
             PROVE  FALSE
  BY DEF SessionsStayApart
<1>0. Grid(p, s) # Grid(p, t)
  BY DEF SessionsStayApart
<1>1. ASSUME NEW o \in Objects, LaunchTheta(o) \/ UploadConstant(o) PROVE FALSE
  BY <1>0, <1>1, ThetaKeepsGrid DEF Grid
<1>2. ASSUME NEW o \in Objects, p # o,
             \/ LaunchCombine(o)
             \/ \E mask \in Masks \cup {L!NoMask} : EndStep(o, mask)
      PROVE  FALSE
  <2>1. field'[p] = field[p] /\ ref'[p] = ref[p]
    BY <1>2, OthersUntouched
  <2> QED BY <1>0, <2>1 DEF Grid
<1>3. ASSUME LaunchCombine(p) PROVE FALSE
  <2> DEFINE F(x) == L!FeistelF("cubic", field[p][ref[p].right][x], generation[p], roundIndex[p])
  <2>1. \A x \in p : Grid(p, x)' = <<field[p][ref[p].right][x],
                                     SymDiff(field[p][ref[p].left][x], F(x))>>
    BY <1>3, CombineRounds, XorIsSymDiff DEF L!RoundOf, Grid
  <2>2. /\ field[p][ref[p].right][s] = field[p][ref[p].right][t]
        /\ SymDiff(field[p][ref[p].left][s], F(s)) = SymDiff(field[p][ref[p].left][t], F(t))
    BY <2>1
  <2>3. field[p][ref[p].left][s] = field[p][ref[p].left][t]
    BY <2>2, SymDiffInjective
  <2> QED BY <1>0, <2>2, <2>3 DEF Grid
<1>4. ASSUME NEW mask \in Masks \cup {L!NoMask}, EndStep(p, mask) PROVE FALSE
  <2>1. \A x \in p : Grid(p, x)' = <<SymDiff(field[p][ref[p].left][x], mask[1]),
                                     SymDiff(field[p][ref[p].right][x], mask[2])>>
    BY <1>4, EndStepMasks, XorIsSymDiff DEF L!Masked, Grid
  <2>2. /\ field[p][ref[p].left][s] = field[p][ref[p].left][t]
        /\ field[p][ref[p].right][s] = field[p][ref[p].right][t]
    BY <2>1, SymDiffInjective
  <2> QED BY <1>0, <2>2 DEF Grid
<1>5. CASE UNCHANGED vars
  BY <1>0, <1>5 DEF vars, Grid
<1> QED BY <1>1, <1>2, <1>3, <1>4, <1>5 DEF Next

LEMMA InitApart == Init => SessionsStayApart
<1> SUFFICES ASSUME Init, NEW o \in Objects, NEW s \in o, NEW t \in o, s # t
             PROVE  Grid(o, s) # Grid(o, t)
  BY DEF SessionsStayApart
<1>1. PICK seeds \in [Objects -> [UNION Objects -> Seeds]] :
         /\ \A q \in Objects : \A x, y \in q : x # y => seeds[q][x] # seeds[q][y]
         /\ field = Uploaded(seeds)
  BY DEF Init
<1>2. ref[o].left = 1 /\ ref[o].right = 2 /\ 1 \in Buffers /\ 2 \in Buffers
  BY DEF Init, Buffers
<1>3. \A x \in o : Grid(o, x) = <<seeds[o][x][1], seeds[o][x][2]>>
  BY <1>1, <1>2 DEF Uploaded, Grid
<1>4. \A x \in o : seeds[o][x] = <<seeds[o][x][1], seeds[o][x][2]>>
  <2> SUFFICES ASSUME NEW x \in o PROVE seeds[o][x] = <<seeds[o][x][1], seeds[o][x][2]>>
    OBVIOUS
  <2>1. seeds[o][x] \in Seeds
    OBVIOUS
  <2> QED BY <2>1, KernelsAssumption DEF L!ParametersOK, L!Grids
<1>5. seeds[o][s] # seeds[o][t]
  BY <1>1
<1> QED BY <1>3, <1>4, <1>5

(* Sessions that share every launch never come to share a lattice.         *)
THEOREM BatchStaysApart == Spec => []SessionsStayApart
BY InitKInv, KInvInductive, InitApart, ApartInductive, PTL DEF Spec

-----------------------------------------------------------------------------
(* The refinement.                                                         *)

LEMMA InitMaps == Init => \A o \in Objects : \A s \in o : Lattice(o, s)!Init
<1> SUFFICES ASSUME Init, NEW o \in Objects, NEW s \in o PROVE Lattice(o, s)!Init
  OBVIOUS
<1>1. PICK seeds \in [Objects -> [UNION Objects -> Seeds]] :
         field = Uploaded(seeds)
  BY DEF Init
<1>2. ref[o].left = 1 /\ ref[o].right = 2 /\ 1 \in Buffers /\ 2 \in Buffers
  BY DEF Init, Buffers
<1>3. Grid(o, s) = <<seeds[o][s][1], seeds[o][s][2]>>
  BY <1>1, <1>2 DEF Uploaded, Grid
<1>4. seeds[o][s] = <<seeds[o][s][1], seeds[o][s][2]>> /\ seeds[o][s] \in Seeds
  BY KernelsAssumption DEF L!ParametersOK, L!Grids
<1>5. Grid(o, s) \in Seeds
  BY <1>3, <1>4
<1> QED BY <1>5 DEF Lattice!Init, Init, Grid

LEMMA StepMaps ==
    KInv /\ [Next]_vars =>
        \A p \in Objects : \A s \in p : [Lattice(p, s)!Next]_(Lattice(p, s)!vars)
<1> SUFFICES ASSUME KInv, [Next]_vars, NEW p \in Objects, NEW s \in p
             PROVE  [Lattice(p, s)!Next]_(Lattice(p, s)!vars)
  OBVIOUS
<1>1. ASSUME NEW o \in Objects, LaunchTheta(o) \/ UploadConstant(o)
      PROVE  UNCHANGED Lattice(p, s)!vars
  BY <1>1, ThetaKeepsGrid DEF Lattice!vars
<1>2. ASSUME NEW o \in Objects, p # o,
             \/ LaunchCombine(o)
             \/ \E mask \in Masks \cup {L!NoMask} : EndStep(o, mask)
      PROVE  UNCHANGED Lattice(p, s)!vars
  <2>1. /\ field'[p] = field[p] /\ ref'[p] = ref[p]
        /\ roundIndex'[p] = roundIndex[p] /\ generation'[p] = generation[p]
    BY <1>2, OthersUntouched
  <2> QED BY <2>1 DEF Lattice!vars
<1>3. ASSUME LaunchCombine(p) PROVE Lattice(p, s)!Round
  <2>1. Grid(p, s)' = Lattice(p, s)!RoundOf("cubic", Grid(p, s), generation[p], roundIndex[p])
    BY <1>3, CombineRounds, OneLattice
  <2>2. /\ roundIndex[p] < Rounds /\ generation[p] < MaxGeneration
        /\ roundIndex'[p] = roundIndex[p] + 1 /\ generation'[p] = generation[p]
    BY <1>3 DEF KInv, TypeOK, Launched, LaunchCombine, Idle
  <2> QED BY <2>1, <2>2 DEF Lattice!Round, Grid
<1>4. ASSUME NEW mask \in Masks \cup {L!NoMask}, EndStep(p, mask)
      PROVE  Lattice(p, s)!EndStep(mask)
  <2>1. Grid(p, s)' = Lattice(p, s)!Masked(Grid(p, s), mask)
    BY <1>4, EndStepMasks, OneLattice
  <2>2. /\ roundIndex[p] = Rounds
        /\ roundIndex'[p] = 0 /\ generation'[p] = generation[p] + 1
    BY <1>4 DEF KInv, TypeOK, EndStep
  <2> QED BY <2>1, <2>2 DEF Lattice!EndStep, Grid
<1>5. CASE UNCHANGED vars
  BY <1>5 DEF vars, Lattice!vars
<1> QED BY <1>1, <1>2, <1>3, <1>4, <1>5, OneLattice DEF Next, Lattice!Next

(* On the device every session goes through the rounds of the lattice of   *)
(* ctp_cipher.py, one session to an object or many, whichever buffers the  *)
(* references have come round to.                                          *)
THEOREM KernelsImplementLattice == Spec => ImplementsLattice
<1>1. KInv /\ [Next]_vars =>
        [\A o \in Objects : \A s \in o : [Lattice(o, s)!Next]_(Lattice(o, s)!vars)]_vars
  BY StepMaps
<1> QED BY <1>1, InitKInv, InitMaps, KInvInductive, PTL DEF Spec, ImplementsLattice
=============================================================================
