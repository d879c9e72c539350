--------------------------- MODULE FrontendProofs ---------------------------
(***************************************************************************)
(* Proofs about the core as a frontend sees it, for screens and sound      *)
(* rates of any size, any content and any number of calls: the sound of a  *)
(* session comes out in order and complete, the screen, the touch point    *)
(* and the cursor agree, a load that succeeds is a load of what was asked  *)
(* for, and no two consoles own one save.                                  *)
(***************************************************************************)
EXTENDS Frontend, SequenceTheorems, WellFoundedInduction, TLAPS

-----------------------------------------------------------------------------
(* Definitions by recursion.                                               *)

\* The order of the numbers, as a relation.
LessNat == OpToRel(<, Nat)

LEMMA LessNatFacts ==
  /\ IsWellFoundedOn(LessNat, Nat)
  /\ \A a, b \in Nat : a < b => <<a, b>> \in LessNat
  <1>1. IsWellFoundedOn(LessNat, Nat)
    BY NatLessThanWellFounded DEF LessNat
  <1>2. \A a, b \in Nat : a < b => <<a, b>> \in LessNat
    BY DEF LessNat, OpToRel
  <1> QED BY <1>1, <1>2

\* A set of numbers that is not empty has a smallest one.
LEMMA Smallest ==
  ASSUME NEW T, T \subseteq Nat, T # {}
  PROVE  \E m \in T : \A k \in T : m <= k
  <1>1. IsWellFoundedOn(LessNat, Nat)
    BY LessNatFacts
  <1> PICK x \in T : \A y \in T : <<y, x>> \notin LessNat
    BY <1>1, WFMin
  <1>2. \A y \in T : y \in Nat /\ x \in Nat /\ ~(y < x)
    BY LessNatFacts
  <1>3. \A y \in T : x <= y
    BY <1>2
  <1> QED BY <1>3

\* A set of numbers that holds 0, and with each number below n the next one,
\* holds all of them up to n.
LEMMA UpTo ==
  ASSUME NEW n \in Nat, NEW T, 0 \in T,
         \A k \in 1..n : k - 1 \in T => k \in T
  PROVE  \A k \in 0..n : k \in T
  <1> SUFFICES ASSUME NEW k \in 0..n, k \notin T PROVE FALSE
    OBVIOUS
  <1> DEFINE Rest == {i \in 0..n : i \notin T}
  <1>1. Rest \subseteq Nat /\ k \in Rest
    OBVIOUS
  <1> PICK m \in Rest : \A i \in Rest : m <= i
    BY <1>1, Smallest
  <1>2. m \in 1..n /\ m - 1 \in 0..n /\ ~(m <= m - 1)
    OBVIOUS
  <1> QED BY <1>2

\* A step applied n times, from a first value.
LEMMA Iterates ==
  ASSUME NEW S, NEW first \in S, NEW n \in Nat, NEW step \in [1..n -> [S -> S]]
  PROVE  \E g \in [0..n -> S] :
           /\ g[0] = first
           /\ \A k \in 1..n : g[k] = step[k][g[k - 1]]
  <1> DEFINE Runs(m) ==
        {g \in [0..m -> S] :
           g = [k \in 0..m |-> IF k = 0 THEN first ELSE step[k][g[k - 1]]]}
      T == {m \in 0..n : Runs(m) # {}}
  <1>1. 0 \in T
    <2> DEFINE g == [k \in 0..0 |-> first]
    <2>1. g \in [0..0 -> S]
      OBVIOUS
    <2>2. g = [k \in 0..0 |-> IF k = 0 THEN first ELSE step[k][g[k - 1]]]
      OBVIOUS
    <2>3. g \in Runs(0)
      BY <2>1, <2>2
    <2> QED BY <2>3
  <1>2. ASSUME NEW m \in 1..n, m - 1 \in T PROVE m \in T
    <2> PICK h : h \in Runs(m - 1)
      BY <1>2
    <2>1. /\ h \in [0..(m - 1) -> S]
          /\ h = [k \in 0..(m - 1) |->
                    IF k = 0 THEN first ELSE step[k][h[k - 1]]]
      OBVIOUS
    <2> DEFINE e == step[m][h[m - 1]]
               g == [k \in 0..m |-> IF k = m THEN e ELSE h[k]]
    <2>2. m - 1 \in 0..(m - 1) /\ m \in 0..n /\ m # 0
      OBVIOUS
    <2>3. e \in S
      BY <2>1, <2>2
    <2> HIDE DEF e
    <2>4. g \in [0..m -> S]
      <3> SUFFICES ASSUME NEW k \in 0..m, k # m PROVE h[k] \in S
        BY <2>3
      <3>1. k \in 0..(m - 1)
        OBVIOUS
      <3> QED BY <2>1, <3>1
    <2>5. ASSUME NEW k \in 0..m
          PROVE  g[k] = IF k = 0 THEN first ELSE step[k][g[k - 1]]
      <3>1. CASE k = m
        <4>1. k - 1 \in 0..m /\ k - 1 # m /\ k # 0
          BY <3>1
        <4> QED BY <3>1, <4>1 DEF e
      <3>2. CASE k # m
        <4>1. k \in 0..(m - 1)
          BY <3>2
        <4>2. k # 0 => k - 1 \in 0..m /\ k - 1 # m
          BY <4>1
        <4>3. h[k] = IF k = 0 THEN first ELSE step[k][h[k - 1]]
          BY <2>1, <4>1
        <4> QED BY <3>2, <4>2, <4>3
      <3> QED BY <3>1, <3>2
    <2>6. g \in Runs(m)
      <3>1. g = [k \in 0..m |-> g[k]]
        OBVIOUS
      <3> HIDE DEF g
      <3>2. g = [k \in 0..m |-> IF k = 0 THEN first ELSE step[k][g[k - 1]]]
        BY <2>5, <3>1
      <3> QED BY <2>4, <3>2
    <2>7. Runs(m) # {}
      <3> HIDE DEF g, Runs
      <3> QED BY <2>6
    <2> HIDE DEF Runs
    <2> QED BY <2>2, <2>7
  <1> HIDE DEF T
  <1>3. n \in T
    <2>1. \A k \in 1..n : k - 1 \in T => k \in T
      BY <1>2
    <2>2. \A k \in 0..n : k \in T
      BY <1>1, <2>1, UpTo
    <2> QED BY <2>2
  <1> PICK g : g \in Runs(n)
    BY <1>3 DEF T
  <1>4. /\ g \in [0..n -> S]
        /\ g = [k \in 0..n |-> IF k = 0 THEN first ELSE step[k][g[k - 1]]]
    OBVIOUS
  <1>5. \A k \in 0..n : g[k] = IF k = 0 THEN first ELSE step[k][g[k - 1]]
    BY <1>4
  <1>6. 0 \in 0..n /\ \A k \in 1..n : k \in 0..n /\ k # 0
    OBVIOUS
  <1>7. g[0] = first
    BY <1>5, <1>6
  <1>8. \A k \in 1..n : g[k] = step[k][g[k - 1]]
    BY <1>5, <1>6
  <1> HIDE DEF Runs
  <1> QED BY <1>4, <1>7, <1>8

-----------------------------------------------------------------------------
(* The queue of sound.                                                     *)

Fifos == [read : 0..(FifoFrames - 1), count : 0..FifoFrames,
          samples : [0..(FifoFrames - 1) -> Int]]

\* A queue that holds the newest samples of mk, those after tk that fit.
Holds(f, mk, tk) ==
  /\ f \in Fifos /\ mk \in Nat /\ tk \in Nat /\ tk <= mk
  /\ f.count = IF mk - tk < FifoFrames THEN mk - tk ELSE FifoFrames
  /\ \A i \in 0..(f.count - 1) :
       f.samples[(f.read + i) % FifoFrames] = mk - f.count + 1 + i

LEMMA SoundConstants ==
  /\ FifoFrames \in Nat /\ FifoFrames >= 1
  /\ BufferFrames \in Nat /\ BufferFrames >= 1
  /\ DrainLimit \in Nat /\ MaxSamples \in Nat
  BY SoundAssumption

\* One turn around the queue.
LEMMA Around ==
  ASSUME NEW n \in Nat, n >= 1, NEW i \in 0..(2 * n - 1)
  PROVE  i % n = (IF i < n THEN i ELSE i - n)
  <1>1. CASE i < n
    BY <1>1
  <1>2. CASE i >= n
    <2>1. i - n \in 0..(n - 1)
      BY <1>2
    <2> QED BY <1>2, <2>1, SMTT(20)
  <1> QED BY <1>1, <1>2

\* A place in the queue.
Wrap(i) == i % FifoFrames

LEMMA WrapIs ==
  ASSUME NEW a \in 0..(FifoFrames - 1), NEW b \in 0..FifoFrames
  PROVE  /\ Wrap(a + b) = (IF a + b < FifoFrames THEN a + b ELSE a + b - FifoFrames)
         /\ Wrap(a + b) \in 0..(FifoFrames - 1)
  <1>1. FifoFrames \in Nat /\ FifoFrames >= 1
    BY SoundConstants
  <1>2. a + b \in 0..(2 * FifoFrames - 1)
    BY <1>1
  <1>3. Wrap(a + b) = (IF a + b < FifoFrames THEN a + b ELSE a + b - FifoFrames)
    <2> DEFINE c == a + b
               n == FifoFrames
    <2>1. n \in Nat /\ n >= 1 /\ c \in 0..(2 * n - 1)
      BY <1>1, <1>2
    <2>3. Wrap(a + b) = c % n
      BY DEF Wrap
    <2>4. c = a + b /\ n = FifoFrames
      OBVIOUS
    <2> HIDE DEF c, n
    <2>2. c % n = (IF c < n THEN c ELSE c - n)
      BY <2>1, Around
    <2> DEFINE r == c % n
    <2>5. r = (IF c < n THEN c ELSE c - n) /\ Wrap(a + b) = r
      BY <2>2, <2>3
    <2> HIDE DEF r
    <2> QED BY <1>1, <2>4, <2>5
  <1> QED BY <1>1, <1>3

\* A new sample goes behind the others; in a full queue the oldest goes.
LEMMA PushHolds ==
  ASSUME NEW f, NEW mk, NEW tk, Holds(f, mk, tk)
  PROVE  Holds(Push(f, mk + 1), mk + 1, tk)
  <1> DEFINE full == f.count = FifoFrames
             read == IF full THEN Wrap(f.read + 1) ELSE f.read
             count == IF full THEN f.count - 1 ELSE f.count
             at == Wrap(read + count)
             g == Push(f, mk + 1)
  <1>1. /\ FifoFrames \in Nat /\ FifoFrames >= 1
        /\ f.read \in 0..(FifoFrames - 1) /\ f.count \in 0..FifoFrames
        /\ f.samples \in [0..(FifoFrames - 1) -> Int]
        /\ mk \in Nat /\ tk \in Nat /\ tk <= mk
        /\ f.count = IF mk - tk < FifoFrames THEN mk - tk ELSE FifoFrames
    BY SoundConstants DEF Holds, Fifos
  <1>2. \A i \in 0..(f.count - 1) :
          f.samples[Wrap(f.read + i)] = mk - f.count + 1 + i
    BY DEF Holds, Wrap
  <1>3. /\ g.read = read /\ g.count = count + 1
        /\ g.samples = [f.samples EXCEPT ![at] = mk + 1]
        /\ g = [read |-> g.read, count |-> g.count, samples |-> g.samples]
    BY DEF Push, Wrap
  <1> HIDE DEF g
  <1>4. /\ read \in 0..(FifoFrames - 1) /\ count \in 0..(FifoFrames - 1)
        /\ full => read = (IF f.read + 1 < FifoFrames THEN f.read + 1 ELSE 0)
    BY <1>1, WrapIs
  <1>5. /\ at = (IF read + count < FifoFrames THEN read + count
                 ELSE read + count - FifoFrames)
        /\ at \in 0..(FifoFrames - 1)
    <2> HIDE DEF read, count
    <2> QED BY <1>1, <1>4, WrapIs
  <1>6. g \in Fifos
    <2> HIDE DEF at, read, count
    <2>1. g.samples \in [0..(FifoFrames - 1) -> Int]
      BY <1>1, <1>3, <1>5
    <2>2. g.read \in 0..(FifoFrames - 1)
      BY <1>3, <1>4
    <2>3. g.count = count + 1 /\ count \in 0..(FifoFrames - 1)
      BY <1>3, <1>4
    <2>4. g.count \in 0..FifoFrames
      <3> HIDE DEF full
      <3> QED BY <1>1, <2>3
    <2> QED BY <1>3, <2>1, <2>2, <2>4 DEF Fifos
  <1>7. g.count = IF mk + 1 - tk < FifoFrames THEN mk + 1 - tk ELSE FifoFrames
    BY <1>1, <1>3
  <1>8. ASSUME NEW i \in 0..(g.count - 1)
        PROVE  g.samples[Wrap(g.read + i)] = mk + 1 - g.count + 1 + i
    <2>1. i \in 0..count /\ i \in Int /\ count \in Int /\ g.count = count + 1
      BY <1>3, <1>4, <1>8
    <2> DEFINE k == Wrap(read + i)
    <2>2. /\ k = (IF read + i < FifoFrames THEN read + i
                  ELSE read + i - FifoFrames)
          /\ k \in 0..(FifoFrames - 1)
      <3> HIDE DEF read, count
      <3> QED BY <1>1, <1>4, <2>1, WrapIs
    <2>3. CASE i = count
      <3> HIDE DEF at
      <3>1. k = at
        BY <2>3 DEF at
      <3>2. g.samples[k] = mk + 1
        <4> HIDE DEF k
        <4> QED BY <1>1, <1>3, <1>5, <3>1
      <3> HIDE DEF read, count
      <3>3. mk + 1 - g.count + 1 + i = mk + 1
        BY <1>1, <2>1, <2>3
      <3> QED BY <1>3, <3>2, <3>3
    <2>4. CASE i # count
      <3>1. k # at
        <4> HIDE DEF read, count, k, at
        <4> QED BY <1>1, <1>4, <1>5, <2>1, <2>2, <2>4
      <3>2. g.samples[k] = f.samples[k]
        <4> HIDE DEF k, at
        <4> QED BY <1>1, <1>3, <1>5, <2>2, <3>1
      <3>3. CASE full
        <4>1. /\ i + 1 \in 0..(f.count - 1) /\ f.count = FifoFrames
              /\ i + 1 \in 0..FifoFrames /\ count = FifoFrames - 1
          BY <1>1, <2>1, <2>4, <3>3
        <4>2. f.samples[Wrap(f.read + (i + 1))] = mk - f.count + 1 + (i + 1)
          BY <1>2, <4>1
        <4>3. Wrap(f.read + (i + 1)) = k
          <5>1. Wrap(f.read + (i + 1)) =
                  (IF f.read + (i + 1) < FifoFrames THEN f.read + (i + 1)
                   ELSE f.read + (i + 1) - FifoFrames)
            BY <1>1, <4>1, WrapIs
          <5>2. read = (IF f.read + 1 < FifoFrames THEN f.read + 1 ELSE 0)
            BY <1>4, <3>3
          <5> HIDE DEF k, read, count
          <5>3. /\ FifoFrames \in Int /\ f.read \in Int /\ i \in Int
                /\ 0 <= i /\ i + 1 <= FifoFrames /\ f.read + 1 <= FifoFrames
            BY <1>1, <2>1, <4>1
          <5>4. CASE f.read + 1 < FifoFrames
            <6>1. read = f.read + 1 /\ f.read + (i + 1) = read + i
              BY <5>2, <5>3, <5>4
            <6> QED BY <2>2, <5>1, <5>3, <6>1
          <5>5. CASE f.read + 1 = FifoFrames
            <6>1. read = 0 /\ k = i
              BY <2>2, <5>2, <5>3, <5>5
            <6>2. Wrap(f.read + (i + 1)) = f.read + (i + 1) - FifoFrames
              BY <5>1, <5>3, <5>5
            <6> QED BY <5>3, <5>5, <6>1, <6>2
          <5> QED BY <5>3, <5>4, <5>5
        <4>4. mk - f.count + 1 + (i + 1) = mk + 1 - g.count + 1 + i
          <5> HIDE DEF count
          <5> QED BY <1>1, <2>1, <4>1
        <4> QED BY <1>3, <3>2, <4>2, <4>3, <4>4
      <3>4. CASE ~full
        <4>1. i \in 0..(f.count - 1) /\ read = f.read /\ count = f.count
          BY <1>1, <2>1, <2>4, <3>4
        <4>2. f.samples[k] = mk - f.count + 1 + i
          BY <1>2, <4>1
        <4>3. mk - f.count + 1 + i = mk + 1 - g.count + 1 + i
          <5> HIDE DEF count
          <5> QED BY <1>1, <2>1, <4>1
        <4> QED BY <1>3, <3>2, <4>2, <4>3
      <3> QED BY <3>3, <3>4
    <2> QED BY <2>3, <2>4
  <1>9. mk + 1 \in Nat /\ tk <= mk + 1
    BY <1>1
  <1>10. \A i \in 0..(g.count - 1) :
           g.samples[(g.read + i) % FifoFrames] = mk + 1 - g.count + 1 + i
    BY <1>8 DEF Wrap
  <1>11. Holds(g, mk + 1, tk)
    BY <1>1, <1>6, <1>7, <1>9, <1>10 DEF Holds
  <1> QED BY <1>11 DEF g

LEMMA PushType ==
  ASSUME NEW f \in Fifos, NEW sample \in Int
  PROVE  Push(f, sample) \in Fifos
  <1> DEFINE read == IF f.count = FifoFrames THEN Wrap(f.read + 1) ELSE f.read
             count == IF f.count = FifoFrames THEN f.count - 1 ELSE f.count
             at == Wrap(read + count)
  <1>1. /\ FifoFrames \in Nat /\ FifoFrames >= 1
        /\ f.read \in 0..(FifoFrames - 1) /\ f.count \in 0..FifoFrames
        /\ f.samples \in [0..(FifoFrames - 1) -> Int]
    BY SoundConstants DEF Fifos
  <1>2. Push(f, sample) = [read |-> read, count |-> count + 1,
                           samples |-> [f.samples EXCEPT ![at] = sample]]
    BY DEF Push, Wrap
  <1>3. read \in 0..(FifoFrames - 1) /\ count \in 0..(FifoFrames - 1)
    <2>1. Wrap(f.read + 1) \in 0..(FifoFrames - 1)
      <3>1. 1 \in 0..FifoFrames
        BY <1>1
      <3> QED BY <1>1, <3>1, WrapIs
    <2> QED BY <1>1, <2>1
  <1> HIDE DEF read, count
  <1>4. at \in 0..(FifoFrames - 1) /\ count + 1 \in 0..FifoFrames
    BY <1>1, <1>3, WrapIs
  <1> HIDE DEF at
  <1>5. [f.samples EXCEPT ![at] = sample] \in [0..(FifoFrames - 1) -> Int]
    BY <1>1, <1>4
  <1> QED BY <1>2, <1>3, <1>4, <1>5 DEF Fifos

\* The samples of a frame, one after the other.
LEMMA PushesHold ==
  ASSUME Holds(fifo, made, taken), NEW n \in 0..MaxSamples
  PROVE  Holds(Pushes[n], made + n, taken)
  <1> DEFINE step == [k \in 1..MaxSamples |-> [f \in Fifos |-> Push(f, made + k)]]
  <1>1. fifo \in Fifos /\ made \in Nat /\ MaxSamples \in Nat
    BY SoundConstants DEF Holds
  <1>2. step \in [1..MaxSamples -> [Fifos -> Fifos]]
    BY <1>1, PushType
  <1>3. \A f \in Fifos, k \in 1..MaxSamples :
          step[k][f] = Push(f, made + k)
    OBVIOUS
  <1> HIDE DEF step
  <1>4. PICK g \in [0..MaxSamples -> Fifos] :
          /\ g[0] = fifo
          /\ \A k \in 1..MaxSamples : g[k] = step[k][g[k - 1]]
    <2> DEFINE N == MaxSamples
               first == fifo
               S == Fifos
    <2>1. first \in S /\ N \in Nat /\ step \in [1..N -> [S -> S]]
      BY <1>1, <1>2
    <2> HIDE DEF N, first, S
    <2>2. \E g \in [0..N -> S] :
            g[0] = first /\ \A k \in 1..N : g[k] = step[k][g[k - 1]]
      BY <2>1, Iterates
    <2> QED BY <2>2 DEF N, first, S
  <1> DEFINE Eq(h) == h = [k \in 0..MaxSamples |->
                             IF k = 0 THEN fifo ELSE Push(h[k - 1], made + k)]
  <1>5. Eq(g)
    <2>1. ASSUME NEW k \in 1..MaxSamples
          PROVE  g[k] = Push(g[k - 1], made + k)
      <3>1. k - 1 \in 0..MaxSamples
        BY <1>1
      <3> QED BY <1>3, <1>4, <3>1
    <2> DEFINE F == [k \in 0..MaxSamples |->
                       IF k = 0 THEN fifo ELSE Push(g[k - 1], made + k)]
    <2>2. \A k \in 0..MaxSamples : g[k] = F[k]
      BY <1>1, <1>4, <2>1
    <2>3. g = [k \in 0..MaxSamples |-> g[k]] /\ F = [k \in 0..MaxSamples |-> F[k]]
      OBVIOUS
    <2>4. g = F
      <3> HIDE DEF F
      <3> QED BY <2>2, <2>3
    <2> QED BY <2>4
  <1>6. Eq(Pushes)
    <2>1. Pushes = CHOOSE h : Eq(h)
      BY DEF Pushes
    <2> HIDE DEF Eq
    <2> QED BY <1>5, <2>1
  <1> DEFINE T == {k \in 0..MaxSamples : Holds(Pushes[k], made + k, taken)}
  <1>7. /\ Pushes[0] = fifo
        /\ \A k \in 1..MaxSamples : Pushes[k] = Push(Pushes[k - 1], made + k)
    <2>1. \A k \in 0..MaxSamples :
            Pushes[k] = IF k = 0 THEN fifo ELSE Push(Pushes[k - 1], made + k)
      <3> DEFINE P == Pushes
      <3>1. P = [k \in 0..MaxSamples |->
                   IF k = 0 THEN fifo ELSE Push(P[k - 1], made + k)]
        BY <1>6
      <3> HIDE DEF P
      <3>2. \A k \in 0..MaxSamples :
              P[k] = IF k = 0 THEN fifo ELSE Push(P[k - 1], made + k)
        BY <3>1
      <3> QED BY <3>2 DEF P
    <2> QED BY <1>1, <2>1
  <1> HIDE DEF Eq
  <1>8. 0 \in T
    <2>1. made + 0 = made
      BY <1>1
    <2> QED BY <1>1, <1>7, <2>1
  <1>9. ASSUME NEW k \in 1..MaxSamples, k - 1 \in T PROVE k \in T
    <2>1. Holds(Pushes[k - 1], made + (k - 1), taken)
      BY <1>9
    <2>2. Holds(Push(Pushes[k - 1], (made + (k - 1)) + 1), (made + (k - 1)) + 1,
                taken)
      BY <2>1, PushHolds
    <2>3. (made + (k - 1)) + 1 = made + k /\ k \in 0..MaxSamples
      BY <1>1
    <2> QED BY <1>7, <2>2, <2>3
  <1> HIDE DEF T
  <1>10. n \in T
    BY <1>1, <1>8, <1>9, UpTo
  <1> QED BY <1>10 DEF T

\* The last sample that has been heard, or the one before.
Newest(heard, before) == IF heard = << >> THEN before ELSE heard[Len(heard)]

LEMMA ReadType ==
  ASSUME NEW f \in Fifos
  PROVE  LET batch == ReadAudio(f, BufferFrames)
             frames == IF f.count < BufferFrames THEN f.count ELSE BufferFrames
         IN /\ frames \in 0..f.count
            /\ batch.fifo \in Fifos /\ batch.heard \in Seq(Int)
            /\ Len(batch.heard) = frames
            /\ batch.fifo.read = Wrap(f.read + frames)
            /\ batch.fifo.count = f.count - frames
            /\ batch.fifo.samples = f.samples
            /\ \A i \in 1..frames : batch.heard[i] = f.samples[Wrap(f.read + (i - 1))]
  <1> DEFINE frames == IF f.count < BufferFrames THEN f.count ELSE BufferFrames
             batch == ReadAudio(f, BufferFrames)
             heard == [i \in 1..frames |-> f.samples[Wrap(f.read + (i - 1))]]
  <1>1. /\ FifoFrames \in Nat /\ FifoFrames >= 1 /\ BufferFrames \in Nat
        /\ f.read \in 0..(FifoFrames - 1) /\ f.count \in 0..FifoFrames
        /\ f.samples \in [0..(FifoFrames - 1) -> Int]
        /\ f = [read |-> f.read, count |-> f.count, samples |-> f.samples]
    BY SoundConstants DEF Fifos
  <1>2. frames \in 0..f.count /\ frames \in 0..FifoFrames /\ frames \in Nat
    BY <1>1
  <1>3. batch.fifo = [f EXCEPT !.read = Wrap(@ + frames), !.count = @ - frames]
    BY DEF ReadAudio, Wrap
  <1>4. /\ batch.fifo.read = Wrap(f.read + frames)
        /\ batch.fifo.count = f.count - frames
        /\ batch.fifo.samples = f.samples
        /\ batch.fifo = [read |-> Wrap(f.read + frames),
                         count |-> f.count - frames, samples |-> f.samples]
    <2> HIDE DEF frames, batch
    <2> QED BY <1>1, <1>3
  <1>5. batch.heard = heard
    <2>1. batch.heard
            = [i \in 1..frames |-> f.samples[(f.read + i - 1) % FifoFrames]]
      BY DEF ReadAudio
    <2>2. \A i \in 1..frames : f.read + i - 1 = f.read + (i - 1)
      BY <1>1, <1>2
    <2> HIDE DEF frames, batch
    <2> QED BY <2>1, <2>2 DEF Wrap
  <1>6. heard \in Seq(Int) /\ Len(heard) = frames
    <2> HIDE DEF frames
    <2>1. \A i \in 1..frames : f.samples[Wrap(f.read + (i - 1))] \in Int
      <3> SUFFICES ASSUME NEW i \in 1..frames
                   PROVE  f.samples[Wrap(f.read + (i - 1))] \in Int
        OBVIOUS
      <3>1. i - 1 \in 0..FifoFrames
        BY <1>1, <1>2
      <3>2. Wrap(f.read + (i - 1)) \in 0..(FifoFrames - 1)
        BY <1>1, <3>1, WrapIs
      <3> QED BY <1>1, <3>2
    <2> QED BY <1>2, <2>1
  <1>7. batch.fifo \in Fifos
    <2> HIDE DEF frames, batch
    <2>1. Wrap(f.read + frames) \in 0..(FifoFrames - 1)
      BY <1>1, <1>2, WrapIs
    <2>2. f.count - frames \in 0..FifoFrames
      BY <1>1, <1>2
    <2> QED BY <1>1, <1>4, <2>1, <2>2 DEF Fifos
  <1> HIDE DEF frames, batch
  <1> QED BY <1>2, <1>4, <1>5, <1>6, <1>7 DEF frames, batch

\* Reading takes the oldest samples and leaves the others.
LEMMA ReadHolds ==
  ASSUME NEW f, NEW mk, NEW tk, Holds(f, mk, tk)
  PROVE  Holds(ReadAudio(f, BufferFrames).fifo, mk,
               Newest(ReadAudio(f, BufferFrames).heard, tk))
  <1> DEFINE frames == IF f.count < BufferFrames THEN f.count ELSE BufferFrames
             g == ReadAudio(f, BufferFrames).fifo
             heard == ReadAudio(f, BufferFrames).heard
             new == Newest(heard, tk)
  <1>1. /\ FifoFrames \in Nat /\ FifoFrames >= 1
        /\ BufferFrames \in Nat /\ BufferFrames >= 1
        /\ f.read \in 0..(FifoFrames - 1) /\ f.count \in 0..FifoFrames
        /\ mk \in Nat /\ tk \in Nat /\ tk <= mk /\ f \in Fifos
        /\ f.count = IF mk - tk < FifoFrames THEN mk - tk ELSE FifoFrames
    BY SoundConstants DEF Holds, Fifos
  <1>2. \A i \in 0..(f.count - 1) :
          f.samples[Wrap(f.read + i)] = mk - f.count + 1 + i
    BY DEF Holds, Wrap
  <1>3. /\ frames \in 0..f.count /\ g \in Fifos /\ heard \in Seq(Int)
        /\ Len(heard) = frames /\ g.read = Wrap(f.read + frames)
        /\ g.count = f.count - frames /\ g.samples = f.samples
        /\ \A i \in 1..frames : heard[i] = f.samples[Wrap(f.read + (i - 1))]
    BY <1>1, ReadType
  <1>4. f.count # 0 => frames # 0
    BY <1>1
  <1> HIDE DEF frames, g, heard
  <1>5. frames \in Int /\ g.count \in Int
    BY <1>1, <1>3
  <1>6. frames # 0 => new = mk - g.count
    <2> SUFFICES ASSUME frames # 0 PROVE new = mk - g.count
      OBVIOUS
    <2>1. frames \in 1..frames /\ frames - 1 \in 0..(f.count - 1) /\ heard # << >>
      BY <1>1, <1>3, <1>5
    <2>2. heard[frames] = mk - f.count + 1 + (frames - 1)
      BY <1>2, <1>3, <2>1
    <2>3. new = heard[frames]
      BY <1>3, <2>1 DEF Newest
    <2>4. mk - f.count + 1 + (frames - 1) = mk - g.count
      BY <1>1, <1>3, <1>5
    <2> QED BY <2>2, <2>3, <2>4
  <1>7. frames = 0 => new = tk
    BY <1>3 DEF Newest
  <1> HIDE DEF new
  <1>8. /\ new \in Nat /\ new <= mk
        /\ g.count = IF mk - new < FifoFrames THEN mk - new ELSE FifoFrames
    <2>1. CASE frames = 0
      BY <1>1, <1>3, <1>4, <1>7, <2>1
    <2>2. CASE frames # 0
      <3>1. g.count < FifoFrames /\ g.count >= 0 /\ g.count <= mk
        BY SMTT(30), <1>1, <1>3, <1>5, <2>2
      <3>2. new = mk - g.count
        BY <1>6, <2>2
      <3> QED BY <1>1, <1>5, <3>1, <3>2
    <2> QED BY <2>1, <2>2
  <1>9. ASSUME NEW i \in 0..(g.count - 1)
        PROVE  g.samples[Wrap(g.read + i)] = mk - g.count + 1 + i
    <2>1. /\ frames + i \in 0..(f.count - 1) /\ frames \in 0..FifoFrames
          /\ i \in Int /\ frames + i \in 0..FifoFrames /\ i \in 0..FifoFrames
      BY <1>1, <1>3, <1>5
    <2>2. f.samples[Wrap(f.read + (frames + i))] = mk - f.count + 1 + (frames + i)
      BY <1>2, <2>1
    <2>3. Wrap(g.read + i) = Wrap(f.read + (frames + i))
      <3> DEFINE r == g.read
      <3>1. /\ r = (IF f.read + frames < FifoFrames THEN f.read + frames
                    ELSE f.read + frames - FifoFrames)
            /\ r \in 0..(FifoFrames - 1)
        BY <1>1, <1>3, <2>1, WrapIs
      <3> HIDE DEF r
      <3>2. Wrap(r + i) = (IF r + i < FifoFrames THEN r + i
                           ELSE r + i - FifoFrames)
        BY <2>1, <3>1, WrapIs
      <3>3. Wrap(f.read + (frames + i)) =
              (IF f.read + (frames + i) < FifoFrames THEN f.read + (frames + i)
               ELSE f.read + (frames + i) - FifoFrames)
        BY <1>1, <2>1, WrapIs
      <3>4. /\ FifoFrames \in Int /\ f.read \in Int /\ frames \in Int
            /\ i \in Int /\ r \in Int /\ 0 <= i /\ 0 <= frames
            /\ f.read + 1 <= FifoFrames /\ frames + i <= FifoFrames /\ 0 <= f.read
            /\ r + 1 <= FifoFrames /\ 0 <= r
        BY <1>1, <2>1, <3>1
      <3>5. CASE f.read + frames < FifoFrames
        <4>1. r + i = f.read + (frames + i)
          BY <3>1, <3>4, <3>5
        <4> QED BY <3>2, <3>3, <3>4, <4>1 DEF r
      <3>6. CASE f.read + frames >= FifoFrames
        <4>1. r + i = f.read + (frames + i) - FifoFrames
          BY <3>1, <3>4, <3>6
        <4>2. r + i < FifoFrames /\ ~(f.read + (frames + i) < FifoFrames)
          BY <3>4, <3>6, <4>1
        <4>3. Wrap(r + i) = r + i
          BY <3>2, <4>2
        <4>4. Wrap(f.read + (frames + i)) = f.read + (frames + i) - FifoFrames
          BY <3>3, <4>2
        <4> QED BY <4>1, <4>3, <4>4 DEF r
      <3> QED BY <3>4, <3>5, <3>6
    <2>4. mk - f.count + 1 + (frames + i) = mk - g.count + 1 + i
      BY <1>1, <1>3, <1>5, <2>1
    <2> QED BY <1>3, <2>2, <2>3, <2>4
  <1>10. \A i \in 0..(g.count - 1) :
           g.samples[(g.read + i) % FifoFrames] = mk - g.count + 1 + i
    BY <1>9 DEF Wrap
  <1>11. Holds(g, mk, new)
    BY <1>1, <1>3, <1>8, <1>10 DEF Holds
  <1> QED BY <1>11 DEF g, new, heard

LEMMA NewestOfBoth ==
  ASSUME NEW a \in Seq(Int), NEW b \in Seq(Int), NEW tk
  PROVE  Newest(a \o b, tk) = Newest(b, Newest(a, tk))
  <1>1. CASE b = << >>
    BY <1>1 DEF Newest
  <1>2. CASE b # << >>
    <2>1. Len(b) \in Nat /\ Len(b) >= 1 /\ Len(a) \in Nat
      BY <1>2
    <2>2. Len(a \o b) = Len(a) + Len(b) /\ a \o b # << >>
      BY <2>1
    <2>3. (a \o b)[Len(a) + Len(b)] = b[Len(b)]
      BY <2>1
    <2> QED BY <1>2, <2>2, <2>3 DEF Newest
  <1> QED BY <1>1, <1>2

\* Drained in batches, the samples still come in order.
LEMMA DrainedHolds ==
  ASSUME NEW f, NEW mk, NEW tk, Holds(f, mk, tk)
  PROVE  LET audio == Drained(f)
         IN /\ Holds(audio.fifo, mk, Newest(audio.heard, tk))
            /\ audio.heard \in Seq(Int)
  <1> DEFINE S == [fifo : Fifos, heard : Seq(Int), more : BOOLEAN]
             first == [fifo |-> f, heard |-> << >>, more |-> TRUE]
             After(done) ==
               LET batch == ReadAudio(done.fifo, BufferFrames)
               IN IF ~done.more THEN done
                  ELSE [fifo |-> batch.fifo, heard |-> done.heard \o batch.heard,
                        more |-> Len(batch.heard) = BufferFrames]
             step == [k \in 1..DrainLimit |-> [v \in S |-> After(v)]]
             Eq(h) == h = [n \in 0..DrainLimit |->
                             IF n = 0 THEN first ELSE After(h[n - 1])]
             In(v) == /\ v \in S
                      /\ Holds(v.fifo, mk, Newest(v.heard, tk))
  <1>1. f \in Fifos /\ DrainLimit \in Nat
    BY SoundConstants DEF Holds
  <1>2. In(first)
    BY <1>1 DEF Newest
  <1>3. ASSUME NEW v \in S PROVE After(v) \in S
    <2> DEFINE batch == ReadAudio(v.fifo, BufferFrames)
    <2>1. v.fifo \in Fifos /\ v.heard \in Seq(Int)
      OBVIOUS
    <2>2. batch.fifo \in Fifos /\ batch.heard \in Seq(Int)
      BY <2>1, ReadType
    <2> HIDE DEF batch
    <2>3. v.heard \o batch.heard \in Seq(Int)
      BY <2>1, <2>2
    <2>4. [fifo |-> batch.fifo, heard |-> v.heard \o batch.heard,
           more |-> Len(batch.heard) = BufferFrames] \in S
      BY <2>2, <2>3
    <2>5. After(v) = IF ~v.more THEN v
                     ELSE [fifo |-> batch.fifo, heard |-> v.heard \o batch.heard,
                           more |-> Len(batch.heard) = BufferFrames]
      BY DEF batch
    <2> HIDE DEF After, S
    <2> QED BY <2>4, <2>5
  <1>4. ASSUME NEW v, In(v) PROVE In(After(v))
    <2> DEFINE batch == ReadAudio(v.fifo, BufferFrames)
               w == [fifo |-> batch.fifo, heard |-> v.heard \o batch.heard,
                     more |-> Len(batch.heard) = BufferFrames]
    <2>1. v \in S /\ Holds(v.fifo, mk, Newest(v.heard, tk)) /\ After(v) \in S
      BY <1>3, <1>4
    <2>2. After(v) = IF ~v.more THEN v ELSE w
      OBVIOUS
    <2>3. /\ v.fifo \in Fifos /\ v.heard \in Seq(Int)
      BY <2>1
    <2>4. Holds(batch.fifo, mk, Newest(batch.heard, Newest(v.heard, tk)))
      BY <2>1, ReadHolds
    <2>5. batch.heard \in Seq(Int)
      BY <2>3, ReadType
    <2>6. w.fifo = batch.fifo /\ w.heard = v.heard \o batch.heard
      OBVIOUS
    <2> HIDE DEF batch
    <2>7. Newest(w.heard, tk) = Newest(batch.heard, Newest(v.heard, tk))
      BY <2>3, <2>5, <2>6, NewestOfBoth
    <2> HIDE DEF w
    <2>8. Holds(w.fifo, mk, Newest(w.heard, tk))
      BY <2>4, <2>6, <2>7
    <2> HIDE DEF After
    <2> QED BY <2>1, <2>2, <2>8
  <1>5. PICK g \in [0..DrainLimit -> S] :
          g[0] = first /\ \A k \in 1..DrainLimit : g[k] = step[k][g[k - 1]]
    <2>1. first \in S /\ step \in [1..DrainLimit -> [S -> S]]
      <3> HIDE DEF S, After
      <3> QED BY <1>2, <1>3
    <2> DEFINE N == DrainLimit
    <2>2. first \in S /\ N \in Nat /\ step \in [1..N -> [S -> S]]
      BY <1>1, <2>1
    <2> HIDE DEF N, S, first, step
    <2>3. \E g \in [0..N -> S] :
            g[0] = first /\ \A k \in 1..N : g[k] = step[k][g[k - 1]]
      BY <2>2, Iterates
    <2> QED BY <2>3 DEF N
  <1>6. Eq(g)
    <2> HIDE DEF S, first, After
    <2>1. ASSUME NEW k \in 1..DrainLimit PROVE g[k] = After(g[k - 1])
      <3>1. k - 1 \in 0..DrainLimit
        BY <1>1
      <3>2. step[k][g[k - 1]] = After(g[k - 1])
        BY <1>5, <3>1
      <3> QED BY <1>5, <3>2
    <2> DEFINE F == [k \in 0..DrainLimit |->
                       IF k = 0 THEN first ELSE After(g[k - 1])]
    <2>2. \A k \in 0..DrainLimit : g[k] = F[k]
      BY <1>1, <1>5, <2>1
    <2>3. /\ g = [k \in 0..DrainLimit |-> g[k]]
          /\ F = [k \in 0..DrainLimit |-> F[k]]
      OBVIOUS
    <2>4. g = F
      <3> HIDE DEF F
      <3> QED BY <2>2, <2>3
    <2> QED BY <2>4
  <1> DEFINE pass == CHOOSE h : Eq(h)
  <1>7. Drained(f) = pass[DrainLimit]
    BY DEF Drained
  <1>8. Eq(pass)
    <2> HIDE DEF Eq
    <2> QED BY <1>6
  <1> HIDE DEF pass, After, In
  <1>9. \A k \in 0..DrainLimit :
          pass[k] = IF k = 0 THEN first ELSE After(pass[k - 1])
    BY <1>8
  <1> HIDE DEF Eq, S, first
  <1> DEFINE T == {k \in 0..DrainLimit : In(pass[k])}
  <1>10. 0 \in T
    BY <1>1, <1>2, <1>9
  <1>11. ASSUME NEW k \in 1..DrainLimit, k - 1 \in T PROVE k \in T
    <2>1. k \in 0..DrainLimit /\ k # 0 /\ In(pass[k - 1])
      BY <1>11
    <2>2. pass[k] = After(pass[k - 1])
      BY <1>9, <2>1
    <2> QED BY <1>4, <2>1, <2>2
  <1>12. DrainLimit \in T
    <2> HIDE DEF T
    <2>1. \A k \in 1..DrainLimit : k - 1 \in T => k \in T
      BY <1>11
    <2>2. \A k \in 0..DrainLimit : k \in T
      BY <1>1, <1>10, <2>1, UpTo
    <2> QED BY <1>1, <2>2
  <1>13. In(pass[DrainLimit])
    BY <1>12
  <1> QED BY <1>7, <1>13 DEF In, S

-----------------------------------------------------------------------------
(* Sound, whatever the frontend calls.                                     *)

SoundInv == Holds(fifo, made, taken) /\ made <= MaxSamples

LEMMA FreshHolds ==
  ASSUME NEW f \in Fifos, NEW mk \in Nat, f.count = 0
  PROVE  Holds(f, mk, mk)
  BY SoundConstants DEF Holds

LEMMA EmptyIsFifo == EmptyFifo \in Fifos /\ EmptyFifo.count = 0
  <1>1. [i \in 0 .. FifoFrames - 1 |-> 0] \in [0..(FifoFrames - 1) -> Int]
    OBVIOUS
  <1> QED BY <1>1, SoundConstants DEF EmptyFifo, Fifos

LEMMA SoundInit == OutputInit => SoundInv
  BY EmptyIsFifo, FreshHolds, SoundConstants DEF OutputInit, SoundInv

\* The samples of a frame.
LEMMA SamplesFit ==
  ASSUME SoundInv, NEW gb, NEW n \in Samples(gb)
  PROVE  /\ n \in 0..MaxSamples /\ made + n <= MaxSamples
         /\ Holds(Pushes[n], made + n, taken)
  <1>1. made \in Nat /\ MaxSamples \in Nat /\ made <= MaxSamples
    BY SoundConstants DEF SoundInv, Holds
  <1>2. n \in 0..MaxSamples /\ made + n <= MaxSamples
    BY <1>1 DEF Samples
  <1> QED BY <1>2, PushesHold DEF SoundInv

LEMMA SoundKept == SoundInv /\ [Next]_vars => SoundInv'
  <1> SUFFICES ASSUME SoundInv, [Next]_vars PROVE SoundInv'
    OBVIOUS
  <1>1. CASE UNCHANGED soundVars
    BY <1>1 DEF soundVars, SoundInv
  <1>2. CASE DropOutput
    <2>1. fifo' = EmptyFifo /\ made' = 0 /\ taken' = 0
      BY <1>2 DEF DropOutput
    <2> QED BY <2>1, EmptyIsFifo, FreshHolds, SoundConstants DEF SoundInv
  <1>3. CASE SoundDropped /\ UNCHANGED made
    <2> DEFINE f == [fifo EXCEPT !.read = 0, !.count = 0]
    <2>1. fifo \in Fifos /\ made \in Nat
      BY DEF SoundInv, Holds
    <2>2. f \in Fifos /\ f.count = 0
      <3>1. /\ fifo.samples \in [0..(FifoFrames - 1) -> Int]
            /\ fifo = [read |-> fifo.read, count |-> fifo.count,
                       samples |-> fifo.samples]
        BY <2>1 DEF Fifos
      <3>4. f = [fifo EXCEPT !.read = 0, !.count = 0]
        OBVIOUS
      <3> HIDE DEF f
      <3>2. f = [read |-> 0, count |-> 0, samples |-> fifo.samples]
        BY <3>1, <3>4
      <3>3. 0 \in 0..(FifoFrames - 1) /\ 0 \in 0..FifoFrames
        BY SoundConstants
      <3> QED BY <3>1, <3>2, <3>3 DEF Fifos
    <2>3. fifo' = f /\ taken' = made /\ made' = made
      BY <1>3 DEF SoundDropped
    <2> HIDE DEF f
    <2> QED BY <2>1, <2>2, <2>3, FreshHolds DEF SoundInv
  <1>4. CASE FrameFails(NDSLoaded, GBLoaded)
    <2>1. PICK n \in Samples(GBLoaded) : fifo' = Pushes[n] /\ made' = made + n
      BY <1>4 DEF FrameFails
    <2>2. taken' = taken
      BY <1>4 DEF FrameFails
    <2> QED BY <2>1, <2>2, SamplesFit DEF SoundInv
  <1>5. CASE FrameDone(NDSLoaded, GBLoaded)
    <2>1. PICK n \in Samples(GBLoaded) :
            /\ made' = made + n /\ fifo' = Drained(Pushes[n]).fifo
            /\ taken' = IF Drained(Pushes[n]).heard = << >> THEN taken
                        ELSE Drained(Pushes[n]).heard[Len(Drained(Pushes[n]).heard)]
      BY <1>5 DEF FrameDone
    <2>2. Holds(Pushes[n], made + n, taken) /\ made + n <= MaxSamples
      BY SamplesFit
    <2>3. Holds(Drained(Pushes[n]).fifo, made + n,
                Newest(Drained(Pushes[n]).heard, taken))
      BY <2>2, DrainedHolds
    <2> QED BY <2>1, <2>2, <2>3 DEF SoundInv, Newest
  <1>6. \/ UNCHANGED soundVars \/ DropOutput \/ (SoundDropped /\ UNCHANGED made)
        \/ FrameFails(NDSLoaded, GBLoaded) \/ FrameDone(NDSLoaded, GBLoaded)
    <2>1. CASE UNCHANGED vars
      BY <2>1 DEF vars, outputVars
    <2>2. CASE StartLoad \/ EndSession
      BY <2>2 DEF StartLoad, EndSession
    <2>3. CASE ContinueLoad \/ EndLoad
      BY <2>3 DEF ContinueLoad, EndLoad, outputVars, OpenOutput
    <2>4. CASE Run
      BY <2>4 DEF Run, StartRun, EndRun, PollInputs
    <2>5. CASE Reset \/ Restore
      BY <2>5 DEF Reset, Restore, ResetOutput, RestoreOutput
    <2> QED BY <2>1, <2>2, <2>3, <2>4, <2>5 DEF Next
  <1> QED BY <1>1, <1>2, <1>3, <1>4, <1>5, <1>6

\* The queue of sound holds the newest samples in their order, each once, for
\* queues and batches of any size, and however many samples a frame makes.
THEOREM SoundStaysInOrder == Spec => []SoundInOrder
  <1>1. SoundInv => SoundInOrder
    BY DEF SoundInv, Holds, SoundInOrder
  <1>2. Init => SoundInv
    BY SoundInit DEF Init
  <1>3. Spec => []SoundInv
    BY <1>2, SoundKept, PTL DEF Spec
  <1> QED BY <1>1, <1>3, PTL

-----------------------------------------------------------------------------
(* The picture.                                                            *)

Sizes == (Nat \ {0}) \X (Nat \ {0})

LEMMA ScreenConstants ==
  /\ ScreenWidth \in Nat /\ ScreenWidth >= 1
  /\ ScreenHeight \in Nat /\ ScreenHeight >= 1
  /\ OtherWidth \in Nat /\ OtherWidth >= 1
  /\ OtherHeight \in Nat /\ OtherHeight >= 1
  /\ Scale \in Nat /\ Scale >= 1
  BY ScreenAssumption

LEMMA SizeFacts ==
  ASSUME NEW nds
  PROVE  /\ FrameSize(nds) \in Sizes
         /\ nds => FrameSize(nds) = <<ScreenWidth, 2 * ScreenHeight>>
  BY ScreenConstants DEF FrameSize, Sizes

LEMMA GeometrySize ==
  ASSUME NEW d, NEW size \in Sizes
  PROVE  /\ Geometry(d, size) \in Sizes
         /\ d.mode # "dual" => Geometry(d, size) = size
         /\ d.mode = "dual" /\ d.layout = "top" =>
              Geometry(d, size) = <<size[1], 2 * size[2]>>
         /\ d.mode = "dual" /\ d.layout # "top" =>
              Geometry(d, size) = <<2 * size[1], size[2]>>
  BY DEF Geometry, Sizes

\* Row by row, the compositor shows at each point the pixel that the point maps
\* to.
LEMMA ComposeShows ==
  ASSUME NEW d, NEW size \in Sizes, NEW p \in Points(Geometry(d, size))
  PROVE  Compose(d, size).pixels[p] = MapPoint(p, d, size)
  <1> DEFINE first == MachineForScreen(0, d)
             second == MachineForScreen(1, d)
             row(y) ==
               IF d.mode # "dual" THEN [m |-> Selected(d), y |-> y]
               ELSE IF d.layout = "top" /\ y >= size[2]
               THEN [m |-> second, y |-> y - size[2]]
               ELSE [m |-> first, y |-> y]
             at(x, y) ==
               IF d.mode = "dual" /\ d.layout # "top" /\ x >= size[1]
               THEN <<second, Row(second, size[1], size)[x][2], y>>
               ELSE <<row(y).m, Row(row(y).m, 0, size)[x][2], row(y).y>>
             x == p[1]
             y == p[2]
             w == size[1]
             h == size[2]
  <1>1. Compose(d, size).pixels[p] = at(x, y)
    BY DEF Compose
  <1>2. w \in Nat /\ w >= 1 /\ h \in Nat /\ h >= 1
    BY DEF Sizes
  <1>3. /\ x \in Int /\ 0 <= x /\ y \in Int /\ 0 <= y
        /\ d.mode = "dual" /\ d.layout # "top" => x < 2 * w
        /\ ~(d.mode = "dual" /\ d.layout # "top") => x < w
    BY <1>2, GeometrySize DEF Points
  <1>4. ASSUME NEW m, NEW x0 \in Int, x0 <= x, x < x0 + w
        PROVE  Row(m, x0, size)[x][2] = x - x0
    <2>1. x \in x0 .. x0 + w - 1
      BY <1>2, <1>3, <1>4
    <2> QED BY <2>1 DEF Row
  <1>5. CASE d.mode = "dual" /\ d.layout # "top" /\ x >= w
    <2>1. Row(second, w, size)[x][2] = x - w
      BY <1>2, <1>3, <1>4, <1>5
    <2>2. at(x, y) = <<second, x - w, y>>
      BY <1>5, <2>1
    <2>3. MapPoint(p, d, size) = <<second, x - w, y>>
      BY <1>5 DEF MapPoint
    <2> QED BY <1>1, <2>2, <2>3
  <1>6. CASE ~(d.mode = "dual" /\ d.layout # "top" /\ x >= w)
    <2>1. x < w
      BY <1>2, <1>3, <1>6
    <2>2. Row(row(y).m, 0, size)[x][2] = x
      BY <1>2, <1>3, <1>4, <2>1
    <2>3. at(x, y) = <<row(y).m, x, row(y).y>>
      <3> HIDE DEF row
      <3> QED BY <1>6, <2>2
    <2>4. CASE d.mode # "dual"
      BY <1>1, <2>3, <2>4 DEF MapPoint
    <2>5. CASE d.mode = "dual" /\ d.layout = "top" /\ y >= h
      BY <1>1, <2>3, <2>5 DEF MapPoint
    <2>6. CASE d.mode = "dual" /\ ~(d.layout = "top" /\ y >= h)
      BY <1>1, <1>6, <2>3, <2>6 DEF MapPoint
    <2> QED BY <2>4, <2>5, <2>6
  <1> QED BY <1>5, <1>6

LEMMA ComposeSize ==
  ASSUME NEW d, NEW size \in Sizes
  PROVE  /\ Compose(d, size).size = Geometry(d, size)
         /\ Compose(d, size).size \in Sizes
         /\ Compose(d, size) # NoPicture
         /\ Compose(d, size).size # NoPoint
  <1>1. Compose(d, size).size = Geometry(d, size)
    BY DEF Compose
  <1>2. Geometry(d, size) \in Sizes
    BY GeometrySize
  <1> QED BY <1>1, <1>2 DEF Sizes, NoPicture, NoPoint

\* A point where a pixel is shown maps back to the pixel.
LEMMA ProjectedBack ==
  ASSUME NEW d, NEW size \in Sizes, NEW m \in Consoles,
         NEW x \in 0..(size[1] - 1), NEW y \in 0..(size[2] - 1),
         ProjectPoint(m, <<x, y>>, d, size) # NoPoint
  PROVE  /\ ProjectPoint(m, <<x, y>>, d, size) \in Points(Geometry(d, size))
         /\ MapPoint(ProjectPoint(m, <<x, y>>, d, size), d, size) = <<m, x, y>>
  <1> DEFINE p == ProjectPoint(m, <<x, y>>, d, size)
             w == size[1]
             h == size[2]
  <1>1. w \in Nat /\ w >= 1 /\ h \in Nat /\ h >= 1
    BY DEF Sizes
  <1>2. x \in Int /\ 0 <= x /\ x < w /\ y \in Int /\ 0 <= y /\ y < h
    BY <1>1
  <1>3. CASE d.mode # "dual"
    <2>1. p = <<x, y>> /\ m = Selected(d)
      BY <1>3 DEF ProjectPoint
    <2> QED BY <1>1, <1>2, <1>3, <2>1, GeometrySize DEF Points, MapPoint
  <1>4. CASE d.mode = "dual" /\ ScreenForMachine(m, d) = 0
    <2>1. p = <<x, y>> /\ MachineForScreen(0, d) = m
      BY <1>4 DEF ProjectPoint, ScreenForMachine, MachineForScreen, Consoles
    <2> QED BY <1>1, <1>2, <1>4, <2>1, GeometrySize DEF Points, MapPoint
  <1>5. CASE d.mode = "dual" /\ ScreenForMachine(m, d) # 0 /\ d.layout = "top"
    <2>1. p = <<x, y + h>> /\ MachineForScreen(1, d) = m
      BY <1>5 DEF ProjectPoint, ScreenForMachine, MachineForScreen, Consoles
    <2> QED BY <1>1, <1>2, <1>5, <2>1, GeometrySize DEF Points, MapPoint
  <1>6. CASE d.mode = "dual" /\ ScreenForMachine(m, d) # 0 /\ d.layout # "top"
    <2>1. p = <<x + w, y>> /\ MachineForScreen(1, d) = m
      BY <1>6 DEF ProjectPoint, ScreenForMachine, MachineForScreen, Consoles
    <2> QED BY <1>1, <1>2, <1>6, <2>1, GeometrySize DEF Points, MapPoint
  <1> QED BY <1>3, <1>4, <1>5, <1>6

\* A coordinate that the frontend reports falls within the extent.
LEMMA ScaledFits ==
  ASSUME NEW c \in 0..(Scale - 1), NEW extent \in Nat \ {0}
  PROVE  Scaled(c, extent) \in 0..(extent - 1)
  <1>1. CASE extent = 1
    BY <1>1 DEF Scaled
  <1>2. CASE extent # 1
    <2> DEFINE n == c * extent
               q == n \div Scale
               r == n % Scale
    <2>1. Scale \in Nat /\ Scale >= 1 /\ c \in Nat /\ n \in Nat
      BY ScreenConstants
    <2>2. Scaled(c, extent) = q
      BY <1>2 DEF Scaled
    <2>3. n = Scale * q + r /\ q \in Int /\ r \in 0..(Scale - 1)
      <3> HIDE DEF n
      <3> QED BY <2>1
    <2> HIDE DEF q, r
    <2>4. n <= (Scale - 1) * extent /\ (Scale - 1) * extent = Scale * extent - extent
      BY <2>1
    <2>5. q <= -1 => Scale * q <= -Scale
      BY <2>1, <2>3
    <2>6. q >= extent => Scale * q >= Scale * extent
      BY <2>1, <2>3
    <2> DEFINE a == Scale * q
               b == Scale * extent
    <2>7. a \in Int /\ b \in Int
      BY <2>1, <2>3
    <2> HIDE DEF a, b, n
    <2>8. 0 <= q
      BY <2>1, <2>3, <2>5, <2>7 DEF a
    <2>9. q < extent
      BY <2>1, <2>3, <2>4, <2>6, <2>7 DEF a, b
    <2> QED BY <2>2, <2>3, <2>8, <2>9
  <1> QED BY <1>1, <1>2

\* What a frontend may report.
Square == (0 .. Scale - 1) \X (0 .. Scale - 1)

LEMMA ReportsInSquare ==
  /\ \A contacts \in Contacts : contacts \in Seq(Square)
  /\ \A c \in Consoles : \A s \in Sticks[c] : s.at \in Square
  BY ScreenAssumption DEF Square

LEMMA ScaledPointFits ==
  ASSUME NEW p \in Square, NEW size \in Sizes
  PROVE  ScaledPoint(p, size) \in Points(size)
  <1>1. p[1] \in 0..(Scale - 1) /\ p[2] \in 0..(Scale - 1)
          /\ size[1] \in Nat \ {0} /\ size[2] \in Nat \ {0}
    BY DEF Sizes, Square
  <1>2. Scaled(p[1], size[1]) \in 0..(size[1] - 1)
          /\ Scaled(p[2], size[2]) \in 0..(size[2] - 1)
    BY <1>1, ScaledFits
  <1> QED BY <1>2 DEF ScaledPoint, Points

\* The contact that counts lies on the picture, on the touch screen of m.
LEMMA LandedFits ==
  ASSUME NEW contacts \in Seq(Square),
         NEW m, NEW d, NEW size \in Sizes, Landed(contacts, m, d, size) # NoPoint
  PROVE  LET p == Landed(contacts, m, d, size)
         IN /\ p \in Points(Geometry(d, size))
            /\ MapPoint(p, d, size)[1] = m
  <1> DEFINE point(i) == ScaledPoint(contacts[i], Geometry(d, size))
             lands(i) == LET pixel == MapPoint(point(i), d, size)
                         IN pixel[1] = m /\ pixel[3] >= ScreenHeight
             hits == {i \in 1 .. Len(contacts) : lands(i)}
             first == CHOOSE i \in hits : \A j \in hits : i <= j
  <1>1. Landed(contacts, m, d, size) = IF hits = {} THEN NoPoint ELSE point(first)
    BY DEF Landed
  <1>2. hits # {} /\ Landed(contacts, m, d, size) = point(first)
    BY <1>1
  <1>3. hits \subseteq Nat
    OBVIOUS
  <1>4. first \in hits
    <2> HIDE DEF hits
    <2>1. \E i \in hits : \A j \in hits : i <= j
      BY <1>2, <1>3, Smallest
    <2> QED BY <2>1
  <1> HIDE DEF first
  <1>5. first \in 1..Len(contacts) /\ MapPoint(point(first), d, size)[1] = m
    BY <1>4
  <1>6. point(first) \in Points(Geometry(d, size))
    <2>1. contacts[first] \in Square
      BY <1>5
    <2>2. Geometry(d, size) \in Sizes
      BY GeometrySize
    <2> QED BY <2>1, <2>2, ScaledPointFits
  <1> HIDE DEF point, hits
  <1> QED BY <1>2, <1>5, <1>6

-----------------------------------------------------------------------------
(* Touch and picture agree.                                                *)

Size == FrameSize(NDSLoaded)
Shown == video # NoVideo

\* Nothing is shown or touched before a session is loaded.
BlankInv ==
  ~session.loaded \/ InCall =>
    /\ composite = NoPicture /\ video = NoVideo /\ ~running
    /\ finger = NoTouch /\ touch = NoTouch

\* The picture and the geometry that the frontend was told.
PictureInv ==
  /\ last = NoPoint \/ last = announced
  /\ composite # NoPicture =>
       composite = Compose(display, Size) /\ announced = composite.size
  /\ Shown => composite # NoPicture /\ video.picture = composite

\* A finger touches the pixel under it, by the options of the last inputs.
FingerInv ==
  \A c \in Consoles : finger[c] # NoPoint =>
    /\ finger[c] \in Points(Geometry(option, Size))
    /\ MapPoint(finger[c], option, Size)[1] = c
    /\ touch[c] = TouchOf(finger[c], option, Size)

TouchSpace == (0 .. ScreenWidth - 1) \X (0 .. ScreenHeight - 1)

\* While the frame runs, a stick touches where its cursor is; afterwards the
\* cursor that is shown is the projection of that point.
StickInv ==
  /\ running => \A c \in Consoles :
       NDSLoaded /\ finger[c] = NoPoint /\ touch[c] # NoPoint =>
         cursor[c].at = touch[c] /\ touch[c] \in TouchSpace
  /\ Shown /\ ~running => \A c \in Consoles :
       video.cursors[c] # NoPoint /\ touch[c] # NoPoint =>
         /\ NDSLoaded /\ touch[c] \in TouchSpace
         /\ video.cursors[c] =
              ProjectPoint(c, <<touch[c][1], ScreenHeight + touch[c][2]>>,
                           display, Size)

ScreenInv == BlankInv /\ PictureInv /\ FingerInv /\ StickInv

LEMMA ScreenInvAgrees == ScreenInv => ScreenAgrees
  <1> SUFFICES ASSUME ScreenInv, video # NoVideo, ~running
               PROVE  /\ video.picture.size = announced
                      /\ \A c \in Consoles :
                           /\ finger[c] # NoPoint /\ display = option =>
                                video.picture.pixels[finger[c]] =
                                  <<c, touch[c][1], ScreenHeight + touch[c][2]>>
                           /\ video.cursors[c] # NoPoint /\ touch[c] # NoPoint =>
                                video.picture.pixels[video.cursors[c]] =
                                  <<c, touch[c][1], ScreenHeight + touch[c][2]>>
    BY DEF ScreenAgrees
  <1>1. /\ Size \in Sizes /\ video.picture = Compose(display, Size)
        /\ video.picture.size = announced
    BY SizeFacts DEF ScreenInv, PictureInv, Shown, Size
  <1>2. ASSUME NEW c \in Consoles, finger[c] # NoPoint, display = option
        PROVE  video.picture.pixels[finger[c]] =
                 <<c, touch[c][1], ScreenHeight + touch[c][2]>>
    <2> DEFINE pixel == MapPoint(finger[c], option, Size)
    <2>1. /\ finger[c] \in Points(Geometry(option, Size)) /\ pixel[1] = c
          /\ touch[c] = TouchOf(finger[c], option, Size)
      BY <1>2 DEF ScreenInv, FingerInv
    <2>2. video.picture.pixels[finger[c]] = pixel
      BY <1>1, <1>2, <2>1, ComposeShows
    <2>3. touch[c] = <<pixel[2], pixel[3] - ScreenHeight>>
      BY <2>1 DEF TouchOf
    <2>4. pixel = <<pixel[1], pixel[2], pixel[3]>> /\ pixel[3] \in Int
      <3>1. finger[c][2] \in Int /\ Size[2] \in Int
        <4>1. Geometry(option, Size)[2] \in Int
          BY <1>1, GeometrySize DEF Sizes
        <4> QED BY <1>1, <2>1, <4>1 DEF Points, Sizes
      <3> QED BY <3>1 DEF MapPoint
    <2> HIDE DEF pixel
    <2>5. ScreenHeight + (pixel[3] - ScreenHeight) = pixel[3]
      BY <2>4, ScreenConstants
    <2> QED BY <2>1, <2>2, <2>3, <2>4, <2>5
  <1>3. ASSUME NEW c \in Consoles, video.cursors[c] # NoPoint, touch[c] # NoPoint
        PROVE  video.picture.pixels[video.cursors[c]] =
                 <<c, touch[c][1], ScreenHeight + touch[c][2]>>
    <2> DEFINE x == touch[c][1]
               y == ScreenHeight + touch[c][2]
               p == ProjectPoint(c, <<x, y>>, display, Size)
    <2>1. NDSLoaded /\ touch[c] \in TouchSpace /\ video.cursors[c] = p
      BY <1>3 DEF ScreenInv, StickInv, Shown
    <2>2. Size = <<ScreenWidth, 2 * ScreenHeight>>
      BY <2>1, SizeFacts DEF Size
    <2>3. x \in 0..(Size[1] - 1) /\ y \in 0..(Size[2] - 1)
      BY <2>1, <2>2, ScreenConstants DEF TouchSpace
    <2> HIDE DEF x, y
    <2>4. p \in Points(Geometry(display, Size))
            /\ MapPoint(p, display, Size) = <<c, x, y>>
      BY <1>1, <1>3, <2>1, <2>3, ProjectedBack
    <2> HIDE DEF p
    <2>5. video.picture.pixels[video.cursors[c]] = <<c, x, y>>
      BY <1>1, <2>1, <2>4, ComposeShows
    <2> QED BY <2>5 DEF x, y
  <1> QED BY <1>1, <1>2, <1>3

HasPlace(c) == "at" \in DOMAIN c

LEMMA WaitedStays ==
  ASSUME NEW c, HasPlace(c), NEW t
  PROVE  Waited(c, t).at = c.at /\ HasPlace(Waited(c, t))
  BY DEF Waited, HasPlace

\* An update puts the cursor where the stick points.
LEMMA UpdatePlaces ==
  ASSUME NEW c, HasPlace(c), NEW p, NEW pressed, NEW t
  PROVE  CursorUpdate(c, p, pressed, t).at = p
           /\ HasPlace(CursorUpdate(c, p, pressed, t))
  <1> DEFINE active == Activity(c, p, pressed)
             moved == [c EXCEPT !.sampled = TRUE, !.at = p, !.pressed = pressed,
                         !.activity = IF active \/ ~c.sampled THEN p ELSE @]
             woken == [moved EXCEPT !.visible = TRUE,
                         !.using_clock = (t # NoClock),
                         !.inactive = 0, !.elapsed = 0]
  <1>1. moved.at = p /\ HasPlace(moved)
    BY DEF HasPlace
  <1>2. CursorUpdate(c, p, pressed, t) = IF active THEN woken ELSE Waited(moved, t)
    BY DEF CursorUpdate
  <1> HIDE DEF moved
  <1>3. woken.at = p /\ HasPlace(woken)
    BY <1>1 DEF HasPlace
  <1>4. Waited(moved, t).at = p /\ HasPlace(Waited(moved, t))
    BY <1>1, WaitedStays
  <1> HIDE DEF woken
  <1> QED BY <1>2, <1>3, <1>4

CursorInv == cursor \in [Consoles -> {cursor[c] : c \in Consoles}]
               /\ \A c \in Consoles : HasPlace(cursor[c])

LEMMA NoCursorPlace == HasPlace(NoCursor)
  BY DEF HasPlace, NoCursor

\* The inputs of a frame: each touch comes from a finger on the picture or from
\* the stick, whose cursor is there.
LEMMA PollTouches ==
  ASSUME ScreenInv, CursorInv, Ready, PollInputs(NDSLoaded), Size' = Size,
         NDSLoaded' = NDSLoaded
  PROVE  /\ FingerInv' /\ CursorInv'
         /\ \A c \in Consoles :
              NDSLoaded /\ finger'[c] = NoPoint /\ touch'[c] # NoPoint =>
                cursor'[c].at = touch'[c] /\ touch'[c] \in TouchSpace
  <1> DEFINE nds == NDSLoaded
  <1> PICK d \in Displays, t \in ClockInputs(nds),
           contacts \in ContactInputs(nds), s \in StickInputs(nds) :
        /\ option' = d
        /\ cursor' = [c \in Consoles |-> CursorAfter(cursor[c], s[c], nds, t)]
        /\ finger' = [c \in Consoles |-> Landed(contacts, c, d, FrameSize(nds))]
        /\ touch' = [c \in Consoles |->
             IF Landed(contacts, c, d, FrameSize(nds)) # NoPoint
             THEN TouchOf(Landed(contacts, c, d, FrameSize(nds)), d, FrameSize(nds))
             ELSE StickTouch(CursorAfter(cursor[c], s[c], nds, t), s[c], nds)]
    BY DEF PollInputs
  <1>1. contacts \in Seq(Square)
    <2>1. contacts \in Contacts \/ contacts = << >>
      BY DEF ContactInputs
    <2>2. << >> \in Seq(Square)
      OBVIOUS
    <2> QED BY <2>1, <2>2, ReportsInSquare
  <1>2. Size \in Sizes /\ Size = FrameSize(nds)
    BY SizeFacts DEF Size
  <1> DEFINE landed(c) == Landed(contacts, c, d, Size)
             after(c) == CursorAfter(cursor[c], s[c], nds, t)
  <1>3. ASSUME NEW c \in Consoles
        PROVE  /\ finger'[c] = landed(c) /\ cursor'[c] = after(c)
               /\ touch'[c] = IF landed(c) # NoPoint
                              THEN TouchOf(landed(c), d, Size)
                              ELSE StickTouch(after(c), s[c], nds)
    BY <1>2
  <1>4. ASSUME NEW c \in Consoles PROVE HasPlace(cursor[c])
    BY DEF CursorInv
  <1>5. ASSUME NEW c \in Consoles
        PROVE  /\ HasPlace(after(c))
               /\ nds /\ s[c].on => after(c).at = ScaledPoint(s[c].at, Screen)
    BY <1>4, UpdatePlaces, NoCursorPlace DEF CursorAfter
  <1> HIDE DEF landed, after, nds
  <1>6. FingerInv'
    <2> SUFFICES ASSUME NEW c \in Consoles, finger'[c] # NoPoint
                 PROVE  /\ finger'[c] \in Points(Geometry(option', Size'))
                        /\ MapPoint(finger'[c], option', Size')[1] = c
                        /\ touch'[c] = TouchOf(finger'[c], option', Size')
      BY DEF FingerInv
    <2>1. landed(c) # NoPoint /\ finger'[c] = landed(c)
            /\ touch'[c] = TouchOf(landed(c), d, Size)
      BY <1>3
    <2>2. /\ landed(c) \in Points(Geometry(d, Size))
          /\ MapPoint(landed(c), d, Size)[1] = c
      <3>1. landed(c) = Landed(contacts, c, d, Size)
        BY DEF landed
      <3>2. Landed(contacts, c, d, Size) # NoPoint
        BY <2>1, <3>1
      <3>3. /\ Landed(contacts, c, d, Size) \in Points(Geometry(d, Size))
            /\ MapPoint(Landed(contacts, c, d, Size), d, Size)[1] = c
        BY <1>1, <1>2, <3>2, LandedFits
      <3> QED BY <3>1, <3>3
    <2> QED BY <2>1, <2>2
  <1>7. CursorInv'
    <2>1. cursor' = [c \in Consoles |-> cursor'[c]]
      OBVIOUS
    <2>2. \A c \in Consoles : HasPlace(cursor'[c])
      BY <1>3, <1>5
    <2> QED BY <2>1, <2>2 DEF CursorInv
  <1>8. ASSUME NEW c \in Consoles, NDSLoaded, finger'[c] = NoPoint,
               touch'[c] # NoPoint
        PROVE  cursor'[c].at = touch'[c] /\ touch'[c] \in TouchSpace
    <2>1. touch'[c] = StickTouch(after(c), s[c], nds)
      BY <1>3, <1>8
    <2>2. nds /\ s[c].on /\ touch'[c] = ScaledPoint(s[c].at, Screen)
      BY <1>8, <2>1 DEF StickTouch
    <2>3. s[c] \in Sticks[c]
      BY <2>2 DEF StickInputs
    <2>4. s[c].at \in Square
      BY <2>3, ReportsInSquare
    <2>5. Screen \in Sizes /\ Points(Screen) = TouchSpace
      BY ScreenConstants DEF Screen, Sizes, Points, TouchSpace
    <2> QED BY <1>3, <1>5, <2>2, <2>4, <2>5, ScaledPointFits
  <1> QED BY <1>6, <1>7, <1>8

\* What is published shows the cursors where they touch.
LEMMA PublishedShows ==
  ASSUME running, StickInv, NEW picture, picture # NoPicture, NEW d,
         NEW c \in Consoles,
         Published(picture, d, NDSLoaded).cursors[c] # NoPoint,
         touch[c] # NoPoint
  PROVE  /\ NDSLoaded /\ touch[c] \in TouchSpace
         /\ Published(picture, d, NDSLoaded).cursors[c] =
              ProjectPoint(c, <<touch[c][1], ScreenHeight + touch[c][2]>>, d, Size)
  <1> DEFINE nds == NDSLoaded
             shown == ProjectPoint(c, <<cursor[c].at[1],
                                        ScreenHeight + cursor[c].at[2]>>,
                                   d, FrameSize(nds))
  <1>1. Published(picture, d, nds).cursors[c] =
          IF nds /\ cursor[c].visible /\ finger[c] = NoPoint THEN shown ELSE NoPoint
    BY DEF Published
  <1>2. /\ nds /\ finger[c] = NoPoint
        /\ Published(picture, d, nds).cursors[c] = shown
    BY <1>1
  <1>3. cursor[c].at = touch[c] /\ touch[c] \in TouchSpace
    BY <1>2 DEF StickInv
  <1> QED BY <1>2, <1>3 DEF Size

LEMMA PublishedPicture ==
  ASSUME NEW picture, picture # NoPicture, NEW d, NEW nds
  PROVE  Published(picture, d, nds).picture = picture
           /\ Published(picture, d, nds) # NoVideo
  BY DEF Published, NoVideo

\* Between sessions and while one is loaded there is nothing to see or touch.
LEMMA BlankScreen ==
  ASSUME composite' = NoPicture, video' = NoVideo, running' = FALSE,
         finger' = NoTouch, touch' = NoTouch, last' = NoPoint \/ last' = announced'
  PROVE  ScreenInv'
  <1>1. \A c \in Consoles : finger'[c] = NoPoint
    BY DEF NoTouch
  <1> QED BY <1>1 DEF ScreenInv, BlankInv, PictureInv, FingerInv, StickInv, Shown

LEMMA NoCursors ==
  ASSUME cursor' = [c \in Consoles |-> NoCursor]
  PROVE  CursorInv'
  <1>1. cursor' = [c \in Consoles |-> cursor'[c]]
           /\ \A c \in Consoles : cursor'[c] = NoCursor
    OBVIOUS
  <1> QED BY <1>1, NoCursorPlace DEF CursorInv

LEMMA ScreenInit == Init => ScreenInv /\ CursorInv
  <1> SUFFICES ASSUME Init PROVE ScreenInv /\ CursorInv
    OBVIOUS
  <1>1. /\ composite = NoPicture /\ video = NoVideo /\ running = FALSE
        /\ finger = NoTouch /\ touch = NoTouch /\ last = NoPoint
        /\ cursor = [c \in Consoles |-> NoCursor]
    BY DEF Init, OutputInit
  <1>2. ScreenInv
    <2>1. \A c \in Consoles : finger[c] = NoPoint
      BY <1>1 DEF NoTouch
    <2> QED
      BY <1>1, <2>1 DEF ScreenInv, BlankInv, PictureInv, FingerInv, StickInv, Shown
  <1>3. CursorInv
    <2>1. cursor = [c \in Consoles |-> cursor[c]]
            /\ \A c \in Consoles : cursor[c] = NoCursor
      BY <1>1
    <2> QED BY <2>1, NoCursorPlace DEF CursorInv
  <1> QED BY <1>2, <1>3

LEMMA SameSize ==
  ASSUME UNCHANGED loadVars
  PROVE  /\ NDSLoaded' = NDSLoaded /\ Size' = Size
         /\ session' = session /\ InCall' = InCall
  BY DEF loadVars, NDSLoaded, Size, InCall

LEMMA StartRunScreen ==
  ASSUME ScreenInv, CursorInv, StartRun
  PROVE  ScreenInv' /\ CursorInv'
  <1>1. /\ Ready /\ PollInputs(NDSLoaded) /\ running' = TRUE
        /\ NDSLoaded' = NDSLoaded /\ Size' = Size
        /\ session' = session /\ InCall' = InCall
    BY SameSize DEF StartRun
  <1>2. /\ display' = display /\ composite' = composite /\ video' = video
        /\ announced' = announced /\ last' = last
    BY <1>1 DEF PollInputs
  <1>3. /\ FingerInv' /\ CursorInv'
        /\ \A c \in Consoles :
             NDSLoaded /\ finger'[c] = NoPoint /\ touch'[c] # NoPoint =>
               cursor'[c].at = touch'[c] /\ touch'[c] \in TouchSpace
    BY <1>1, PollTouches
  <1>4. BlankInv'
    BY <1>1 DEF BlankInv, Ready
  <1>5. PictureInv'
    BY <1>1, <1>2 DEF ScreenInv, PictureInv, Shown
  <1>6. StickInv'
    BY <1>1, <1>3 DEF StickInv, TouchSpace
  <1> QED BY <1>3, <1>4, <1>5, <1>6 DEF ScreenInv

\* What a frame publishes is what the frontend shows.
LEMMA ShownScreen ==
  ASSUME ScreenInv, CursorInv, running, running' = FALSE, UNCHANGED loadVars,
         UNCHANGED <<option, finger, touchVars>>,
         NEW picture, picture = Compose(display', Size), composite' = picture,
         announced' = picture.size, last' = NoPoint \/ last' = announced',
         video' = Published(picture, display', NDSLoaded)
  PROVE  ScreenInv' /\ CursorInv'
  <1>1. /\ NDSLoaded' = NDSLoaded /\ Size' = Size
        /\ session' = session /\ InCall' = InCall
    BY SameSize
  <1>2. /\ option' = option /\ finger' = finger /\ touch' = touch
        /\ cursor' = cursor
    BY DEF touchVars
  <1>3. Size \in Sizes
    BY SizeFacts DEF Size
  <1>4. picture # NoPicture
    BY <1>3, ComposeSize
  <1>5. BlankInv'
    BY <1>1 DEF ScreenInv, BlankInv
  <1>6. PictureInv'
    BY <1>1, <1>4, PublishedPicture DEF PictureInv, Shown
  <1>7. FingerInv' /\ CursorInv'
    BY <1>1, <1>2 DEF ScreenInv, FingerInv, CursorInv
  <1>8. StickInv'
    <2> SUFFICES ASSUME NEW c \in Consoles, video'.cursors[c] # NoPoint,
                        touch[c] # NoPoint
                 PROVE  /\ NDSLoaded /\ touch[c] \in TouchSpace
                        /\ video'.cursors[c] =
                             ProjectPoint(c, <<touch[c][1], ScreenHeight + touch[c][2]>>,
                                          display', Size)
      BY <1>1, <1>2 DEF StickInv, TouchSpace
    <2> QED BY <1>4, PublishedShows DEF ScreenInv
  <1> QED BY <1>5, <1>6, <1>7, <1>8 DEF ScreenInv

LEMMA FrameDoneScreen ==
  ASSUME ScreenInv, CursorInv, running, running' = FALSE, UNCHANGED loadVars,
         FrameDone(NDSLoaded, GBLoaded)
  PROVE  ScreenInv' /\ CursorInv'
  <1> DEFINE picture == Compose(option, Size)
  <1>1. /\ composite' = picture /\ display' = option
        /\ announced' = IF last = picture.size THEN announced ELSE picture.size
        /\ last' = picture.size /\ video' = Published(picture, option, NDSLoaded)
        /\ UNCHANGED <<option, finger, touchVars>>
    BY DEF FrameDone, Size
  <1>2. picture.size # NoPoint
    BY SizeFacts, ComposeSize DEF Size
  <1>3. announced' = picture.size
    BY <1>1, <1>2 DEF ScreenInv, PictureInv
  <1>4. picture = Compose(display', Size) /\ video' = Published(picture, display', NDSLoaded)
    BY <1>1
  <1> HIDE DEF picture
  <1> QED BY <1>1, <1>3, <1>4, ShownScreen

LEMMA FrameFailsScreen ==
  ASSUME ScreenInv, CursorInv, running, running' = FALSE, UNCHANGED loadVars,
         FrameFails(NDSLoaded, GBLoaded)
  PROVE  ScreenInv' /\ CursorInv'
  <1>1. /\ video' = Published(composite, display, NDSLoaded)
        /\ UNCHANGED <<option, display, composite, announced, last, finger,
                       touchVars>>
    BY DEF FrameFails
  <1>2. last' = NoPoint \/ last' = announced'
    BY <1>1 DEF ScreenInv, PictureInv
  <1>3. CASE composite = NoPicture
    <2>1. video' = NoVideo
      BY <1>1, <1>3 DEF ScreenInv, PictureInv, Shown, Published
    <2>2. BlankInv' /\ FingerInv' /\ CursorInv'
      BY <1>1, <2>1, SameSize
         DEF ScreenInv, BlankInv, FingerInv, CursorInv, touchVars
    <2>3. PictureInv' /\ StickInv'
      BY <1>1, <1>2, <1>3, <2>1 DEF PictureInv, StickInv, Shown
    <2> QED BY <2>2, <2>3 DEF ScreenInv
  <1>4. CASE composite # NoPicture
    <2>1. /\ composite = Compose(display, Size) /\ announced = composite.size
          /\ display' = display /\ composite' = composite /\ announced' = announced
      BY <1>1, <1>4 DEF ScreenInv, PictureInv
    <2>2. UNCHANGED <<option, finger, touchVars>>
      BY <1>1
    <2> QED BY <1>1, <1>2, <2>1, <2>2, ShownScreen
  <1> QED BY <1>3, <1>4

LEMMA ScreenKept == ScreenInv /\ CursorInv /\ [Next]_vars => ScreenInv' /\ CursorInv'
  <1> SUFFICES ASSUME ScreenInv, CursorInv, [Next]_vars
               PROVE  ScreenInv' /\ CursorInv'
    OBVIOUS
  <1>1. CASE StartLoad \/ EndSession
    <2>1. DropOutput /\ running' = FALSE
      BY <1>1 DEF StartLoad, EndSession
    <2> QED BY <2>1, BlankScreen, NoCursors DEF DropOutput
  <1>2. CASE ContinueLoad \/ EndLoad
    <2>1. InCall
      BY <1>2 DEF ContinueLoad, EndLoad, LoadStep, ReadRomFile, OwnRom, DetectPair,
                  AllocatePixels, CreatePair, StartPair, OpenSaves,
                  InstallRenderer, Return, InCall, Machines
    <2>2. /\ composite = NoPicture /\ video = NoVideo /\ running = FALSE
          /\ finger = NoTouch /\ touch = NoTouch
      BY <2>1 DEF ScreenInv, BlankInv
    <2>3. /\ UNCHANGED <<composite, video, running, finger, touch, cursor>>
          /\ last' = NoPoint \/ (last' = last /\ announced' = announced)
      BY <1>2 DEF ContinueLoad, EndLoad, OpenOutput, outputVars, pictureVars, touchVars
    <2>4. last' = NoPoint \/ last' = announced'
      BY <2>3 DEF ScreenInv, PictureInv
    <2>5. CursorInv'
      BY <2>3 DEF CursorInv
    <2> QED BY <2>2, <2>3, <2>4, <2>5, BlankScreen
  <1>3. CASE StartRun
    BY <1>3, StartRunScreen
  <1>4. CASE EndRun
    BY <1>4, FrameDoneScreen, FrameFailsScreen DEF EndRun
  <1>5. CASE Reset \/ Restore
    <2>1. /\ ~running /\ running' = running /\ UNCHANGED loadVars
          /\ UNCHANGED <<option, display, composite, announced, finger, video, touch>>
          /\ last' = last \/ last' = NoPoint
      BY <1>5 DEF Reset, Restore, Ready, ResetOutput, RestoreOutput, pictureVars,
                  touchVars
    <2>2. BlankInv' /\ PictureInv' /\ FingerInv' /\ StickInv'
      BY <2>1, SameSize
         DEF ScreenInv, BlankInv, PictureInv, FingerInv, StickInv, Shown, TouchSpace
    <2>3. CASE Reset
      BY <2>2, <2>3, NoCursors DEF ScreenInv, Reset, ResetOutput
    <2>4. CASE Restore
      BY <2>2, <2>4 DEF ScreenInv, Restore, RestoreOutput, touchVars, CursorInv
    <2> QED BY <1>5, <2>3, <2>4
  <1>6. CASE UNCHANGED vars
    <2>1. /\ UNCHANGED loadVars /\ running' = running
          /\ UNCHANGED <<option, display, composite, announced, last, finger, video,
                         touch, cursor>>
      BY <1>6 DEF vars, outputVars, pictureVars, touchVars
    <2> QED
      BY <2>1, SameSize
         DEF ScreenInv, BlankInv, PictureInv, FingerInv, StickInv, Shown,
             TouchSpace, CursorInv
  <1> QED BY <1>1, <1>2, <1>3, <1>4, <1>5, <1>6 DEF Next, Run

\* What the player sees is what the player touches, for screens of any size,
\* every layout and whatever the player touches.
THEOREM ScreenAlwaysAgrees == Spec => []ScreenAgrees
  <1>1. Spec => [](ScreenInv /\ CursorInv)
    BY ScreenInit, ScreenKept, PTL DEF Spec
  <1>2. ScreenInv /\ CursorInv => ScreenAgrees
    BY ScreenInvAgrees
  <1> QED BY <1>1, <1>2, PTL

-----------------------------------------------------------------------------
(* Folds over a sequence.                                                  *)

LEMMA Greatest ==
  ASSUME NEW n \in Nat, NEW z \in SUBSET (1..n), z # {}
  PROVE  Max(z) \in z /\ \A y \in z : y <= Max(z)
  <1> DEFINE T == {n - i : i \in z}
  <1>1. T \subseteq Nat /\ T # {}
    OBVIOUS
  <1> PICK m \in T : \A k \in T : m <= k
    BY <1>1, Smallest
  <1> PICK x \in z : m = n - x
    OBVIOUS
  <1>2. \A y \in z : y \in Int /\ n - y \in T
    OBVIOUS
  <1>3. \A y \in z : x >= y
    <2> SUFFICES ASSUME NEW y \in z PROVE x >= y
      OBVIOUS
    <2>1. x \in Int /\ y \in Int /\ n - x <= n - y
      BY <1>2
    <2> QED BY <2>1
  <1>4. Max(z) \in z /\ \A y \in z : Max(z) >= y
    BY <1>3 DEF Max
  <1> QED BY <1>2, <1>4

LEMMA GreatestIs ==
  ASSUME NEW n \in Nat, NEW z \in SUBSET (1..n), NEW m \in z, \A y \in z : y <= m
  PROVE  Max(z) = m
  <1>1. Max(z) \in z /\ \A y \in z : y <= Max(z)
    BY Greatest
  <1>2. \A y \in z : y \in Int
    OBVIOUS
  <1>3. Max(z) \in Int /\ m \in Int /\ m <= Max(z) /\ Max(z) <= m
    BY <1>1, <1>2
  <1> QED BY <1>3

\* The first k numbers.
LEMMA Segment ==
  ASSUME NEW n \in Nat, NEW k \in 1..n
  PROVE  /\ Max(1..k) = k /\ (1..k) \ {k} = 1..(k - 1) /\ 1..k # {}
         /\ 1..k \in SUBSET (1..n) /\ 1..(k - 1) \in SUBSET (1..n)
  <1>1. k \in 1..k /\ 1..k \in SUBSET (1..n) /\ \A y \in 1..k : y <= k
    OBVIOUS
  <1>2. Max(1..k) = k
    BY <1>1, GreatestIs
  <1> QED BY <1>1, <1>2

\* The recursion by which the library folds has a solution.
SubsetRun(S, first, n, step, h) ==
  /\ h \in [SUBSET (1..n) -> S]
  /\ \A z \in SUBSET (1..n) :
       h[z] = IF z = {} THEN first ELSE step[Max(z)][h[z \ {Max(z)}]]

LEMMA SubsetRuns ==
  ASSUME NEW S, NEW first \in S, NEW n \in Nat, NEW step \in [1..n -> [S -> S]]
  PROVE  \E h : SubsetRun(S, first, n, step, h)
  <1> DEFINE Runs(m, h) ==
        /\ h \in [SUBSET (1..m) -> S]
        /\ \A z \in SUBSET (1..m) :
             h[z] = IF z = {} THEN first ELSE step[Max(z)][h[z \ {Max(z)}]]
      T == {m \in 0..n : \E h : Runs(m, h)}
  <1>1. 0 \in T
    <2> DEFINE h == [z \in SUBSET (1..0) |-> first]
    <2>1. Runs(0, h)
      <3>1. \A z \in SUBSET (1..0) : z = {}
        OBVIOUS
      <3>3. \A z \in SUBSET (1..0) : h[z] = first
        OBVIOUS
      <3>2. h \in [SUBSET (1..0) -> S]
        OBVIOUS
      <3> HIDE DEF h
      <3> QED BY <3>1, <3>2, <3>3
    <2>2. \E f : Runs(0, f)
      <3> HIDE DEF Runs, h
      <3> QED BY <2>1
    <2> HIDE DEF Runs
    <2> QED BY <2>2
  <1>2. ASSUME NEW m \in 1..n, m - 1 \in T PROVE m \in T
    <2> PICK h : Runs(m - 1, h)
      BY <1>2
    <2> DEFINE g == [z \in SUBSET (1..m) |->
                       IF m \in z THEN step[m][h[z \ {m}]] ELSE h[z]]
    <2>1. /\ h \in [SUBSET (1..(m - 1)) -> S]
          /\ \A z \in SUBSET (1..(m - 1)) :
               h[z] = IF z = {} THEN first ELSE step[Max(z)][h[z \ {Max(z)}]]
      OBVIOUS
    <2>2. \A z \in SUBSET (1..m) :
            /\ z \ {m} \in SUBSET (1..(m - 1))
            /\ m \notin z => z \in SUBSET (1..(m - 1))
      OBVIOUS
    <2>3. step[m] \in [S -> S]
      OBVIOUS
    <2>4. g \in [SUBSET (1..m) -> S]
      <3> SUFFICES ASSUME NEW z \in SUBSET (1..m)
                   PROVE  (IF m \in z THEN step[m][h[z \ {m}]] ELSE h[z]) \in S
        OBVIOUS
      <3> QED BY <2>1, <2>2, <2>3
    <2>5. ASSUME NEW z \in SUBSET (1..m)
          PROVE  g[z] = IF z = {} THEN first ELSE step[Max(z)][g[z \ {Max(z)}]]
      <3>1. CASE m \in z
        <4>1. Max(z) = m
          <5>1. \A y \in z : y <= m
            OBVIOUS
          <5>2. m \in Nat
            OBVIOUS
          <5> QED BY <3>1, <5>1, <5>2, GreatestIs
        <4>2. g[z] = step[m][h[z \ {m}]]
          BY <3>1
        <4>3. z \ {m} \in SUBSET (1..m) /\ m \notin z \ {m}
          OBVIOUS
        <4>4. g[z \ {m}] = h[z \ {m}]
          BY <4>3
        <4> HIDE DEF g
        <4> QED BY <3>1, <4>1, <4>2, <4>4
      <3>2. CASE m \notin z
        <4>1. z \in SUBSET (1..(m - 1)) /\ g[z] = h[z]
          BY <3>2, <2>2
        <4>2. CASE z = {}
          BY <2>1, <4>1, <4>2
        <4>3. CASE z # {}
          <5>1. Max(z) \in z
            <6>1. m \in Nat
              OBVIOUS
            <6> QED BY <4>3, <6>1, Greatest
          <5>2. z \ {Max(z)} \in SUBSET (1..m) /\ m \notin z \ {Max(z)}
            BY <3>2
          <5>3. g[z \ {Max(z)}] = h[z \ {Max(z)}]
            BY <5>2
          <5> HIDE DEF g
          <5> QED BY <2>1, <4>1, <4>3, <5>3
        <4> QED BY <4>2, <4>3
      <3> QED BY <3>1, <3>2
    <2> HIDE DEF g
    <2>6. Runs(m, g)
      BY <2>4, <2>5
    <2> HIDE DEF Runs
    <2> QED BY <2>6
  <1>3. n \in T
    <2> HIDE DEF T
    <2>1. \A k \in 1..n : k - 1 \in T => k \in T
      BY <1>2
    <2>2. \A k \in 0..n : k \in T
      BY <1>1, <2>1, UpTo
    <2> QED BY <2>2
  <1> HIDE DEF Runs
  <1> PICK h : Runs(n, h)
    BY <1>3
  <1> QED BY DEF Runs, SubsetRun

\* What an element of C does to a value in S.
Steps(C, S) == [C -> [S -> S]]
Words(C) == Seq(C)

\* F maps an element of the sequence to what it does to the value.
Fold(F, first, s) ==
  (CHOOSE g : g = [k \in 0..Len(s) |->
                     IF k = 0 THEN first ELSE F[s[k]][g[k - 1]]])[Len(s)]

LEMMA FoldRuns ==
  ASSUME NEW S, NEW C, NEW F \in Steps(C, S), NEW first \in S, NEW s \in Words(C)
  PROVE  \E g \in [0..Len(s) -> S] :
           /\ g[0] = first /\ Fold(F, first, s) = g[Len(s)]
           /\ \A k \in 1..Len(s) : g[k] = F[s[k]][g[k - 1]]
  <1> DEFINE n == Len(s)
             Eq(g) == g = [k \in 0..n |->
                             IF k = 0 THEN first ELSE F[s[k]][g[k - 1]]]
             step == [k \in 1..n |-> F[s[k]]]
             fold == CHOOSE g : Eq(g)
  <1>1. first \in S /\ n \in Nat /\ step \in [1..n -> [S -> S]]
    BY DEF Steps, Words
  <1> HIDE DEF step, n
  <1> PICK h \in [0..n -> S] :
             h[0] = first /\ \A k \in 1..n : h[k] = step[k][h[k - 1]]
    BY <1>1, Iterates
  <1> USE DEF n
  <1>2. Eq(h)
    <2>1. \A k \in 0..n : h[k] = IF k = 0 THEN first ELSE F[s[k]][h[k - 1]]
      BY <1>1 DEF step
    <2>2. h = [k \in 0..n |-> h[k]]
      OBVIOUS
    <2> QED BY <2>1, <2>2
  <1>3. Eq(fold)
    <2> HIDE DEF Eq
    <2> QED BY <1>2
  <1>4. Fold(F, first, s) = fold[n]
    BY DEF Fold
  <1> HIDE DEF fold
  <1> DEFINE T == {k \in 0..n : fold[k] = h[k]}
  <1>5. \A k \in 0..n : fold[k] = IF k = 0 THEN first ELSE F[s[k]][fold[k - 1]]
    BY <1>3
  <1>6. 0 \in T
    BY <1>1, <1>5
  <1>7. ASSUME NEW k \in 1..n, k - 1 \in T PROVE k \in T
    BY <1>1, <1>5, <1>7 DEF step
  <1>8. n \in T
    <2> HIDE DEF T, n
    <2>1. \A k \in 1..n : k - 1 \in T => k \in T
      BY <1>7
    <2>2. \A k \in 0..n : k \in T
      BY <1>1, <1>6, <2>1, UpTo
    <2> QED BY <1>1, <2>2
  <1>9. h[0] = first /\ \A k \in 1..n : h[k] = F[s[k]][h[k - 1]]
    BY DEF step
  <1> QED BY <1>4, <1>8, <1>9

\* What runs like the fold ends like it.
LEMMA FoldIs ==
  ASSUME NEW S, NEW C, NEW F \in Steps(C, S), NEW first \in S, NEW s \in Words(C),
         NEW h, h[0] = first,
         \A k \in 1..Len(s) : h[k - 1] \in S => h[k] = F[s[k]][h[k - 1]]
  PROVE  h[Len(s)] = Fold(F, first, s)
  <1> PICK g \in [0..Len(s) -> S] :
           /\ g[0] = first /\ Fold(F, first, s) = g[Len(s)]
           /\ \A k \in 1..Len(s) : g[k] = F[s[k]][g[k - 1]]
    BY FoldRuns
  <1> DEFINE T == {k \in 0..Len(s) : h[k] = g[k]}
  <1>1. Len(s) \in Nat /\ 0 \in T
    BY DEF Words
  <1>2. ASSUME NEW k \in 1..Len(s), k - 1 \in T PROVE k \in T
    <2>1. k - 1 \in 0..Len(s) /\ h[k - 1] = g[k - 1] /\ g[k - 1] \in S
      BY <1>2
    <2> QED BY <2>1
  <1>3. Len(s) \in T
    <2> HIDE DEF T
    <2>1. \A k \in 1..Len(s) : k - 1 \in T => k \in T
      BY <1>2
    <2>2. \A k \in 0..Len(s) : k \in T
      BY <1>1, <2>1, UpTo
    <2> QED BY <1>1, <2>2
  <1> QED BY <1>3

LEMMA FoldFacts ==
  ASSUME NEW S, NEW C, NEW F \in Steps(C, S), NEW first \in S
  PROVE  /\ Fold(F, first, << >>) = first
         /\ \A s \in Words(C) : Fold(F, first, s) \in S
         /\ \A s \in Words(C), c \in C :
              Fold(F, first, Append(s, c)) = F[c][Fold(F, first, s)]
  <1>1. Fold(F, first, << >>) = first
    <2> DEFINE s == << >>
    <2>1. F \in Steps(C, S) /\ first \in S /\ s \in Words(C) /\ Len(s) = 0
      BY DEF Words
    <2> HIDE DEF s
    <2>2. \E g \in [0..Len(s) -> S] :
            g[0] = first /\ Fold(F, first, s) = g[Len(s)]
      BY <2>1, FoldRuns
    <2>3. Fold(F, first, s) = first
      BY <2>1, <2>2
    <2> QED BY <2>3 DEF s
  <1>2. ASSUME NEW s \in Words(C) PROVE Fold(F, first, s) \in S
    <2>1. /\ F \in Steps(C, S) /\ first \in S /\ s \in Words(C)
          /\ Len(s) \in 0..Len(s)
      BY DEF Words
    <2>2. \E g \in [0..Len(s) -> S] : Fold(F, first, s) = g[Len(s)]
      BY <2>1, FoldRuns
    <2> QED BY <2>1, <2>2
  <1>3. ASSUME NEW s \in Words(C), NEW c \in C
        PROVE  Fold(F, first, Append(s, c)) = F[c][Fold(F, first, s)]
    <2> DEFINE t == Append(s, c)
               n == Len(s)
    <2>1. /\ F \in Steps(C, S) /\ first \in S /\ s \in Words(C)
          /\ t \in Words(C) /\ n \in Nat /\ Len(t) = n + 1 /\ t[n + 1] = c
          /\ \A k \in 1..n : t[k] = s[k]
      BY DEF Words
    <2> HIDE DEF t
    <2> PICK g \in [0..Len(t) -> S] :
             /\ g[0] = first /\ Fold(F, first, t) = g[Len(t)]
             /\ \A k \in 1..Len(t) : g[k] = F[t[k]][g[k - 1]]
      BY <2>1, FoldRuns
    <2>2. \A k \in 1..n : g[k] = F[s[k]][g[k - 1]]
      BY <2>1
    <2>3. g[n] = Fold(F, first, s)
      BY <2>2, FoldIs
    <2>4. g[n + 1] = F[c][g[n]]
      <3>1. n + 1 \in 1..Len(t) /\ (n + 1) - 1 = n
        BY <2>1
      <3> QED BY <2>1, <3>1
    <2> QED BY <2>1, <2>3, <2>4 DEF t
  <1> QED BY <1>1, <1>2, <1>3

\* A set of sequences that holds the empty one, and with a sequence every longer
\* one by an element, holds them all.
LEMMA Grown ==
  ASSUME NEW C, NEW T, << >> \in T,
         \A s \in Words(C), c \in C : s \in T => Append(s, c) \in T
  PROVE  \A s \in Words(C) : s \in T
  <1> SUFFICES ASSUME NEW s \in Words(C) PROVE s \in T
    OBVIOUS
  <1> DEFINE U == {k \in 0..Len(s) : SubSeq(s, 1, k) \in T}
  <1>1. Len(s) \in Nat
    BY DEF Words
  <1>2. 0 \in U
    <2>1. SubSeq(s, 1, 0) = << >>
      BY DEF Words
    <2>2. 0 \in 0..Len(s)
      BY <1>1
    <2> QED BY <2>1, <2>2
  <1>3. ASSUME NEW k \in 1..Len(s), k - 1 \in U PROVE k \in U
    <2> DEFINE a == SubSeq(s, 1, k - 1)
    <2>1. a \in Words(C) /\ s[k] \in C /\ a \in T
      BY <1>3 DEF Words
    <2>2. SubSeq(s, 1, k) = Append(a, s[k])
      BY DEF Words
    <2>4. k \in 0..Len(s)
      BY <1>1
    <2>3. Append(a, s[k]) \in T
      <3> HIDE DEF a
      <3> QED BY <2>1
    <2> HIDE DEF a
    <2> QED BY <2>2, <2>3, <2>4
  <1>4. Len(s) \in U
    <2> HIDE DEF U
    <2>1. \A k \in 1..Len(s) : k - 1 \in U => k \in U
      BY <1>3
    <2>2. \A k \in 0..Len(s) : k \in U
      BY <1>1, <1>2, <2>1, UpTo
    <2> QED BY <1>1, <2>2
  <1>5. SubSeq(s, 1, Len(s)) = s
    BY DEF Words
  <1> QED BY <1>4, <1>5

-----------------------------------------------------------------------------
(* The place that a path reaches.                                          *)

\* (All of them are strings; the provers only know the literals named here.)
Text == STRING \cup {"", "gb", "gbc", "gba", "nds", "none", "relative", "failed",
                    "srm", "rtc", "sav", "firmware", "bin", "2"}
Component == Seq(Text)
Walk(place, parts) == FoldLeft(Step, place, parts)
WalkSteps == [c \in Component |-> [place \in Words(Component) |-> Step(place, c)]]

LEMMA SpecialComponents ==
  Empty # Dot /\ Empty # DotDot /\ Dot # DotDot
  <1>1. Len(Empty) = 1 /\ Len(Dot) = 2 /\ Len(DotDot) = 3
    BY DEF Empty, Dot, DotDot
  <1> QED BY <1>1

LEMMA FrontLength ==
  ASSUME NEW C, NEW s \in Seq(C), Len(s) >= 1
  PROVE  Len(SubSeq(s, 1, Len(s) - 1)) = Len(s) - 1
  <1> DEFINE n == Len(s) - 1
  <1>1. n \in Nat /\ n <= Len(s) /\ Len(s) \in Nat
    OBVIOUS
  <1> HIDE DEF n
  <1>2. Len(SubSeq(s, 1, n)) = n
    BY <1>1
  <1> QED BY <1>2 DEF n

LEMMA WordsFacts ==
  ASSUME NEW C
  PROVE  /\ << >> \in Words(C)
         /\ \A s \in Words(C), c \in C :
              /\ Append(s, c) \in Words(C) /\ Append(s, c) # << >>
              /\ Last(Append(s, c)) = c /\ Front(Append(s, c)) = s
         /\ \A s \in Words(C) : s # << >> =>
              /\ Front(s) \in Words(C) /\ Last(s) \in C
              /\ s = Append(Front(s), Last(s))
  <1>1. << >> \in Words(C)
    BY DEF Words
  <1>2. ASSUME NEW s \in Words(C), NEW c \in C
        PROVE  /\ Append(s, c) \in Words(C) /\ Append(s, c) # << >>
               /\ Last(Append(s, c)) = c /\ Front(Append(s, c)) = s
    <2>1. /\ Append(s, c) \in Seq(C) /\ Len(Append(s, c)) = Len(s) + 1
          /\ Append(s, c)[Len(s) + 1] = c /\ Len(s) \in Nat
      BY DEF Words
    <2>2. Front(Append(s, c)) = s
      BY <2>1 DEF Words, Front
    <2> QED BY <2>1, <2>2 DEF Words, Last
  <1>3. ASSUME NEW s \in Words(C), s # << >>
        PROVE  /\ Front(s) \in Words(C) /\ Last(s) \in C
               /\ s = Append(Front(s), Last(s))
    <2>1. Len(s) \in Nat /\ Len(s) >= 1
      BY <1>3 DEF Words
    <2>5. Front(s) = SubSeq(s, 1, Len(s) - 1)
      BY DEF Front
    <2>6. s \in Seq(C) /\ Len(s) - 1 \in Int /\ Len(s) - 1 <= Len(s)
      BY <2>1 DEF Words
    <2>7. SubSeq(s, 1, Len(s) - 1) \in Seq(C)
      BY <2>1, <2>6
    <2>8. Len(SubSeq(s, 1, Len(s) - 1)) = Len(s) - 1
      BY <2>1, <2>6, FrontLength
    <2>9. \A i \in 1..(Len(s) - 1) : SubSeq(s, 1, Len(s) - 1)[i] = s[i]
      BY <2>1, <2>6
    <2>2. Front(s) \in Seq(C) /\ Len(Front(s)) = Len(s) - 1
            /\ \A i \in 1..(Len(s) - 1) : Front(s)[i] = s[i]
      BY <2>5, <2>7, <2>8, <2>9
    <2>3. Last(s) \in C /\ Last(s) = s[Len(s)]
      BY <2>1 DEF Words, Last
    <2>4. s = Append(Front(s), Last(s))
      BY <2>1, <2>2, <2>3 DEF Words
    <2> QED BY <2>2, <2>3, <2>4 DEF Words
  <1> QED BY <1>1, <1>2, <1>3

LEMMA StepType ==
  ASSUME NEW place \in Words(Component), NEW c \in Component
  PROVE  Step(place, c) \in Words(Component)
  BY WordsFacts DEF Step

LEMMA WalkIsFold ==
  ASSUME NEW base \in Words(Component), NEW s \in Words(Component)
  PROVE  Walk(base, s) = Fold(WalkSteps, base, s)
  <1> DEFINE n == Len(s)
             S == Words(Component)
             step == [k \in 1..n |-> [x \in S |-> Step(x, s[k])]]
             Eq(iter) == iter = [z \in SUBSET (1..n) |->
                IF z = {} THEN base ELSE Step(iter[z \ {Max(z)}], s[Max(z)])]
             iter == CHOOSE f : Eq(f)
  <1>1. n \in Nat /\ DOMAIN s = 1..n /\ \A k \in 1..n : s[k] \in Component
    BY DEF Words
  <1>2. Walk(base, s) = iter[1..n]
    BY <1>1 DEF Walk, FoldLeft, MapThenFoldSet
  <1>3. base \in S /\ n \in Nat /\ step \in [1..n -> [S -> S]]
    BY <1>1, StepType
  <1>4. \A k \in 1..n, x \in S : step[k][x] = Step(x, s[k])
    OBVIOUS
  <1> HIDE DEF n, S, step, iter
  <1> PICK h : SubsetRun(S, base, n, step, h)
    BY <1>3, SubsetRuns
  <1>5. Eq(h)
    <2>3. /\ h \in [SUBSET (1..n) -> S]
          /\ \A z \in SUBSET (1..n) :
               h[z] = IF z = {} THEN base ELSE step[Max(z)][h[z \ {Max(z)}]]
      BY DEF SubsetRun
    <2>1. ASSUME NEW z \in SUBSET (1..n)
          PROVE  h[z] = IF z = {} THEN base ELSE Step(h[z \ {Max(z)}], s[Max(z)])
      <3>1. CASE z # {}
        <4>1. Max(z) \in 1..n /\ z \ {Max(z)} \in SUBSET (1..n)
          BY <1>1, <3>1, Greatest
        <4> QED BY <1>4, <2>3, <3>1, <4>1
      <3> QED BY <2>3, <3>1
    <2>2. h = [z \in SUBSET (1..n) |-> h[z]]
      BY <2>3
    <2> QED BY <2>1, <2>2
  <1>6. Eq(iter)
    <2> HIDE DEF Eq
    <2> QED BY <1>5 DEF iter
  <1>7. \A z \in SUBSET (1..n) :
          iter[z] = IF z = {} THEN base ELSE Step(iter[z \ {Max(z)}], s[Max(z)])
    BY <1>6
  <1> HIDE DEF Eq
  <1> DEFINE f == [k \in 0..n |-> iter[1..k]]
  <1>8. f[0] = base /\ f[n] = iter[1..n]
    <2>1. 1..0 = {} /\ 1..0 \in SUBSET (1..n) /\ 0 \in 0..n /\ n \in 0..n
      BY <1>1
    <2> QED BY <1>7, <2>1
  <1>9. \A k \in 1..n : f[k - 1] \in S => f[k] = WalkSteps[s[k]][f[k - 1]]
    <2> SUFFICES ASSUME NEW k \in 1..n, f[k - 1] \in S
                 PROVE  f[k] = WalkSteps[s[k]][f[k - 1]]
      OBVIOUS
    <2>1. f[k] = iter[1..k] /\ f[k - 1] = iter[1..(k - 1)]
      BY <1>1
    <2>2. f[k] = Step(f[k - 1], s[k])
      <3>1. /\ Max(1..k) = k /\ (1..k) \ {k} = 1..(k - 1) /\ 1..k # {}
            /\ 1..k \in SUBSET (1..n)
        BY <1>1, Segment
      <3>2. iter[1..k] = Step(iter[(1..k) \ {Max(1..k)}], s[Max(1..k)])
        BY <1>7, <3>1
      <3> QED BY <2>1, <3>1, <3>2
    <2> HIDE DEF f
    <2> QED BY <1>1, <2>2 DEF WalkSteps, S
  <1>10. WalkSteps \in Steps(Component, S)
    BY StepType DEF WalkSteps, Steps, S
  <1> HIDE DEF f
  <1> DEFINE C == Component
  <1>11. /\ WalkSteps \in Steps(C, S) /\ base \in S /\ s \in Words(C)
         /\ f[0] = base
         /\ \A k \in 1..Len(s) : f[k - 1] \in S => f[k] = WalkSteps[s[k]][f[k - 1]]
    BY <1>3, <1>8, <1>9, <1>10 DEF n
  <1> HIDE DEF C
  <1>12. f[Len(s)] = Fold(WalkSteps, base, s)
    BY <1>11, FoldIs
  <1> QED BY <1>2, <1>8, <1>12 DEF n

LEMMA WalkFacts ==
  ASSUME NEW base \in Words(Component)
  PROVE  /\ Walk(base, << >>) = base
         /\ \A s \in Words(Component) : Walk(base, s) \in Words(Component)
         /\ \A s \in Words(Component), c \in Component :
              Walk(base, Append(s, c)) = Step(Walk(base, s), c)
  <1> DEFINE S == Words(Component)
  <1>1. WalkSteps \in Steps(Component, S) /\ base \in S
    BY StepType DEF WalkSteps, Steps
  <1>2. /\ << >> \in S
        /\ \A s \in S, c \in Component : Append(s, c) \in S
    BY WordsFacts
  <1> DEFINE C == Component
  <1>3. WalkSteps \in Steps(C, S) /\ base \in S
    BY <1>1
  <1> HIDE DEF S, C
  <1>4. /\ Fold(WalkSteps, base, << >>) = base
        /\ \A s \in Words(C) : Fold(WalkSteps, base, s) \in S
        /\ \A s \in Words(C), c \in C :
             Fold(WalkSteps, base, Append(s, c)) = WalkSteps[c][Fold(WalkSteps, base, s)]
    BY <1>3, FoldFacts
  <1>5. \A s \in S : Walk(base, s) = Fold(WalkSteps, base, s)
    BY WalkIsFold DEF S
  <1>6. \A c \in C, x \in S : WalkSteps[c][x] = Step(x, c)
    BY DEF WalkSteps, C, S
  <1>7. S = Words(C) /\ C = Component
    BY DEF S, C
  <1> QED BY <1>2, <1>4, <1>5, <1>6, <1>7

\* Walking along one path and then along another.
LEMMA WalkOn ==
  ASSUME NEW base \in Words(Component), NEW s \in Words(Component),
         NEW t \in Words(Component)
  PROVE  Walk(base, s \o t) = Walk(Walk(base, s), t)
  <1> DEFINE T == {u \in Words(Component) : Walk(base, s \o u) = Walk(Walk(base, s), u)}
  <1>1. Walk(base, s) \in Words(Component)
    BY WalkFacts
  <1>2. << >> \in T
    <2>1. s \o << >> = s /\ << >> \in Words(Component)
      BY DEF Words
    <2> QED BY <1>1, <2>1, WalkFacts
  <1>3. ASSUME NEW u \in Words(Component), NEW c \in Component, u \in T
        PROVE  Append(u, c) \in T
    <2>1. /\ s \o Append(u, c) = Append(s \o u, c) /\ s \o u \in Words(Component)
          /\ Append(u, c) \in Words(Component)
      BY DEF Words
    <2>2. Walk(base, Append(s \o u, c)) = Step(Walk(base, s \o u), c)
      BY <2>1, WalkFacts
    <2>3. Walk(Walk(base, s), Append(u, c)) = Step(Walk(Walk(base, s), u), c)
      BY <1>1, WalkFacts
    <2> QED BY <1>3, <2>1, <2>2, <2>3
  <1> HIDE DEF T
  <1>4. \A u \in Words(Component) : u \in T
    BY <1>2, <1>3, Grown
  <1> QED BY <1>4 DEF T

-----------------------------------------------------------------------------
(* Normalized paths.                                                       *)

LEMMA PathFields ==
  ASSUME NEW form, NEW parts, NEW q
  PROVE  /\ Path(form, parts).form = form /\ Path(form, parts).parts = parts
         /\ [Path(form, parts) EXCEPT !.parts = q] = Path(form, q)
  BY DEF Path

PathsOf(form) == {Path(form, parts) : parts \in Words(Component)}
NormStates(form) == {Failed} \cup PathsOf(form)
NormSteps(form) ==
  [c \in Component |->
     [out \in NormStates(form) |-> NormalizeStep(out, c, form = "absolute")]]
Norm(form, parts) == Normalize(Path(form, parts))

LEMMA NormalizeStepType ==
  ASSUME NEW form, NEW out \in NormStates(form), NEW c \in Component
  PROVE  NormalizeStep(out, c, form = "absolute") \in NormStates(form)
  <1>1. CASE out = Failed
    BY <1>1 DEF NormalizeStep, NormStates
  <1>2. CASE out \in PathsOf(form)
    <2> PICK parts \in Words(Component) : out = Path(form, parts)
      BY <1>2 DEF PathsOf
    <2>1. /\ out.parts = parts
          /\ [out EXCEPT !.parts = Front(@)] = Path(form, Front(parts))
          /\ [out EXCEPT !.parts = Append(@, c)] = Path(form, Append(parts, c))
      BY DEF Path
    <2>2. Append(parts, c) \in Words(Component)
            /\ (parts # << >> => Front(parts) \in Words(Component))
      BY WordsFacts
    <2> QED BY <1>2, <2>1, <2>2 DEF NormalizeStep, NormStates, PathsOf
  <1> QED BY <1>1, <1>2 DEF NormStates

LEMMA NormIsFold ==
  ASSUME NEW form, NEW s \in Words(Component)
  PROVE  Norm(form, s) = Fold(NormSteps(form), Path(form, << >>), s)
  <1> DEFINE n == Len(s)
             S == NormStates(form)
             base == Path(form, << >>)
             op(x, c) == NormalizeStep(x, c, form = "absolute")
             step == [k \in 1..n |-> [x \in S |-> op(x, s[k])]]
             Eq(iter) == iter = [z \in SUBSET (1..n) |->
                IF z = {} THEN base ELSE op(iter[z \ {Max(z)}], s[Max(z)])]
             iter == CHOOSE f : Eq(f)
  <1>1. n \in Nat /\ DOMAIN s = 1..n /\ \A k \in 1..n : s[k] \in Component
    BY DEF Words
  <1>2. Norm(form, s) = iter[1..n]
    <2>1. /\ Path(form, s).form = form /\ Path(form, s).parts = s
      BY PathFields
    <2>2. Normalize(Path(form, s)) =
            FoldLeft(LAMBDA out, c : NormalizeStep(out, c, form = "absolute"), base, s)
      BY <2>1 DEF Normalize
    <2> QED BY <1>1, <2>2 DEF Norm, FoldLeft, MapThenFoldSet
  <1>3. base \in S /\ n \in Nat /\ step \in [1..n -> [S -> S]]
    <2>1. base \in S
      BY WordsFacts DEF NormStates, PathsOf
    <2>2. \A k \in 1..n, x \in S : op(x, s[k]) \in S
      BY <1>1, NormalizeStepType
    <2> HIDE DEF S, op, base
    <2> QED BY <1>1, <2>1, <2>2
  <1>4. \A k \in 1..n, x \in S : step[k][x] = op(x, s[k])
    OBVIOUS
  <1> HIDE DEF n, S, step, iter, base
  <1> PICK h : SubsetRun(S, base, n, step, h)
    BY <1>3, SubsetRuns
  <1>5. Eq(h)
    <2>3. /\ h \in [SUBSET (1..n) -> S]
          /\ \A z \in SUBSET (1..n) :
               h[z] = IF z = {} THEN base ELSE step[Max(z)][h[z \ {Max(z)}]]
      BY DEF SubsetRun
    <2>1. ASSUME NEW z \in SUBSET (1..n)
          PROVE  h[z] = IF z = {} THEN base ELSE op(h[z \ {Max(z)}], s[Max(z)])
      <3>1. CASE z # {}
        <4>1. Max(z) \in 1..n /\ z \ {Max(z)} \in SUBSET (1..n)
          BY <1>1, <3>1, Greatest
        <4> HIDE DEF op
        <4> QED BY <1>4, <2>3, <3>1, <4>1
      <3> QED BY <2>3, <3>1
    <2>2. h = [z \in SUBSET (1..n) |-> h[z]]
      BY <2>3
    <2> HIDE DEF op
    <2> QED BY <2>1, <2>2
  <1>6. Eq(iter)
    <2> HIDE DEF Eq
    <2> QED BY <1>5 DEF iter
  <1> HIDE DEF op
  <1>7. \A z \in SUBSET (1..n) :
          iter[z] = IF z = {} THEN base ELSE op(iter[z \ {Max(z)}], s[Max(z)])
    BY <1>6
  <1> HIDE DEF Eq
  <1> DEFINE f == [k \in 0..n |-> iter[1..k]]
  <1>8. f[0] = base /\ f[n] = iter[1..n]
    <2>1. 1..0 = {} /\ 1..0 \in SUBSET (1..n) /\ 0 \in 0..n /\ n \in 0..n
      BY <1>1
    <2> QED BY <1>7, <2>1
  <1>9. \A k \in 1..n : f[k - 1] \in S => f[k] = NormSteps(form)[s[k]][f[k - 1]]
    <2> SUFFICES ASSUME NEW k \in 1..n, f[k - 1] \in S
                 PROVE  f[k] = NormSteps(form)[s[k]][f[k - 1]]
      OBVIOUS
    <2>1. f[k] = iter[1..k] /\ f[k - 1] = iter[1..(k - 1)]
      BY <1>1
    <2>2. f[k] = op(f[k - 1], s[k])
      <3>1. /\ Max(1..k) = k /\ (1..k) \ {k} = 1..(k - 1) /\ 1..k # {}
            /\ 1..k \in SUBSET (1..n)
        BY <1>1, Segment
      <3>2. iter[1..k] = op(iter[(1..k) \ {Max(1..k)}], s[Max(1..k)])
        BY <1>7, <3>1
      <3> QED BY <2>1, <3>1, <3>2
    <2> HIDE DEF f
    <2>3. \A c \in Component, x \in S : NormSteps(form)[c][x] = op(x, c)
      BY DEF NormSteps, S, op
    <2> QED BY <1>1, <2>2, <2>3
  <1> DEFINE C == Component
             F == NormSteps(form)
  <1>10. F \in Steps(C, S)
    BY NormalizeStepType DEF NormSteps, Steps, S
  <1> HIDE DEF f, F, C
  <1>11. /\ F \in Steps(C, S) /\ base \in S /\ s \in Words(C)
         /\ f[0] = base
         /\ \A k \in 1..Len(s) : f[k - 1] \in S => f[k] = F[s[k]][f[k - 1]]
    BY <1>3, <1>8, <1>9, <1>10 DEF n, F, C
  <1>12. f[Len(s)] = Fold(F, base, s)
    BY <1>11, FoldIs
  <1> QED BY <1>2, <1>8, <1>12 DEF n, F, base

LEMMA NormFacts ==
  ASSUME NEW form
  PROVE  /\ Norm(form, << >>) = Path(form, << >>)
         /\ \A s \in Words(Component) : Norm(form, s) \in NormStates(form)
         /\ \A s \in Words(Component), c \in Component :
              Norm(form, Append(s, c)) =
                NormalizeStep(Norm(form, s), c, form = "absolute")
  <1> DEFINE C == Component
             S == NormStates(form)
             F == NormSteps(form)
             base == Path(form, << >>)
  <1>1. F \in Steps(C, S) /\ base \in S
    <2>1. base \in S
      BY WordsFacts DEF NormStates, PathsOf
    <2> HIDE DEF base
    <2> QED BY <2>1, NormalizeStepType DEF NormSteps, Steps
  <1>2. /\ << >> \in Words(C)
        /\ \A s \in Words(C), c \in C : Append(s, c) \in Words(C)
    BY WordsFacts
  <1>5. \A s \in Words(C) : Norm(form, s) = Fold(F, base, s)
    BY NormIsFold
  <1>6. \A c \in C, x \in S : F[c][x] = NormalizeStep(x, c, form = "absolute")
    BY DEF NormSteps
  <1> HIDE DEF C, F, S, base
  <1>4. /\ Fold(F, base, << >>) = base
        /\ \A s \in Words(C) : Fold(F, base, s) \in S
        /\ \A s \in Words(C), c \in C :
             Fold(F, base, Append(s, c)) = F[c][Fold(F, base, s)]
    BY <1>1, FoldFacts
  <1>7. S = NormStates(form) /\ base = Path(form, << >>) /\ C = Component
    BY DEF S, base, C
  <1> QED BY <1>2, <1>4, <1>5, <1>6, <1>7

Start(form, base) == IF form = "absolute" THEN << >> ELSE base

LEMMA ReachedWalks ==
  ASSUME NEW form, NEW base, NEW parts
  PROVE  Reached(base, Path(form, parts)) = Walk(Start(form, base), parts)
  BY PathFields DEF Reached, Walk, Start

\* Nothing is left to skip in a normalized path.
Plain(parts) == \A i \in 1..Len(parts) : parts[i] \notin {Empty, Dot}

LEMMA PlainFacts ==
  ASSUME NEW parts \in Words(Component)
  PROVE  /\ \A c \in Component \ {Empty, Dot} :
              Plain(parts) => Plain(Append(parts, c))
         /\ parts # << >> /\ Plain(parts) =>
              Plain(Front(parts)) /\ Last(parts) \notin {Empty, Dot}
  <1>1. ASSUME NEW c \in Component \ {Empty, Dot}, Plain(parts)
        PROVE  Plain(Append(parts, c))
    BY <1>1 DEF Plain, Words
  <1>2. ASSUME parts # << >>, Plain(parts)
        PROVE  Plain(Front(parts)) /\ Last(parts) \notin {Empty, Dot}
    <2> DEFINE f == Front(parts)
               x == Last(parts)
    <2>1. f \in Words(Component) /\ x \in Component /\ parts = Append(f, x)
      BY <1>2, WordsFacts
    <2> HIDE DEF f, x
    <2>2. /\ Len(f) \in Nat /\ Len(parts) = Len(f) + 1 /\ parts[Len(f) + 1] = x
          /\ \A i \in 1..Len(f) : parts[i] = f[i] /\ i \in 1..Len(parts)
      BY <2>1 DEF Words
    <2>3. Len(f) + 1 \in 1..Len(parts)
      BY <2>2
    <2>4. Plain(f) /\ x \notin {Empty, Dot}
      BY <1>2, <2>2, <2>3 DEF Plain
    <2> QED BY <2>4 DEF f, x
  <1> QED BY <1>1, <1>2

\* A path reaches the same place once it is normalized.
Straight(form, base, s) ==
  Norm(form, s) # Failed =>
    \E parts \in Words(Component) :
      /\ Norm(form, s) = Path(form, parts) /\ Plain(parts)
      /\ Walk(Start(form, base), parts) = Walk(Start(form, base), s)

LEMMA StraightStep ==
  ASSUME NEW form, NEW base \in Words(Component), NEW s \in Words(Component),
         NEW c \in Component, Straight(form, base, s)
  PROVE  Straight(form, base, Append(s, c))
  <1> DEFINE start == Start(form, base)
             out == Norm(form, s)
             next == Norm(form, Append(s, c))
  <1> SUFFICES ASSUME next # Failed
               PROVE  \E parts \in Words(Component) :
                        /\ next = Path(form, parts) /\ Plain(parts)
                        /\ Walk(start, parts) = Walk(start, Append(s, c))
    BY DEF Straight
  <1>1. start \in Words(Component)
    BY WordsFacts DEF Start
  <1>2. /\ next = NormalizeStep(out, c, form = "absolute")
        /\ Walk(start, Append(s, c)) = Step(Walk(start, s), c)
    <2>1. next = NormalizeStep(out, c, form = "absolute")
      BY <1>1, NormFacts
    <2>2. Walk(start, Append(s, c)) = Step(Walk(start, s), c)
      BY <1>1, WalkFacts
    <2> QED BY <2>1, <2>2
  <1> HIDE DEF out, next, start
  <1>3. out # Failed
    BY <1>2 DEF NormalizeStep
  <1> PICK parts \in Words(Component) :
           out = Path(form, parts) /\ Plain(parts) /\ Walk(start, parts) = Walk(start, s)
    BY <1>3 DEF Straight, out, start
  <1>4. /\ out.parts = parts
        /\ [out EXCEPT !.parts = Front(@)] = Path(form, Front(parts))
        /\ [out EXCEPT !.parts = Append(@, c)] = Path(form, Append(parts, c))
    BY DEF Path
  <1>5. CASE c \in {Empty, Dot}
    <2>1. next = out
      BY <1>2, <1>5 DEF NormalizeStep
    <2>2. Step(Walk(start, s), c) = Walk(start, s)
      BY <1>5 DEF Step
    <2> QED BY <1>2, <2>1, <2>2
  <1>6. CASE c = DotDot /\ parts # << >> /\ Last(parts) # DotDot
    <2> DEFINE f == Front(parts)
               x == Last(parts)
    <2>1. /\ f \in Words(Component) /\ x \in Component /\ parts = Append(f, x)
          /\ Plain(f) /\ x \notin {Empty, Dot, DotDot}
      BY <1>6, WordsFacts, PlainFacts
    <2>2. next = Path(form, f)
      BY <1>2, <1>3, <1>4, <1>6, SpecialComponents DEF NormalizeStep
    <2> HIDE DEF f, x
    <2>3. Walk(start, f) \in Words(Component)
            /\ Walk(start, parts) = Step(Walk(start, f), x)
      BY <1>1, <2>1, WalkFacts
    <2>4. Walk(start, parts) = Append(Walk(start, f), x)
      BY <2>1, <2>3 DEF Step
    <2>5. Step(Walk(start, s), c) = Front(Append(Walk(start, f), x))
      <3>1. Append(Walk(start, f), x) # << >>
        BY <2>1, <2>3, WordsFacts
      <3> QED BY <1>6, <2>4, <3>1, SpecialComponents DEF Step
    <2>6. Front(Append(Walk(start, f), x)) = Walk(start, f)
      BY <2>1, <2>3, WordsFacts
    <2> QED BY <1>2, <2>1, <2>2, <2>5, <2>6
  <1>7. CASE c \notin {Empty, Dot}
               /\ ~(c = DotDot /\ parts # << >> /\ Last(parts) # DotDot)
    <2>1. next = Path(form, Append(parts, c))
      BY <1>2, <1>3, <1>4, <1>7 DEF NormalizeStep
    <2>2. Append(parts, c) \in Words(Component) /\ Plain(Append(parts, c))
      BY <1>7, WordsFacts, PlainFacts
    <2>3. Walk(start, Append(parts, c)) = Step(Walk(start, parts), c)
      BY <1>1, WalkFacts
    <2> QED BY <1>2, <2>1, <2>2, <2>3
  <1> QED BY <1>5, <1>6, <1>7

LEMMA NormReaches ==
  ASSUME NEW form, NEW base \in Words(Component), NEW s \in Words(Component)
  PROVE  /\ Straight(form, base, s)
         /\ Norm(form, s) # Failed =>
              /\ Norm(form, s) \in PathsOf(form)
              /\ Reached(base, Norm(form, s)) = Reached(base, Path(form, s))
  <1> DEFINE T == {u \in Words(Component) : Straight(form, base, u)}
  <1>1. << >> \in T
    <2>1. << >> \in Words(Component) /\ Plain(<< >>)
      BY WordsFacts DEF Plain
    <2>2. Norm(form, << >>) = Path(form, << >>)
      BY NormFacts
    <2> QED BY <2>1, <2>2 DEF Straight
  <1>2. \A u \in Words(Component), c \in Component : u \in T => Append(u, c) \in T
    BY StraightStep, WordsFacts
  <1>3. s \in T
    <2> HIDE DEF T
    <2>1. \A u \in Words(Component) : u \in T
      BY <1>1, <1>2, Grown
    <2> QED BY <2>1
  <1> QED BY <1>3, ReachedWalks DEF Straight, PathsOf

-----------------------------------------------------------------------------
(* The entries of a playlist.                                              *)

\* Paths and lines, over the strings that the provers know.
Routes == [form : Text, parts : Words(Component)]
TextLines == [kind : {"comment", "zero", "entry"}, path : Routes]

LEMMA RouteFacts ==
  /\ \A p \in Routes :
       p = Path(p.form, p.parts) /\ p.form \in Text /\ p.parts \in Words(Component)
  /\ \A form \in Text : PathsOf(form) \subseteq Routes
  /\ Failed \in Routes /\ NoPath \in Routes
  /\ \A form \in Text : NormStates(form) \subseteq Routes
  <1>1. \A p \in Routes :
          p = Path(p.form, p.parts) /\ p.form \in Text /\ p.parts \in Words(Component)
    BY DEF Routes, Path
  <1>2. \A form \in Text : PathsOf(form) \subseteq Routes
    BY DEF Routes, PathsOf, Path
  <1>3. Failed \in Routes /\ NoPath \in Routes
    BY WordsFacts DEF Routes, Failed, NoPath, Path, Text
  <1> QED BY <1>1, <1>2, <1>3 DEF NormStates

LEMMA RouteWith ==
  ASSUME NEW p \in Routes, NEW parts
  PROVE  [p EXCEPT !.parts = parts] = Path(p.form, parts)
  <1> DEFINE q == [p EXCEPT !.parts = parts]
  <1>1. q = [p EXCEPT !.parts = parts] /\ p = [form |-> p.form, parts |-> p.parts]
    BY DEF Routes
  <1> HIDE DEF q
  <1>2. q = [form |-> p.form, parts |-> parts]
    BY <1>1
  <1> QED BY <1>2 DEF q, Path

LEMMA NormalizeType ==
  ASSUME NEW p \in Routes
  PROVE  Normalize(p) = Norm(p.form, p.parts) /\ Normalize(p) \in Routes
  <1>1. /\ p = Path(p.form, p.parts) /\ p.form \in Text
        /\ p.parts \in Words(Component)
    BY RouteFacts
  <1>2. Normalize(p) = Norm(p.form, p.parts)
    BY <1>1 DEF Norm
  <1>3. Norm(p.form, p.parts) \in NormStates(p.form)
    BY <1>1, NormFacts
  <1> QED BY <1>1, <1>2, <1>3, RouteFacts

EntryStep(paths, line) ==
  IF line.kind = "entry" THEN Append(paths, line.path) ELSE paths
EntrySteps == [c \in TextLines |-> [x \in Words(Routes) |-> EntryStep(x, c)]]

LEMMA EntryStepType ==
  ASSUME NEW paths \in Words(Routes), NEW line \in TextLines
  PROVE  EntryStep(paths, line) \in Words(Routes)
  <1>1. line.path \in Routes
    BY DEF TextLines
  <1> QED BY <1>1, WordsFacts DEF EntryStep

LEMMA EntriesIsFold ==
  ASSUME NEW s \in Words(TextLines)
  PROVE  Entries(s) = Fold(EntrySteps, << >>, s)
  <1> DEFINE n == Len(s)
             S == Words(Routes)
             base == << >>
             op(x, c) == EntryStep(x, c)
             step == [k \in 1..n |-> [x \in S |-> op(x, s[k])]]
             Eq(iter) == iter = [z \in SUBSET (1..n) |->
                IF z = {} THEN base ELSE op(iter[z \ {Max(z)}], s[Max(z)])]
             iter == CHOOSE f : Eq(f)
  <1>1. n \in Nat /\ DOMAIN s = 1..n /\ \A k \in 1..n : s[k] \in TextLines
    BY DEF Words
  <1>2. Entries(s) = iter[1..n]
    BY <1>1 DEF Entries, EntryStep, FoldLeft, MapThenFoldSet
  <1>3. base \in S /\ n \in Nat /\ step \in [1..n -> [S -> S]]
    <2>1. base \in S
      BY WordsFacts
    <2>2. \A k \in 1..n, x \in S : op(x, s[k]) \in S
      BY <1>1, EntryStepType
    <2> HIDE DEF S, op, base
    <2> QED BY <1>1, <2>1, <2>2
  <1>4. \A k \in 1..n, x \in S : step[k][x] = op(x, s[k])
    OBVIOUS
  <1> HIDE DEF n, S, step, iter, base
  <1> PICK h : SubsetRun(S, base, n, step, h)
    BY <1>3, SubsetRuns
  <1>5. Eq(h)
    <2>3. /\ h \in [SUBSET (1..n) -> S]
          /\ \A z \in SUBSET (1..n) :
               h[z] = IF z = {} THEN base ELSE step[Max(z)][h[z \ {Max(z)}]]
      BY DEF SubsetRun
    <2>1. ASSUME NEW z \in SUBSET (1..n)
          PROVE  h[z] = IF z = {} THEN base ELSE op(h[z \ {Max(z)}], s[Max(z)])
      <3>1. CASE z # {}
        <4>1. Max(z) \in 1..n /\ z \ {Max(z)} \in SUBSET (1..n)
          BY <1>1, <3>1, Greatest
        <4> HIDE DEF op
        <4> QED BY <1>4, <2>3, <3>1, <4>1
      <3> QED BY <2>3, <3>1
    <2>2. h = [z \in SUBSET (1..n) |-> h[z]]
      BY <2>3
    <2> HIDE DEF op
    <2> QED BY <2>1, <2>2
  <1>6. Eq(iter)
    <2> HIDE DEF Eq
    <2> QED BY <1>5 DEF iter
  <1> HIDE DEF op
  <1>7. \A z \in SUBSET (1..n) :
          iter[z] = IF z = {} THEN base ELSE op(iter[z \ {Max(z)}], s[Max(z)])
    BY <1>6
  <1> HIDE DEF Eq
  <1> DEFINE f == [k \in 0..n |-> iter[1..k]]
  <1>8. f[0] = base /\ f[n] = iter[1..n]
    <2>1. 1..0 = {} /\ 1..0 \in SUBSET (1..n) /\ 0 \in 0..n /\ n \in 0..n
      BY <1>1
    <2> QED BY <1>7, <2>1
  <1>9. \A k \in 1..n : f[k - 1] \in S => f[k] = EntrySteps[s[k]][f[k - 1]]
    <2> SUFFICES ASSUME NEW k \in 1..n, f[k - 1] \in S
                 PROVE  f[k] = EntrySteps[s[k]][f[k - 1]]
      OBVIOUS
    <2>1. f[k] = iter[1..k] /\ f[k - 1] = iter[1..(k - 1)]
      BY <1>1
    <2>2. f[k] = op(f[k - 1], s[k])
      <3>1. /\ Max(1..k) = k /\ (1..k) \ {k} = 1..(k - 1) /\ 1..k # {}
            /\ 1..k \in SUBSET (1..n)
        BY <1>1, Segment
      <3>2. iter[1..k] = op(iter[(1..k) \ {Max(1..k)}], s[Max(1..k)])
        BY <1>7, <3>1
      <3> QED BY <2>1, <3>1, <3>2
    <2> HIDE DEF f
    <2>3. \A c \in TextLines, x \in S : EntrySteps[c][x] = op(x, c)
      BY DEF EntrySteps, S, op
    <2> QED BY <1>1, <2>2, <2>3
  <1> DEFINE C == TextLines
             F == EntrySteps
  <1>10. F \in Steps(C, S)
    BY EntryStepType DEF EntrySteps, Steps, S
  <1> HIDE DEF f, F, C
  <1>11. /\ F \in Steps(C, S) /\ base \in S /\ s \in Words(C)
         /\ f[0] = base
         /\ \A k \in 1..Len(s) : f[k - 1] \in S => f[k] = F[s[k]][f[k - 1]]
    BY <1>3, <1>8, <1>9, <1>10 DEF n, F, C
  <1>12. f[Len(s)] = Fold(F, base, s)
    BY <1>11, FoldIs
  <1> QED BY <1>2, <1>8, <1>12 DEF n, F, base

LEMMA EntriesFacts ==
  /\ Entries(<< >>) = << >>
  /\ \A s \in Words(TextLines) : Entries(s) \in Words(Routes)
  /\ \A s \in Words(TextLines), c \in TextLines :
       Entries(Append(s, c)) =
         EntryStep(Entries(s), c)
  <1> DEFINE C == TextLines
             S == Words(Routes)
             F == EntrySteps
             base == << >>
             op(x, c) == EntryStep(x, c)
  <1>1. F \in Steps(C, S) /\ base \in S
    <2>1. base \in S
      BY WordsFacts
    <2> HIDE DEF base
    <2> QED BY <2>1, EntryStepType DEF EntrySteps, Steps
  <1>2. /\ << >> \in Words(C)
        /\ \A s \in Words(C), c \in C : Append(s, c) \in Words(C)
    BY WordsFacts
  <1>5. \A s \in Words(C) : Entries(s) = Fold(F, base, s)
    BY EntriesIsFold
  <1>6. \A c \in C, x \in S : F[c][x] = op(x, c)
    BY DEF EntrySteps
  <1> HIDE DEF C, F, S, base
  <1>4. /\ Fold(F, base, << >>) = base
        /\ \A s \in Words(C) : Fold(F, base, s) \in S
        /\ \A s \in Words(C), c \in C :
             Fold(F, base, Append(s, c)) = F[c][Fold(F, base, s)]
    BY <1>1, FoldFacts
  <1>7. S = Words(Routes) /\ base = << >> /\ C = TextLines
    BY DEF S, base, C
  <1> QED BY <1>2, <1>4, <1>5, <1>6, <1>7

LEMMA ResolveReaches ==
  ASSUME NEW base \in Words(Component), NEW d \in Routes, NEW entry \in Routes
  PROVE  /\ Resolve(d, entry) \in Routes
         /\ Resolve(d, entry) # Failed =>
              /\ Reached(base, Resolve(d, entry)) = Reached(Reached(base, d), entry)
              /\ Resolve(d, entry).form \in {"absolute", d.form}
  <1>1. /\ d = Path(d.form, d.parts) /\ d.form \in Text /\ d.parts \in Words(Component)
        /\ entry = Path(entry.form, entry.parts) /\ entry.form \in Text
        /\ entry.parts \in Words(Component)
    BY RouteFacts
  <1>2. /\ Failed \in Routes
        /\ \A p \in Routes : Normalize(p) \in Routes /\ Normalize(p) = Norm(p.form, p.parts)
    BY RouteFacts, NormalizeType
  <1>3. CASE Resolve(d, entry) = Failed
    BY <1>2, <1>3
  <1>4. CASE entry.form = "absolute" /\ Resolve(d, entry) # Failed
    <2>1. Resolve(d, entry) = Norm(entry.form, entry.parts)
            /\ Resolve(d, entry) \in Routes
      BY <1>2, <1>4 DEF Resolve
    <2>2. Reached(base, Norm(entry.form, entry.parts)) = Reached(base, entry)
      BY <1>1, <1>4, <2>1, NormReaches
    <2>3. Reached(base, entry) = Reached(Reached(base, d), entry)
      BY <1>4 DEF Reached
    <2>4. Resolve(d, entry).form = entry.form
      BY <1>1, <1>4, <2>1, NormReaches DEF PathsOf, Path
    <2> QED BY <1>4, <2>1, <2>2, <2>3, <2>4
  <1>5. CASE entry.form # "absolute" /\ Resolve(d, entry) # Failed
    <2> DEFINE parts == d.parts \o entry.parts
               p == Path(d.form, parts)
               start == Start(d.form, base)
    <2>1. [d EXCEPT !.parts = @ \o entry.parts] = p
      <3>1. [d EXCEPT !.parts = parts] = p
        BY RouteWith
      <3> QED BY <3>1
    <2>2. parts \in Words(Component)
      BY <1>1 DEF Words
    <2>3. p \in Routes /\ p.form = d.form /\ p.parts = parts
      BY <1>1, <2>2 DEF Routes, Path
    <2>4. Resolve(d, entry) = Normalize(p)
      BY <1>5, <2>1 DEF Resolve
    <2>5. Resolve(d, entry) \in Routes /\ Resolve(d, entry) = Norm(d.form, parts)
      BY <1>2, <2>3, <2>4
    <2>6. Reached(base, Resolve(d, entry)) = Reached(base, p)
      BY <1>1, <1>5, <2>2, <2>5, NormReaches
    <2>7. start \in Words(Component)
      BY WordsFacts DEF Start
    <2>8. Reached(base, p) = Walk(Walk(start, d.parts), entry.parts)
      BY <1>1, <2>7, ReachedWalks, WalkOn
    <2>9. Reached(base, d) = Walk(start, d.parts)
      BY <1>1, ReachedWalks
    <2>10. Reached(Reached(base, d), entry) = Walk(Reached(base, d), entry.parts)
      BY <1>5 DEF Reached, Walk
    <2>11. Resolve(d, entry).form = d.form
      <3>1. Resolve(d, entry) \in PathsOf(d.form)
        BY <1>5, <2>2, <2>5, NormReaches
      <3> QED BY <3>1, PathFields DEF PathsOf
    <2> QED BY <2>5, <2>6, <2>8, <2>9, <2>10, <2>11
  <1> QED BY <1>3, <1>4, <1>5

\* The path of a file ends in a name.
NamesFile(p) == p.parts # << >> /\ Last(p.parts) \notin {Empty, Dot, DotDot}

LEMMA DirectoryReaches ==
  ASSUME NEW base \in Words(Component), NEW p \in Routes, NamesFile(p)
  PROVE  /\ Directory(p) \in Routes
         /\ Directory(p) # Failed =>
              /\ Reached(base, Directory(p)) = Reached(base, [p EXCEPT !.parts = Front(@)])
              /\ Directory(p).form # "none"
  <1> DEFINE f == Front(p.parts)
             x == Last(p.parts)
             out == Norm(p.form, f)
             n == Normalize(p)
  <1>1. /\ p = Path(p.form, p.parts) /\ p.form \in Text /\ p.parts \in Words(Component)
        /\ Failed \in Routes
    BY RouteFacts
  <1>2. /\ f \in Words(Component) /\ x \in Component /\ p.parts = Append(f, x)
        /\ x \notin {Empty, Dot, DotDot}
    BY <1>1, WordsFacts DEF NamesFile
  <1>3. [p EXCEPT !.parts = Front(@)] = Path(p.form, f)
    BY <1>1 DEF Path
  <1>4. n = NormalizeStep(out, x, p.form = "absolute")
    <2>1. n = Norm(p.form, p.parts)
      BY NormalizeType
    <2>2. Norm(p.form, Append(f, x)) = NormalizeStep(out, x, p.form = "absolute")
      <3> HIDE DEF f, x
      <3> QED BY <1>2, NormFacts
    <2> QED BY <1>2, <2>1, <2>2
  <1>5. CASE Directory(p) = Failed
    BY <1>1, <1>5
  <1>6. CASE Directory(p) # Failed
    <2>1. n # Failed /\ Directory(p) = [n EXCEPT !.parts = Front(@)]
            /\ p.form # "none"
      BY <1>6 DEF Directory, Validate
    <2> HIDE DEF f, x, out, n
    <2>2. out # Failed /\ n = [out EXCEPT !.parts = Append(@, x)]
      BY <1>2, <1>4, <2>1 DEF NormalizeStep
    <2>3. /\ out \in PathsOf(p.form)
          /\ Reached(base, out) = Reached(base, Path(p.form, f))
      BY <1>2, <2>2, NormReaches DEF out
    <2> PICK parts \in Words(Component) : out = Path(p.form, parts)
      BY <2>3 DEF PathsOf
    <2>4. n = Path(p.form, Append(parts, x))
      BY <2>2 DEF Path
    <2>5. Directory(p) = Path(p.form, Front(Append(parts, x)))
      BY <2>1, <2>4 DEF Path
    <2>6. Front(Append(parts, x)) = parts
      BY <1>2, WordsFacts
    <2>7. Directory(p) = out /\ out \in Routes
      BY <1>1, <2>3, <2>5, <2>6, RouteFacts
    <2>8. Directory(p).form = p.form
      BY <2>7 DEF Path
    <2> QED BY <1>3, <2>1, <2>3, <2>7, <2>8
  <1> QED BY <1>5, <1>6

Parsed(d, lines) ==
  FoldLeft(LAMBDA entries, line : ParseLine(entries, line, d), << >>, lines)
ParseSteps(d) ==
  [c \in TextLines |-> [x \in Words(Routes) |-> ParseLine(x, c, d)]]

LEMMA ParseLineType ==
  ASSUME NEW d \in Routes, NEW entries \in Words(Routes), NEW line \in TextLines
  PROVE  ParseLine(entries, line, d) \in Words(Routes)
  <1>1. line.path \in Routes /\ Failed \in Routes /\ << >> \in Words(Component)
    BY RouteFacts, WordsFacts DEF TextLines
  <1>2. Resolve(d, line.path) \in Routes
    BY <1>1, ResolveReaches
  <1>3. <<Failed>> \in Words(Routes)
    BY <1>1 DEF Words
  <1>4. Append(entries, Resolve(d, line.path)) \in Words(Routes)
    BY <1>2, WordsFacts
  <1> QED BY <1>3, <1>4 DEF ParseLine

LEMMA ParsedIsFold ==
  ASSUME NEW d \in Routes, NEW s \in Words(TextLines)
  PROVE  Parsed(d, s) = Fold(ParseSteps(d), << >>, s)
  <1> DEFINE n == Len(s)
             S == Words(Routes)
             base == << >>
             op(x, c) == ParseLine(x, c, d)
             step == [k \in 1..n |-> [x \in S |-> op(x, s[k])]]
             Eq(iter) == iter = [z \in SUBSET (1..n) |->
                IF z = {} THEN base ELSE op(iter[z \ {Max(z)}], s[Max(z)])]
             iter == CHOOSE f : Eq(f)
  <1>1. n \in Nat /\ DOMAIN s = 1..n /\ \A k \in 1..n : s[k] \in TextLines
    BY DEF Words
  <1>2. Parsed(d, s) = iter[1..n]
    BY <1>1 DEF Parsed, FoldLeft, MapThenFoldSet
  <1>3. base \in S /\ n \in Nat /\ step \in [1..n -> [S -> S]]
    <2>1. base \in S
      BY WordsFacts
    <2>2. \A k \in 1..n, x \in S : op(x, s[k]) \in S
      BY <1>1, ParseLineType
    <2> HIDE DEF S, op, base
    <2> QED BY <1>1, <2>1, <2>2
  <1>4. \A k \in 1..n, x \in S : step[k][x] = op(x, s[k])
    OBVIOUS
  <1> HIDE DEF n, S, step, iter, base
  <1> PICK h : SubsetRun(S, base, n, step, h)
    BY <1>3, SubsetRuns
  <1>5. Eq(h)
    <2>3. /\ h \in [SUBSET (1..n) -> S]
          /\ \A z \in SUBSET (1..n) :
               h[z] = IF z = {} THEN base ELSE step[Max(z)][h[z \ {Max(z)}]]
      BY DEF SubsetRun
    <2>1. ASSUME NEW z \in SUBSET (1..n)
          PROVE  h[z] = IF z = {} THEN base ELSE op(h[z \ {Max(z)}], s[Max(z)])
      <3>1. CASE z # {}
        <4>1. Max(z) \in 1..n /\ z \ {Max(z)} \in SUBSET (1..n)
          BY <1>1, <3>1, Greatest
        <4> HIDE DEF op
        <4> QED BY <1>4, <2>3, <3>1, <4>1
      <3> QED BY <2>3, <3>1
    <2>2. h = [z \in SUBSET (1..n) |-> h[z]]
      BY <2>3
    <2> HIDE DEF op
    <2> QED BY <2>1, <2>2
  <1>6. Eq(iter)
    <2> HIDE DEF Eq
    <2> QED BY <1>5 DEF iter
  <1> HIDE DEF op
  <1>7. \A z \in SUBSET (1..n) :
          iter[z] = IF z = {} THEN base ELSE op(iter[z \ {Max(z)}], s[Max(z)])
    BY <1>6
  <1> HIDE DEF Eq
  <1> DEFINE f == [k \in 0..n |-> iter[1..k]]
  <1>8. f[0] = base /\ f[n] = iter[1..n]
    <2>1. 1..0 = {} /\ 1..0 \in SUBSET (1..n) /\ 0 \in 0..n /\ n \in 0..n
      BY <1>1
    <2> QED BY <1>7, <2>1
  <1>9. \A k \in 1..n : f[k - 1] \in S => f[k] = ParseSteps(d)[s[k]][f[k - 1]]
    <2> SUFFICES ASSUME NEW k \in 1..n, f[k - 1] \in S
                 PROVE  f[k] = ParseSteps(d)[s[k]][f[k - 1]]
      OBVIOUS
    <2>1. f[k] = iter[1..k] /\ f[k - 1] = iter[1..(k - 1)]
      BY <1>1
    <2>2. f[k] = op(f[k - 1], s[k])
      <3>1. /\ Max(1..k) = k /\ (1..k) \ {k} = 1..(k - 1) /\ 1..k # {}
            /\ 1..k \in SUBSET (1..n)
        BY <1>1, Segment
      <3>2. iter[1..k] = op(iter[(1..k) \ {Max(1..k)}], s[Max(1..k)])
        BY <1>7, <3>1
      <3> QED BY <2>1, <3>1, <3>2
    <2> HIDE DEF f
    <2>3. \A c \in TextLines, x \in S : ParseSteps(d)[c][x] = op(x, c)
      BY DEF ParseSteps, S, op
    <2> QED BY <1>1, <2>2, <2>3
  <1> DEFINE C == TextLines
             F == ParseSteps(d)
  <1>10. F \in Steps(C, S)
    BY ParseLineType DEF ParseSteps, Steps, S
  <1> HIDE DEF f, F, C
  <1>11. /\ F \in Steps(C, S) /\ base \in S /\ s \in Words(C)
         /\ f[0] = base
         /\ \A k \in 1..Len(s) : f[k - 1] \in S => f[k] = F[s[k]][f[k - 1]]
    BY <1>3, <1>8, <1>9, <1>10 DEF n, F, C
  <1>12. f[Len(s)] = Fold(F, base, s)
    BY <1>11, FoldIs
  <1> QED BY <1>2, <1>8, <1>12 DEF n, F, base

LEMMA ParsedFacts ==
  ASSUME NEW d \in Routes
  PROVE  /\ Parsed(d, << >>) = << >>
         /\ \A s \in Words(TextLines) : Parsed(d, s) \in Words(Routes)
         /\ \A s \in Words(TextLines), c \in TextLines :
              Parsed(d, Append(s, c)) =
                ParseLine(Parsed(d, s), c, d)
  <1> DEFINE C == TextLines
             S == Words(Routes)
             F == ParseSteps(d)
             base == << >>
             op(x, c) == ParseLine(x, c, d)
  <1>1. F \in Steps(C, S) /\ base \in S
    <2>1. base \in S
      BY WordsFacts
    <2> HIDE DEF base
    <2> QED BY <2>1, ParseLineType DEF ParseSteps, Steps
  <1>2. /\ << >> \in Words(C)
        /\ \A s \in Words(C), c \in C : Append(s, c) \in Words(C)
    BY WordsFacts
  <1>5. \A s \in Words(C) : Parsed(d, s) = Fold(F, base, s)
    BY ParsedIsFold
  <1>6. \A c \in C, x \in S : F[c][x] = op(x, c)
    BY DEF ParseSteps
  <1> HIDE DEF C, F, S, base
  <1>4. /\ Fold(F, base, << >>) = base
        /\ \A s \in Words(C) : Fold(F, base, s) \in S
        /\ \A s \in Words(C), c \in C :
             Fold(F, base, Append(s, c)) = F[c][Fold(F, base, s)]
    BY <1>1, FoldFacts
  <1>7. S = Words(Routes) /\ base = << >> /\ C = TextLines
    BY DEF S, base, C
  <1> QED BY <1>2, <1>4, <1>5, <1>6, <1>7

\* What has been parsed of a playlist is what its lines mean.
Agrees(base, d, lines) ==
  Parsed(d, lines) # <<Failed>> =>
    /\ Len(Parsed(d, lines)) = Len(Entries(lines))
    /\ \A i \in 1..Len(Parsed(d, lines)) :
         /\ Reached(base, Parsed(d, lines)[i]) =
              Reached(Reached(base, d), Entries(lines)[i])
         /\ Parsed(d, lines)[i] # NoPath

LEMMA ParsedAgrees ==
  ASSUME NEW base \in Words(Component), NEW d \in Routes, d.form # "none",
         NEW lines \in Words(TextLines)
  PROVE  Agrees(base, d, lines)
  <1> DEFINE T == {u \in Words(TextLines) : Agrees(base, d, u)}
  <1>1. << >> \in T
    <2>1. << >> \in Words(TextLines) /\ Parsed(d, << >>) = << >> /\ Entries(<< >>) = << >>
      BY WordsFacts, ParsedFacts, EntriesFacts
    <2>2. Agrees(base, d, << >>)
      BY <2>1 DEF Agrees
    <2> QED BY <2>1, <2>2
  <1>2. ASSUME NEW u \in Words(TextLines), NEW l \in TextLines, u \in T
        PROVE  Append(u, l) \in T
    <2> DEFINE es == Parsed(d, u)
               paths == Entries(u)
               p == Resolve(d, l.path)
               next == Parsed(d, Append(u, l))
               after == Entries(Append(u, l))
    <2>1. /\ es \in Words(Routes) /\ paths \in Words(Routes)
          /\ next = ParseLine(es, l, d) /\ after = EntryStep(paths, l)
          /\ Append(u, l) \in Words(TextLines)
      BY ParsedFacts, EntriesFacts, WordsFacts
    <2>2. /\ l.path \in Routes /\ l.kind \in {"comment", "zero", "entry"}
          /\ p \in Routes
          /\ p # Failed =>
               /\ Reached(base, p) = Reached(Reached(base, d), l.path)
               /\ p # NoPath
      BY ResolveReaches DEF TextLines, NoPath, Path
    <2>3. Agrees(base, d, u)
      BY <1>2
    <2>4. /\ es # <<Failed>> => Len(es) = Len(paths)
          /\ \A i \in 1..Len(es) : es # <<Failed>> =>
               /\ Reached(base, es[i]) = Reached(Reached(base, d), paths[i])
               /\ es[i] # NoPath
      BY <2>3 DEF Agrees
    <2> SUFFICES ASSUME next # <<Failed>>
                 PROVE  /\ Len(next) = Len(after)
                        /\ \A i \in 1..Len(next) :
                             /\ Reached(base, next[i]) = Reached(Reached(base, d), after[i])
                             /\ next[i] # NoPath
      BY <2>1 DEF Agrees
    <2> HIDE DEF es, paths, p, next, after
    <2>5. es # <<Failed>>
      BY <2>1 DEF ParseLine
    <2>6. CASE l.kind = "comment"
      <3>1. next = es /\ after = paths
        BY <2>1, <2>6 DEF ParseLine, EntryStep
      <3> QED BY <2>4, <2>5, <3>1
    <2>7. CASE l.kind # "comment"
      <3>1. next = Append(es, p) /\ p # Failed /\ l.kind = "entry"
        BY <2>1, <2>2, <2>5, <2>7 DEF ParseLine, p
      <3>2. after = Append(paths, l.path)
        BY <2>1, <3>1 DEF EntryStep
      <3>3. /\ Len(es) \in Nat /\ Len(paths) = Len(es)
            /\ Len(next) = Len(es) + 1 /\ Len(after) = Len(es) + 1
            /\ next[Len(es) + 1] = p /\ after[Len(es) + 1] = l.path
            /\ \A i \in 1..Len(es) : next[i] = es[i] /\ after[i] = paths[i]
        BY <2>1, <2>2, <2>4, <2>5, <3>1, <3>2 DEF Words
      <3>4. ASSUME NEW i \in 1..Len(next)
            PROVE  /\ Reached(base, next[i]) = Reached(Reached(base, d), after[i])
                   /\ next[i] # NoPath
        <4>1. i \in 1..Len(es) \/ i = Len(es) + 1
          BY <3>3
        <4> QED BY <2>2, <2>4, <2>5, <3>1, <3>3, <4>1
      <3> QED BY <3>3, <3>4
    <2> QED BY <2>6, <2>7
  <1> HIDE DEF T
  <1>3. \A u \in Words(TextLines) : u \in T
    BY <1>1, <1>2, Grown
  <1> QED BY <1>3 DEF T

-----------------------------------------------------------------------------
(* What the calls are given.                                               *)

LEMMA LargerWords ==
  ASSUME NEW A, NEW B, A \subseteq B
  PROVE  Seq(A) \subseteq Seq(B)
  OBVIOUS

LEMMA PathsAreRoutes ==
  /\ Places \subseteq Words(Component) /\ Paths \subseteq Routes
  /\ Lines \subseteq TextLines /\ Seq(Lines) \subseteq Words(TextLines)
  <1>1. STRING \subseteq Text
    BY DEF Text
  <1>2. Seq(STRING) \subseteq Component
    BY <1>1, LargerWords DEF Component
  <1>3. Seq(Seq(STRING)) \subseteq Seq(Component)
    BY <1>2, LargerWords
  <1>4. Places \subseteq Words(Component)
    BY <1>3 DEF Places, Words
  <1> HIDE DEF Places
  <1>5. Paths \subseteq Routes
    BY <1>1, <1>4 DEF Paths, Routes
  <1>6. Lines \subseteq TextLines
    BY <1>5 DEF Lines, TextLines
  <1>7. Seq(Lines) \subseteq Words(TextLines)
    BY <1>6, LargerWords DEF Words
  <1> QED BY <1>4, <1>5, <1>6, <1>7

LEMMA ContentConstants ==
  /\ Cwd \in Words(Component) /\ EntryCount = 2
  /\ \A g \in Games : g.path \in Routes /\ g.rom.hash \in Text
  /\ \A place \in DOMAIN Files : Files[place].hash \in Text
  /\ \A p \in Playlists :
       p.path \in Routes /\ NamesFile(p.path) /\ p.lines \in Words(TextLines)
  BY ContentAssumption, PathsAreRoutes DEF NamesFile, Text

\* A playlist that is parsed names the files that its lines mean.
Promised(m, path, asked) ==
  LET place == Reached(Cwd, path)
  IN /\ path \in Routes /\ path # NoPath
     /\ place \in DOMAIN Files =>
          asked[m] = [rom |-> {Files[place]}, place |-> {place}]

LEMMA PlaylistPromises ==
  ASSUME NEW p \in Playlists, NEW entries, entries = Parse(p.path, p),
         entries # <<Failed>>, NEW m \in Machines
  PROVE  Promised(m, entries[m + 1], Meant(p))
  <1> DEFINE d == Directory(p.path)
             base == Reached(Cwd, [p.path EXCEPT !.parts = Front(@)])
             paths == Entries(p.lines)
             place == Reached(Cwd, entries[m + 1])
  <1>1. /\ p.path \in Routes /\ NamesFile(p.path) /\ p.lines \in Words(TextLines)
        /\ Cwd \in Words(Component) /\ EntryCount = 2
    BY ContentConstants
  <1>2. /\ entries = Parsed(d, p.lines) /\ d # Failed /\ Len(entries) = 2
    BY <1>1 DEF Parse, Parsed
  <1>3. d \in Routes /\ d.form # "none" /\ Reached(Cwd, d) = base
    BY <1>1, <1>2, DirectoryReaches
  <1> HIDE DEF d, base, paths
  <1>4. Agrees(Cwd, d, p.lines)
    BY <1>1, <1>3, ParsedAgrees
  <1>5. m + 1 \in 1..2 /\ m < 2
    BY DEF Machines
  <1>6. /\ Len(paths) = 2 /\ entries[m + 1] # NoPath
        /\ place = Reached(base, paths[m + 1])
    BY <1>2, <1>3, <1>4, <1>5 DEF Agrees, paths
  <1>7. entries[m + 1] \in Routes
    <2>1. entries \in Words(Routes)
      BY <1>1, <1>2, <1>3, ParsedFacts
    <2> QED BY <1>2, <1>5, <2>1 DEF Words
  <1>8. place \in DOMAIN Files =>
          Meant(p)[m] = [rom |-> {Files[place]}, place |-> {place}]
    <2> HIDE DEF place
    <2>1. Meant(p)[m] =
            IF m < Len(paths) /\ Reached(base, paths[m + 1]) \in DOMAIN Files
            THEN [rom |-> {Files[Reached(base, paths[m + 1])]},
                  place |-> {Reached(base, paths[m + 1])}]
            ELSE NotGiven[m]
      BY DEF Meant, base, paths
    <2> QED BY <1>5, <1>6, <2>1
  <1> QED BY <1>6, <1>7, <1>8 DEF Promised

-----------------------------------------------------------------------------
(* The names of the save files.                                            *)

LEMMA StemOfName ==
  ASSUME NEW p, NEW q, p.parts # << >>, q.parts # << >>, Last(p.parts) = Last(q.parts)
  PROVE  Stem(p) = Stem(q)
  BY DEF Stem

LEMMA StemType ==
  ASSUME NEW p \in Routes
  PROVE  /\ Stem(p) \in Component
         /\ Stem(p) # NoName =>
              /\ SafeComponent(Stem(p)) /\ p.parts # << >>
              /\ SafeComponent(Last(p.parts))
  <1> DEFINE name == IF p.parts = << >> THEN NoName ELSE Last(p.parts)
             dots == {i \in 1 .. Len(name) - 1 : i > 1 \/ name[1] # ""}
             stem == IF dots = {} THEN name ELSE SubSeq(name, 1, Max(dots))
  <1>1. Stem(p) = IF SafeComponent(name) /\ SafeComponent(stem) THEN stem ELSE NoName
    BY DEF Stem
  <1>2. NoName \in Component
    BY DEF NoName, Component
  <1>3. p.parts \in Words(Component)
    BY RouteFacts
  <1>4. name \in Component
    BY <1>2, <1>3, WordsFacts
  <1>5. stem \in Component
    <2>1. CASE dots = {}
      BY <1>4, <2>1
    <2>2. CASE dots # {}
      <3>1. Len(name) \in Nat /\ Len(name) >= 1
        <4>1. Len(name) \in Nat
          BY <1>4 DEF Component
        <4>2. \E i : i \in 1..(Len(name) - 1)
          <5> HIDE DEF name
          <5> QED BY <2>2
        <4> HIDE DEF name
        <4> QED BY <4>1, <4>2
      <3>2. dots \in SUBSET (1..(Len(name) - 1)) /\ Len(name) - 1 \in Nat
        <4>1. \A i \in dots : i \in 1..(Len(name) - 1)
          <5> HIDE DEF name
          <5> QED OBVIOUS
        <4> HIDE DEF dots, name
        <4> QED BY <3>1, <4>1
      <3>3. Max(dots) \in 1..(Len(name) - 1)
        <4> HIDE DEF dots, name
        <4> QED BY <2>2, <3>2, Greatest
      <3>4. SubSeq(name, 1, Max(dots)) \in Seq(Text)
        <4> HIDE DEF dots, name
        <4> QED BY <1>4, <3>1, <3>3 DEF Component
      <3> QED BY <2>2, <3>4 DEF Component
    <2> QED BY <2>1, <2>2
  <1> HIDE DEF stem
  <1>6. ~SafeComponent(NoName)
    BY DEF SafeComponent
  <1> QED BY <1>1, <1>2, <1>5, <1>6

\* The stem of a path is that of the place it reaches.
LEMMA PlaceStem ==
  ASSUME NEW base \in Words(Component), NEW p \in Routes, Stem(p) # NoName
  PROVE  Stem(Path("absolute", Reached(base, p))) = Stem(p)
  <1> DEFINE f == Front(p.parts)
             x == Last(p.parts)
             start == Start(p.form, base)
  <1>1. /\ p.parts # << >> /\ SafeComponent(x)
        /\ p = Path(p.form, p.parts) /\ p.parts \in Words(Component)
    BY StemType, RouteFacts
  <1>2. f \in Words(Component) /\ x \in Component /\ p.parts = Append(f, x)
    BY <1>1, WordsFacts
  <1>3. start \in Words(Component)
    BY WordsFacts DEF Start
  <1>4. Reached(base, p) = Walk(start, p.parts)
    BY <1>1, ReachedWalks
  <1> HIDE DEF f, x, start
  <1>5. Walk(start, p.parts) = Step(Walk(start, f), x)
          /\ Walk(start, f) \in Words(Component)
    BY <1>2, <1>3, WalkFacts
  <1>6. Reached(base, p) = Append(Walk(start, f), x)
    BY <1>1, <1>4, <1>5 DEF Step, SafeComponent
  <1>7. Reached(base, p) # << >> /\ Last(Reached(base, p)) = x
    BY <1>2, <1>5, <1>6, WordsFacts
  <1> QED BY <1>1, <1>7, StemOfName DEF Path, x

\* Names made of a stem and one or two more parts.
LEMMA TailFacts ==
  ASSUME NEW a \in Component, NEW x \in Text, NEW y \in Text
  PROVE  /\ a \o <<x>> = Append(a, x) /\ a \o <<x, y>> = Append(Append(a, x), y)
         /\ a \o <<x>> \in Component /\ a \o <<x, y>> \in Component
  BY DEF Component

LEMMA TailEnds ==
  ASSUME NEW a \in Component, NEW x \in Text, NEW y \in Text
  PROVE  /\ Last(a \o <<x>>) = x /\ Front(a \o <<x>>) = a
         /\ Last(a \o <<x, y>>) = y /\ Front(a \o <<x, y>>) = a \o <<x>>
         /\ Front(Front(a \o <<x, y>>)) = a
  <1>1. Component = Words(Text)
    BY DEF Component, Words
  <1> DEFINE b == Append(a, x)
             c == Append(b, y)
  <1>2. a \o <<x>> = b /\ a \o <<x, y>> = c /\ b \in Component
    BY TailFacts
  <1>3. Last(b) = x /\ Front(b) = a
    BY <1>1, WordsFacts
  <1> HIDE DEF b
  <1>4. Last(c) = y /\ Front(c) = b
    BY <1>1, <1>2, WordsFacts
  <1> HIDE DEF c
  <1> QED BY <1>2, <1>3, <1>4

LEMMA FirstTwo ==
  ASSUME NEW C, NEW s \in Seq(C), Len(s) >= 2
  PROVE  SubSeq(s, 1, 2) = <<s[1], s[2]>>
  <1> DEFINE t == SubSeq(s, 1, 2)
             u == <<s[1], s[2]>>
  <1>1. t \in Seq(C) /\ Len(t) = 2 /\ t[1] = s[1] /\ t[2] = s[2]
    OBVIOUS
  <1>2. u \in Seq(C) /\ Len(u) = 2 /\ u[1] = s[1] /\ u[2] = s[2]
    OBVIOUS
  <1> HIDE DEF t, u
  <1>3. \A i \in 1..Len(t) : t[i] = u[i]
    BY <1>1, <1>2
  <1>4. t = u
    BY <1>1, <1>2, <1>3
  <1> QED BY <1>4 DEF t, u

LEMMA SuffixOfTwo ==
  ASSUME NEW a \in Component, NEW x \in Text, NEW y \in Text
  PROVE  /\ IsSuffix(<<x, y>>, a \o <<x, y>>)
         /\ \A z \in Text : IsSuffix(<<x, y>>, a \o <<z>>) => y = z
         /\ SubSeq(a \o <<x, y>>, 1, Len(a \o <<x, y>>) - 2) = a
  <1>1. ASSUME NEW z \in Text, IsSuffix(<<x, y>>, a \o <<z>>) PROVE y = z
    <2> DEFINE t == a \o <<z>>
               r == Reverse(t)
               q == Reverse(<<x, y>>)
    <2>1. t \in Seq(Text) /\ Len(t) = Len(a) + 1 /\ t[Len(t)] = z /\ Len(a) \in Nat
      BY DEF Component
    <2>2. q \in Seq({x, y}) /\ Len(q) = 2 /\ q[1] = y
      BY DEF Reverse
    <2> HIDE DEF t
    <2>3. r \in Seq(Text) /\ Len(r) = Len(t) /\ r[1] = z
      BY <2>1 DEF Reverse
    <2> HIDE DEF r, q
    <2>4. Len(q) <= Len(r) /\ SubSeq(q, 1, Len(q)) = SubSeq(r, 1, Len(q))
      BY <1>1 DEF IsSuffix, IsPrefix, r, q, t
    <2>5. SubSeq(q, 1, 2)[1] = q[1]
      BY <2>2
    <2>6. SubSeq(r, 1, 2)[1] = r[1]
      BY <2>2, <2>3, <2>4
    <2> QED BY <2>2, <2>3, <2>4, <2>5, <2>6
  <1>2. IsSuffix(<<x, y>>, a \o <<x, y>>)
    <2> DEFINE t == a \o <<x, y>>
               r == Reverse(t)
               q == Reverse(<<x, y>>)
    <2>1. /\ t \in Seq(Text) /\ Len(t) = Len(a) + 2 /\ Len(a) \in Nat
          /\ t[Len(t)] = y /\ t[Len(t) - 1] = x
      BY DEF Component
    <2>2. q \in Seq({x, y}) /\ Len(q) = 2 /\ q[1] = y /\ q[2] = x
      BY DEF Reverse
    <2> HIDE DEF t
    <2>3. r \in Seq(Text) /\ Len(r) = Len(t) /\ r[1] = y /\ r[2] = x
      BY <2>1 DEF Reverse
    <2> HIDE DEF r, q
    <2>4. SubSeq(q, 1, 2) = <<y, x>>
      BY <2>2, FirstTwo
    <2>5. Len(r) >= 2
      BY <2>1, <2>3
    <2>6. SubSeq(r, 1, 2) = <<y, x>>
      BY <2>3, <2>5, FirstTwo
    <2> QED BY <2>2, <2>4, <2>5, <2>6 DEF IsSuffix, IsPrefix, r, q, t
  <1>3. SubSeq(a \o <<x, y>>, 1, Len(a \o <<x, y>>) - 2) = a
    <2>1. Len(a \o <<x, y>>) = Len(a) + 2 /\ Len(a) \in Nat
      BY DEF Component
    <2>2. Len(a \o <<x, y>>) - 2 = Len(a)
      BY <2>1
    <2>3. SubSeq(a \o <<x, y>>, 1, Len(a)) = a
      BY DEF Component
    <2> QED BY <2>2, <2>3
  <1> QED BY <1>1, <1>2, <1>3

\* The last part of a name that tells the files of one machine apart.
Kinds == <<"srm", "rtc", "sav", "bin">>
Count(firmware) == IF firmware THEN 4 ELSE 3

LEMMA KindFacts ==
  /\ Kinds[1] = "srm" /\ Kinds[2] = "rtc" /\ Kinds[3] = "sav" /\ Kinds[4] = "bin"
  /\ \A i, j \in 1..4 : Kinds[i] = Kinds[j] => i = j
  /\ \A i \in 1..4 : Kinds[i] # "2"
  <1>1. Kinds[1] = "srm" /\ Kinds[2] = "rtc" /\ Kinds[3] = "sav" /\ Kinds[4] = "bin"
    BY DEF Kinds
  <1>2. \A i \in 1..4 : i = 1 \/ i = 2 \/ i = 3 \/ i = 4
    OBVIOUS
  <1> QED BY <1>1, <1>2

LEMMA JoinFacts ==
  ASSUME NEW stem, NEW suffix, Join(stem, suffix) # NoName
  PROVE  Join(stem, suffix) = stem \o suffix
  BY DEF Join

-----------------------------------------------------------------------------
(* The names two machines can be given.                                    *)

\* Two short sequences one after the other.
LEMMA OneMore ==
  ASSUME NEW x, NEW y, NEW z
  PROVE  <<x>> \o <<z>> = <<x, z>> /\ <<x, y>> \o <<z>> = <<x, y, z>>
  <1> DEFINE C == {x, y, z}
             r == <<x>>
             s == <<x, y>>
             t == <<z>>
             u == <<x, z>>
             v == <<x, y, z>>
  <1>1. /\ r \in Seq(C) /\ Len(r) = 1 /\ r[1] = x
        /\ s \in Seq(C) /\ Len(s) = 2 /\ s[1] = x /\ s[2] = y
        /\ t \in Seq(C) /\ Len(t) = 1 /\ t[1] = z
        /\ u \in Seq(C) /\ Len(u) = 2 /\ u[1] = x /\ u[2] = z
        /\ v \in Seq(C) /\ Len(v) = 3 /\ v[1] = x /\ v[2] = y /\ v[3] = z
    OBVIOUS
  <1> HIDE DEF C, r, s, t, u, v
  <1>2. /\ r \o t \in Seq(C) /\ Len(r \o t) = Len(r) + Len(t)
        /\ \A i \in 1 .. Len(r) + Len(t) :
             (r \o t)[i] = IF i <= Len(r) THEN r[i] ELSE t[i - Len(r)]
        /\ s \o t \in Seq(C) /\ Len(s \o t) = Len(s) + Len(t)
        /\ \A i \in 1 .. Len(s) + Len(t) :
             (s \o t)[i] = IF i <= Len(s) THEN s[i] ELSE t[i - Len(s)]
    BY <1>1, ConcatProperties
  <1>3. r \o t = u
    <2> DEFINE w == r \o t
    <2>1. /\ w \in Seq(C) /\ Len(w) = 2
          /\ \A i \in 1..2 : w[i] = IF i <= 1 THEN r[i] ELSE t[i - 1]
      BY <1>1, <1>2
    <2> HIDE DEF w
    <2>2. w[1] = x /\ w[2] = z
      BY <1>1, <2>1
    <2> QED BY <1>1, <2>1, <2>2 DEF w
  <1>4. s \o t = v
    <2> DEFINE w == s \o t
    <2>1. /\ w \in Seq(C) /\ Len(w) = 3
          /\ \A i \in 1..3 : w[i] = IF i <= 2 THEN s[i] ELSE t[i - 2]
      BY <1>1, <1>2
    <2> HIDE DEF w
    <2>2. w[1] = x /\ w[2] = y /\ w[3] = z
      BY <1>1, <2>1
    <2> QED BY <1>1, <2>1, <2>2 DEF w
  <1> QED BY <1>3, <1>4 DEF r, s, t, u, v

\* The names of one machine, in their order.
LEMMA NamesFacts ==
  ASSUME NEW set
  PROVE  /\ Len(Names(set)) = Count(set.firmware # NoName)
         /\ Names(set) \in
              Seq({set.sram, set.rtc, LegacySav(set.sram), set.firmware})
         /\ Names(set)[1] = set.sram /\ Names(set)[2] = set.rtc
         /\ Names(set)[3] = LegacySav(set.sram)
         /\ set.firmware # NoName => Names(set)[4] = set.firmware
  <1> DEFINE n1 == set.sram
             n2 == set.rtc
             n3 == LegacySav(set.sram)
             n4 == set.firmware
             s == <<n1, n2, n3>>
             t == <<n4>>
             C == {n1, n2, n3, n4}
             N == Names(set)
  <1>1. /\ s \in Seq(C) /\ Len(s) = 3 /\ s[1] = n1 /\ s[2] = n2 /\ s[3] = n3
        /\ t \in Seq(C) /\ Len(t) = 1 /\ t[1] = n4
    <2> HIDE DEF n1, n2, n3, n4
    <2> QED OBVIOUS
  <1>2. N = IF n4 # NoName THEN s \o t ELSE s \o << >>
    BY DEF Names
  <1> HIDE DEF n1, n2, n3, n4, s, t, C, N
  <1>3. CASE n4 # NoName
    <2>1. /\ s \o t \in Seq(C) /\ Len(s \o t) = Len(s) + Len(t)
          /\ \A i \in 1 .. Len(s) + Len(t) :
               (s \o t)[i] = IF i <= Len(s) THEN s[i] ELSE t[i - Len(s)]
      BY <1>1, ConcatProperties
    <2>2. /\ N \in Seq(C) /\ Len(N) = 4
          /\ \A i \in 1..4 : N[i] = IF i <= 3 THEN s[i] ELSE t[i - 3]
      BY <1>1, <1>2, <1>3, <2>1
    <2>3. N[1] = s[1] /\ N[2] = s[2] /\ N[3] = s[3] /\ N[4] = t[1]
      BY <2>2
    <2> QED BY <1>1, <1>3, <2>2, <2>3 DEF Count, C, N, n1, n2, n3, n4
  <1>4. CASE n4 = NoName
    <2>1. s \o << >> = s
      BY <1>1, ConcatEmptySeq
    <2> QED BY <1>1, <1>2, <1>4, <2>1 DEF Count, C, N, n1, n2, n3, n4
  <1> QED BY <1>3, <1>4

LEMMA FirstNames ==
  ASSUME NEW a \in Component, NEW firmware \in BOOLEAN, NEW set,
         set = FileSet(a, FALSE, firmware),
         set.sram # NoName, set.rtc # NoName, firmware => set.firmware # NoName
  PROVE  /\ set.sram = a \o <<"srm">> /\ Len(Names(set)) = Count(firmware)
         /\ Names(set) \in Seq(Component)
         /\ Names(set)[1] = a \o <<"srm">> /\ Names(set)[2] = a \o <<"rtc">>
         /\ Names(set)[3] = a \o <<"sav">>
         /\ firmware => Names(set)[4] = a \o <<"firmware", "bin">>
  <1>1. /\ set.sram = Join(a, <<"srm">> \o << >>) /\ set.rtc = Join(a, <<"rtc">> \o << >>)
        /\ set.firmware = IF firmware THEN Join(a, <<"firmware", "bin">> \o << >>)
                          ELSE NoName
    BY DEF FileSet
  <1>2. /\ <<"srm">> \o << >> = <<"srm">> /\ <<"rtc">> \o << >> = <<"rtc">>
        /\ <<"firmware", "bin">> \o << >> = <<"firmware", "bin">>
    <2>1. <<"srm">> \in Seq(Text) /\ <<"rtc">> \in Seq(Text) /\ <<"firmware", "bin">> \in Seq(Text)
      BY DEF Text
    <2> QED BY <2>1, ConcatEmptySeq
  <1> DEFINE n1 == a \o <<"srm">>
             n2 == a \o <<"rtc">>
             n3 == a \o <<"sav">>
             n4 == a \o <<"firmware", "bin">>
  <1>3. /\ set.sram = n1 /\ set.rtc = n2
        /\ firmware => set.firmware = n4 /\ n4 # NoName
        /\ ~firmware => set.firmware = NoName
    BY <1>1, <1>2, JoinFacts
  <1>4. {"srm", "rtc", "sav", "firmware", "bin", "2"} \subseteq Text /\ "srm" # "2"
    BY DEF Text
  <1>5. LegacySav(set.sram) = n3
    <2>1. ~IsSuffix(<<"srm", "2">>, a \o <<"srm">>)
      BY <1>4, SuffixOfTwo
    <2>2. Front(a \o <<"srm">>) = a
      BY <1>4, TailEnds
    <2> QED BY <1>3, <2>1, <2>2 DEF LegacySav
  <1>6. n1 \in Component /\ n2 \in Component /\ n3 \in Component /\ n4 \in Component
    BY <1>4, TailFacts
  <1> HIDE DEF n1, n2, n3, n4
  <1>7. /\ Len(Names(set)) = Count(firmware)
        /\ Names(set) \in Seq({n1, n2, n3, IF firmware THEN n4 ELSE NoName})
        /\ Names(set)[1] = n1 /\ Names(set)[2] = n2 /\ Names(set)[3] = n3
        /\ firmware => Names(set)[4] = n4
    <2>1. (set.firmware # NoName) = firmware
      BY <1>3
    <2>2. CASE firmware
      BY <1>3, <1>5, <2>1, <2>2, NamesFacts
    <2>3. CASE ~firmware
      <3>1. {set.sram, set.rtc, LegacySav(set.sram), set.firmware} = {n1, n2, n3, NoName}
        BY <1>3, <1>5, <2>3
      <3> QED BY <1>3, <1>5, <2>1, <2>3, <3>1, NamesFacts
    <2> QED BY <2>2, <2>3
  <1>8. Names(set) \in Seq(Component)
    <2>1. {n1, n2, n3, IF firmware THEN n4 ELSE NoName} \subseteq Component
      BY <1>6 DEF Component, NoName
    <2> QED BY <1>7, <2>1, LargerWords
  <1> QED BY <1>3, <1>7, <1>8 DEF n1, n2, n3, n4

LEMMA SecondNames ==
  ASSUME NEW a \in Component, NEW firmware \in BOOLEAN, NEW set,
         set = FileSet(a, TRUE, firmware),
         set.sram # NoName, set.rtc # NoName, firmware => set.firmware # NoName
  PROVE  /\ set.sram = a \o <<"srm", "2">> /\ Len(Names(set)) = Count(firmware)
         /\ Names(set) \in Seq(Component)
         /\ Names(set)[1] = a \o <<"srm", "2">> /\ Names(set)[2] = a \o <<"rtc", "2">>
         /\ Names(set)[3] = a \o <<"sav", "2">>
         /\ firmware => Names(set)[4] = (a \o <<"firmware">>) \o <<"bin", "2">>
  <1>1. /\ set.sram = Join(a, <<"srm">> \o <<"2">>) /\ set.rtc = Join(a, <<"rtc">> \o <<"2">>)
        /\ set.firmware = IF firmware THEN Join(a, <<"firmware", "bin">> \o <<"2">>)
                          ELSE NoName
    BY DEF FileSet
  <1>2. /\ <<"srm">> \o <<"2">> = <<"srm", "2">> /\ <<"rtc">> \o <<"2">> = <<"rtc", "2">>
        /\ <<"firmware", "bin">> \o <<"2">> = <<"firmware", "bin", "2">>
    BY OneMore
  <1> DEFINE n1 == a \o <<"srm", "2">>
             n2 == a \o <<"rtc", "2">>
             n3 == a \o <<"sav", "2">>
             n4 == (a \o <<"firmware">>) \o <<"bin", "2">>
  <1>9. a \o <<"firmware", "bin", "2">> = n4
    BY DEF Component
  <1>3. /\ set.sram = n1 /\ set.rtc = n2
        /\ firmware => set.firmware = n4 /\ n4 # NoName
        /\ ~firmware => set.firmware = NoName
    BY <1>1, <1>2, <1>9, JoinFacts
  <1>4. {"srm", "rtc", "sav", "firmware", "bin", "2"} \subseteq Text
    BY DEF Text
  <1>5. LegacySav(set.sram) = n3
    <2>1. /\ IsSuffix(<<"srm", "2">>, a \o <<"srm", "2">>)
          /\ SubSeq(a \o <<"srm", "2">>, 1, Len(a \o <<"srm", "2">>) - 2) = a
      BY <1>4, SuffixOfTwo
    <2> QED BY <1>3, <2>1 DEF LegacySav
  <1>6. n1 \in Component /\ n2 \in Component /\ n3 \in Component /\ n4 \in Component
    BY <1>4, TailFacts
  <1> HIDE DEF n1, n2, n3, n4
  <1>7. /\ Len(Names(set)) = Count(firmware)
        /\ Names(set) \in Seq({n1, n2, n3, IF firmware THEN n4 ELSE NoName})
        /\ Names(set)[1] = n1 /\ Names(set)[2] = n2 /\ Names(set)[3] = n3
        /\ firmware => Names(set)[4] = n4
    <2>1. (set.firmware # NoName) = firmware
      BY <1>3
    <2>2. CASE firmware
      BY <1>3, <1>5, <2>1, <2>2, NamesFacts
    <2>3. CASE ~firmware
      <3>1. {set.sram, set.rtc, LegacySav(set.sram), set.firmware} = {n1, n2, n3, NoName}
        BY <1>3, <1>5, <2>3
      <3> QED BY <1>3, <1>5, <2>1, <2>3, <3>1, NamesFacts
    <2> QED BY <2>2, <2>3
  <1>8. Names(set) \in Seq(Component)
    <2>1. {n1, n2, n3, IF firmware THEN n4 ELSE NoName} \subseteq Component
      BY <1>6 DEF Component, NoName
    <2> QED BY <1>7, <2>1, LargerWords
  <1> QED BY <1>3, <1>7, <1>8 DEF n1, n2, n3, n4

LEMMA Ends ==
  ASSUME NEW a \in Component
  PROVE  /\ \A x \in Text : Last(a \o <<x>>) = x /\ Front(a \o <<x>>) = a
         /\ \A x, y \in Text : /\ Last(a \o <<x, y>>) = y
                               /\ Last(Front(a \o <<x, y>>)) = x
                               /\ Front(Front(a \o <<x, y>>)) = a
  <1>1. ASSUME NEW x \in Text
        PROVE  Last(a \o <<x>>) = x /\ Front(a \o <<x>>) = a
    BY TailEnds
  <1>2. ASSUME NEW x \in Text, NEW y \in Text
        PROVE  /\ Last(a \o <<x, y>>) = y /\ Last(Front(a \o <<x, y>>)) = x
               /\ Front(Front(a \o <<x, y>>)) = a
    <2>1. /\ Last(a \o <<x, y>>) = y /\ Front(a \o <<x, y>>) = a \o <<x>>
          /\ Front(Front(a \o <<x, y>>)) = a
      BY SMTT(30), TailEnds
    <2> QED BY <1>1, <2>1
  <1> QED BY <1>1, <1>2

\* How the names of the first machine end.
EndAs(names, count, a) ==
  \A k \in 1..count :
    /\ Last(names[k]) = Kinds[k]
    /\ (IF k = 4 THEN Front(Front(names[k])) ELSE Front(names[k])) = a

LEMMA FirstEnds ==
  ASSUME NEW a \in Component, NEW firmware \in BOOLEAN, NEW set,
         set = FileSet(a, FALSE, firmware),
         set.sram # NoName, set.rtc # NoName, firmware => set.firmware # NoName
  PROVE  EndAs(Names(set), Count(firmware), a)
  <1> SUFFICES
        ASSUME NEW k \in 1..Count(firmware)
        PROVE  /\ Last(Names(set)[k]) = Kinds[k]
               /\ (IF k = 4 THEN Front(Front(Names(set)[k])) ELSE Front(Names(set)[k])) = a
    BY DEF EndAs
  <1>1. {"srm", "rtc", "sav", "firmware", "bin"} \subseteq Text
    BY DEF Text
  <1>2. /\ Names(set)[1] = a \o <<"srm">> /\ Names(set)[2] = a \o <<"rtc">>
        /\ Names(set)[3] = a \o <<"sav">>
        /\ firmware => Names(set)[4] = a \o <<"firmware", "bin">>
    BY FirstNames
  <1>3. k = 1 \/ k = 2 \/ k = 3 \/ (k = 4 /\ firmware)
    BY DEF Count
  <1>8. /\ \A x \in Text : Last(a \o <<x>>) = x /\ Front(a \o <<x>>) = a
        /\ \A x, y \in Text : /\ Last(a \o <<x, y>>) = y
                              /\ Front(Front(a \o <<x, y>>)) = a
    BY Ends
  <1>4. CASE k = 1
    <2>1. "srm" \in Text /\ Names(set)[k] = a \o <<"srm">>
      BY <1>1, <1>2, <1>4
    <2>2. Last(Names(set)[k]) = "srm" /\ Front(Names(set)[k]) = a
      BY <1>8, <2>1
    <2> QED BY <1>4, <2>2, KindFacts
  <1>5. CASE k = 2
    <2>1. "rtc" \in Text /\ Names(set)[k] = a \o <<"rtc">>
      BY <1>1, <1>2, <1>5
    <2>2. Last(Names(set)[k]) = "rtc" /\ Front(Names(set)[k]) = a
      BY <1>8, <2>1
    <2> QED BY <1>5, <2>2, KindFacts
  <1>6. CASE k = 3
    <2>1. "sav" \in Text /\ Names(set)[k] = a \o <<"sav">>
      BY <1>1, <1>2, <1>6
    <2>2. Last(Names(set)[k]) = "sav" /\ Front(Names(set)[k]) = a
      BY <1>8, <2>1
    <2> QED BY <1>6, <2>2, KindFacts
  <1>7. CASE k = 4 /\ firmware
    <2> DEFINE name == Names(set)[k]
    <2>1. name = a \o <<"firmware", "bin">>
      BY <1>2, <1>7
    <2>2. Last(name) = "bin" /\ Front(Front(name)) = a
      <3>1. "firmware" \in Text /\ "bin" \in Text
        BY <1>1
      <3> HIDE DEF name
      <3> QED BY SMTT(30), <1>8, <2>1, <3>1
    <2> QED BY <1>7, <2>2, KindFacts
  <1> QED BY <1>3, <1>4, <1>5, <1>6, <1>7

\* How those of the second one end when they collide with those.
EndsAgain(names, count) ==
  \A k \in 1..count : Last(names[k]) = "2" /\ Last(Front(names[k])) = Kinds[k]

LEMMA SecondEnds ==
  ASSUME NEW a \in Component, NEW firmware \in BOOLEAN, NEW set,
         set = FileSet(a, TRUE, firmware),
         set.sram # NoName, set.rtc # NoName, firmware => set.firmware # NoName
  PROVE  EndsAgain(Names(set), Count(firmware))
  <1> SUFFICES ASSUME NEW k \in 1..Count(firmware)
               PROVE  Last(Names(set)[k]) = "2" /\ Last(Front(Names(set)[k])) = Kinds[k]
    BY DEF EndsAgain
  <1>1. {"srm", "rtc", "sav", "firmware", "bin", "2"} \subseteq Text
    BY DEF Text
  <1> DEFINE b == a \o <<"firmware">>
  <1>2. /\ Names(set)[1] = a \o <<"srm", "2">> /\ Names(set)[2] = a \o <<"rtc", "2">>
        /\ Names(set)[3] = a \o <<"sav", "2">>
        /\ firmware => Names(set)[4] = b \o <<"bin", "2">>
    BY SecondNames
  <1>3. k = 1 \/ k = 2 \/ k = 3 \/ (k = 4 /\ firmware)
    BY DEF Count
  <1>8. b \in Component
    BY <1>1, TailFacts
  <1> HIDE DEF b
  <1>9. \A x \in {"srm", "rtc", "sav", "bin"} : \A c \in Component :
          /\ Last(c \o <<x, "2">>) = "2" /\ Last(Front(c \o <<x, "2">>)) = x
    BY <1>1, Ends
  <1>4. CASE k = 1
    BY <1>2, <1>4, <1>9, KindFacts
  <1>5. CASE k = 2
    BY <1>2, <1>5, <1>9, KindFacts
  <1>6. CASE k = 3
    BY <1>2, <1>6, <1>9, KindFacts
  <1>7. CASE k = 4 /\ firmware
    BY <1>2, <1>7, <1>8, <1>9, KindFacts
  <1> QED BY <1>3, <1>4, <1>5, <1>6, <1>7

\* All names of a pair differ, and the saves are named after the paths.
Apart(files, a, b) ==
  /\ IsInjective(Names(files[1]) \o Names(files[2]))
  /\ a # NoName /\ b # NoName
  /\ files[1].sram = a \o <<"srm">>
  /\ files[2].sram \in {b \o <<"srm">>, b \o <<"srm", "2">>}

LEMMA NamesDiffer ==
  ASSUME NEW first \in Routes, NEW second \in Routes, NEW firmware \in BOOLEAN,
         BuildSavePaths(first, second, firmware) # NoFiles
  PROVE  Apart(BuildSavePaths(first, second, firmware), Stem(first), Stem(second))
  <1> DEFINE a == Stem(first)
             b == Stem(second)
             second2 == Collides(first, second)
             f1 == FileSet(a, FALSE, firmware)
             f2 == FileSet(b, second2, firmware)
             files == <<f1, f2>>
             c == Count(firmware)
             N1 == Names(f1)
             N2 == Names(f2)
  <1>1. BuildSavePaths(first, second, firmware)
          = IF \E i \in 1..2 : \/ files[i].sram = NoName \/ files[i].rtc = NoName
                               \/ firmware /\ files[i].firmware = NoName
            THEN NoFiles ELSE files
    BY DEF BuildSavePaths
  <1>2. a \in Component /\ b \in Component
    BY StemType
  <1>3. second2 \in BOOLEAN /\ (~second2 => a # b)
    BY DEF Collides
  <1>11. /\ f1.sram # NoName => a # NoName
         /\ f2.sram # NoName => b # NoName
    <2>1. \A stem, suffix : Join(stem, suffix) # NoName => stem # NoName
      BY DEF Join, SafeComponent
    <2> QED BY <2>1 DEF FileSet
  <1> HIDE DEF f1, f2
  <1>4. files[1] = f1 /\ files[2] = f2 /\ 1 \in 1..2 /\ 2 \in 1..2
    OBVIOUS
  <1> HIDE DEF files
  <1>5. BuildSavePaths(first, second, firmware) = files
    BY <1>1
  <1>6. /\ f1.sram # NoName /\ f1.rtc # NoName /\ (firmware => f1.firmware # NoName)
        /\ f2.sram # NoName /\ f2.rtc # NoName /\ (firmware => f2.firmware # NoName)
    BY <1>1, <1>4
  <1> HIDE DEF a, b, second2
  <1>7. c \in {3, 4}
    BY DEF Count
  <1>8. /\ f1.sram = a \o <<"srm">> /\ Len(N1) = c /\ N1 \in Seq(Component)
        /\ \A k \in 1..c : /\ Last(N1[k]) = Kinds[k]
                           /\ (IF k = 4 THEN Front(Front(N1[k])) ELSE Front(N1[k])) = a
    <2>1. f1 = FileSet(a, FALSE, firmware)
      BY DEF f1
    <2>2. f1.sram = a \o <<"srm">> /\ Len(N1) = c /\ N1 \in Seq(Component)
      BY <1>2, <1>6, <2>1, FirstNames
    <2>3. EndAs(N1, c, a)
      BY <1>2, <1>6, <2>1, FirstEnds
    <2> QED BY <2>2, <2>3 DEF EndAs
  <1>9. CASE ~second2
    <2>1. f2 = FileSet(b, FALSE, firmware)
      BY <1>3, <1>9 DEF f2
    <2>2. f2.sram = b \o <<"srm">> /\ Len(N2) = c /\ N2 \in Seq(Component)
      BY <1>2, <1>6, <2>1, FirstNames
    <2>3. \A k \in 1..c : /\ Last(N2[k]) = Kinds[k]
                          /\ (IF k = 4 THEN Front(Front(N2[k])) ELSE Front(N2[k])) = b
      <3>1. EndAs(N2, c, b)
        BY <1>2, <1>6, <2>1, FirstEnds
      <3> QED BY <3>1 DEF EndAs
    <2> HIDE DEF N1, N2, c
    <2>4. /\ Len(N1 \o N2) = c + c /\ N1 \o N2 \in Seq(Component)
          /\ \A i \in 1 .. c + c : (N1 \o N2)[i] = IF i <= c THEN N1[i] ELSE N2[i - c]
      <3>1. /\ N1 \in Seq(Component) /\ N2 \in Seq(Component)
            /\ Len(N1) = c /\ Len(N2) = c
        BY <1>8, <2>2
      <3>2. /\ N1 \o N2 \in Seq(Component) /\ Len(N1 \o N2) = Len(N1) + Len(N2)
            /\ \A i \in 1 .. Len(N1) + Len(N2) :
                 (N1 \o N2)[i] = IF i <= Len(N1) THEN N1[i] ELSE N2[i - Len(N1)]
        BY <3>1, ConcatProperties
      <3> QED BY <3>1, <3>2
    <2> DEFINE N == N1 \o N2
    <2>5. DOMAIN N = 1 .. c + c
      BY <2>4
    <2> HIDE DEF N
    <2>6. ASSUME NEW i \in 1 .. c + c, NEW j \in 1 .. c + c, N[i] = N[j] PROVE i = j
      <3>1. \A k, l \in 1..c : N1[k] = N2[l] => FALSE
        <4> SUFFICES ASSUME NEW k \in 1..c, NEW l \in 1..c, N1[k] = N2[l] PROVE FALSE
          OBVIOUS
        <4>1. Kinds[k] = Kinds[l]
          BY <1>8, <2>3
        <4>2. k = l
          BY <1>7, <4>1, KindFacts
        <4> QED BY <1>3, <1>8, <1>9, <2>3, <4>2
      <3>2. \A k, l \in 1..c : (N1[k] = N1[l] \/ N2[k] = N2[l]) => k = l
        <4> SUFFICES ASSUME NEW k \in 1..c, NEW l \in 1..c, N1[k] = N1[l] \/ N2[k] = N2[l]
                     PROVE  k = l
          OBVIOUS
        <4>1. Kinds[k] = Kinds[l]
          BY <1>8, <2>3
        <4> QED BY <1>7, <4>1, KindFacts
      <3>3. \A k \in 1 .. c + c : N[k] = IF k <= c THEN N1[k] ELSE N2[k - c]
        BY <2>4 DEF N
      <3>4. CASE i <= c /\ j <= c
        BY <1>7, <2>6, <3>2, <3>3, <3>4
      <3>5. CASE i > c /\ j > c
        BY <1>7, <2>6, <3>2, <3>3, <3>5
      <3>6. CASE i <= c /\ j > c
        BY <1>7, <2>6, <3>1, <3>3, <3>6
      <3>7. CASE i > c /\ j <= c
        BY <1>7, <2>6, <3>1, <3>3, <3>7
      <3> QED BY <1>7, <3>4, <3>5, <3>6, <3>7
    <2>7. IsInjective(N)
      BY <2>5, <2>6 DEF IsInjective
    <2> QED BY <1>4, <1>5, <1>6, <1>8, <1>11, <2>2, <2>7 DEF Apart, N, N1, N2, a, b
  <1>10. CASE second2
    <2>1. f2 = FileSet(b, TRUE, firmware)
      BY <1>3, <1>10 DEF f2
    <2>2. f2.sram = b \o <<"srm", "2">> /\ Len(N2) = c /\ N2 \in Seq(Component)
      BY <1>2, <1>6, <2>1, SecondNames
    <2>3. \A k \in 1..c : Last(N2[k]) = "2" /\ Last(Front(N2[k])) = Kinds[k]
      <3>1. EndsAgain(N2, c)
        BY <1>2, <1>6, <2>1, SecondEnds
      <3> QED BY <3>1 DEF EndsAgain
    <2> HIDE DEF N1, N2, c
    <2>4. /\ Len(N1 \o N2) = c + c /\ N1 \o N2 \in Seq(Component)
          /\ \A i \in 1 .. c + c : (N1 \o N2)[i] = IF i <= c THEN N1[i] ELSE N2[i - c]
      <3>1. /\ N1 \in Seq(Component) /\ N2 \in Seq(Component)
            /\ Len(N1) = c /\ Len(N2) = c
        BY <1>8, <2>2
      <3>2. /\ N1 \o N2 \in Seq(Component) /\ Len(N1 \o N2) = Len(N1) + Len(N2)
            /\ \A i \in 1 .. Len(N1) + Len(N2) :
                 (N1 \o N2)[i] = IF i <= Len(N1) THEN N1[i] ELSE N2[i - Len(N1)]
        BY <3>1, ConcatProperties
      <3> QED BY <3>1, <3>2
    <2> DEFINE N == N1 \o N2
    <2>5. DOMAIN N = 1 .. c + c
      BY <2>4
    <2> HIDE DEF N
    <2>6. ASSUME NEW i \in 1 .. c + c, NEW j \in 1 .. c + c, N[i] = N[j] PROVE i = j
      <3>1. \A k, l \in 1..c : N1[k] = N2[l] => FALSE
        <4> SUFFICES ASSUME NEW k \in 1..c, NEW l \in 1..c, N1[k] = N2[l] PROVE FALSE
          OBVIOUS
        <4>1. Kinds[k] = "2"
          BY <1>8, <2>3
        <4> QED BY <1>7, <4>1, KindFacts
      <3>2. \A k, l \in 1..c : (N1[k] = N1[l] \/ N2[k] = N2[l]) => k = l
        <4> SUFFICES ASSUME NEW k \in 1..c, NEW l \in 1..c, N1[k] = N1[l] \/ N2[k] = N2[l]
                     PROVE  k = l
          OBVIOUS
        <4>1. Kinds[k] = Kinds[l]
          BY <1>8, <2>3
        <4> QED BY <1>7, <4>1, KindFacts
      <3>3. \A k \in 1 .. c + c : N[k] = IF k <= c THEN N1[k] ELSE N2[k - c]
        BY <2>4 DEF N
      <3>4. CASE i <= c /\ j <= c
        BY <1>7, <2>6, <3>2, <3>3, <3>4
      <3>5. CASE i > c /\ j > c
        BY <1>7, <2>6, <3>2, <3>3, <3>5
      <3>6. CASE i <= c /\ j > c
        BY <1>7, <2>6, <3>1, <3>3, <3>6
      <3>7. CASE i > c /\ j <= c
        BY <1>7, <2>6, <3>1, <3>3, <3>7
      <3> QED BY <1>7, <3>4, <3>5, <3>6, <3>7
    <2>7. IsInjective(N)
      BY <2>5, <2>6 DEF IsInjective
    <2> QED BY <1>4, <1>5, <1>6, <1>8, <1>11, <2>2, <2>7 DEF Apart, N, N1, N2, a, b
  <1> QED BY <1>3, <1>9, <1>10

-----------------------------------------------------------------------------
(* The blocks and what they hold.                                          *)

PairAt == <<"pair">>
PixelsAt == <<"pixels">>
RomAt(m) == <<"rom", m>>
PathAt(m) == <<"path", m>>
CallerAt(m) == <<"caller", m>>
BytesAt(m) == <<"bytes", m>>
Borrowed == Callers \cup Bytes

Families == {"sameboy", "mgba", "melonds", "none"}
Stages == {"idle", "read0", "read1", "detect", "pixels", "rom0", "rom1", "create",
           "start", "saves", "renderer", "cleanup"}

Sessions ==
  [engine : Families, pair : {Nil, PairAt}, pixels : {Nil, PixelsAt}, loaded : BOOLEAN,
   platform : [Machines -> Text],
   data : [Machines -> {Nil, RomAt(0), RomAt(1)}],
   owned : {f \in [Machines -> {Nil, RomAt(0), RomAt(1)}] :
              \A m \in Machines : f[m] \in {Nil, RomAt(m)}},
   path : {f \in [Machines -> {Nil, PathAt(0), PathAt(1)}] :
              \A m \in Machines : f[m] \in {Nil, PathAt(m)}}]

Carts == [data : {Nil} \cup Borrowed, path : Routes]
Loads == [at : Stages, roms : [Machines -> Carts]]

LoadTypes == session \in Sessions /\ load \in Loads

Own == {session.pair, session.pixels, session.owned[0], session.owned[1],
        session.path[0], session.path[1]} \ {Nil}

HeapInv ==
  /\ ~corrupt
  /\ Own \subseteq Live /\ Live \subseteq Own \cup Borrowed
  /\ ~InCall => Live \cap Borrowed = {}

Means(path, asked) ==
  /\ path = NoPath => asked.place = {}
  /\ \A place \in asked.place :
       Stem(path) # NoName => Stem(Path("absolute", place)) = Stem(path)

Held(m) == heap[load.roms[m].data]

Cart(m) ==
  /\ load.roms[m].data \in Live \cap Borrowed
  /\ given[m].rom = {Held(m)} /\ Held(m).hash \in Text
  /\ Means(load.roms[m].path, given[m])

Alike == Family(Detect(Held(0))) = Family(Detect(Held(1)))

Kept(m) ==
  /\ session.data[m] \in Own
  /\ given[m].rom = {heap[session.data[m]]}
  /\ session.path[m] = PathAt(m)
  /\ heap[PathAt(m)] \in Routes /\ Means(heap[PathAt(m)], given[m])
  /\ session.engine = Family(session.platform[m])

Fresh == session = NoSession /\ saves = NoFiles
Awaited(m) == Promised(m, load.roms[m].path, given)
Opening == ~session.loaded /\ saves = NoFiles

Taking ==
  /\ Opening /\ Cart(0) /\ Cart(1) /\ Alike
  /\ session.engine = Family(Detect(Held(0))) /\ session.owned[1] = Nil

Whole ==
  /\ session.loaded /\ Kept(0) /\ Kept(1) /\ saves # NoFiles
  /\ saves = BuildSavePaths(heap[PathAt(0)], heap[PathAt(1)],
                            session.engine = "melonds")

StageInv ==
  \/ load.at = "read0" /\ Fresh /\ Awaited(0) /\ Awaited(1)
  \/ load.at = "read1" /\ Fresh /\ Cart(0) /\ Awaited(1) /\ load.roms[0].data = BytesAt(0)
  \/ load.at = "detect" /\ Fresh /\ Cart(0) /\ Cart(1)
  \/ load.at = "pixels" /\ Fresh /\ Cart(0) /\ Cart(1) /\ Alike
  \/ load.at = "rom0" /\ Taking
  \/ load.at = "rom1" /\ Taking /\ Kept(0) /\ session.data[0] = RomAt(0)
  \/ load.at \in {"create", "start"} /\ Opening /\ Kept(0) /\ Kept(1)
  \/ load.at = "saves" /\ session.loaded /\ saves = NoFiles /\ Kept(0) /\ Kept(1)
  \/ load.at = "renderer" /\ Whole
  \/ load.at \in {"cleanup", "idle"} /\ (Fresh \/ Whole)

LoadInv == LoadTypes /\ HeapInv /\ StageInv

LEMMA AddressFacts ==
  /\ PairAt # Nil /\ PixelsAt # Nil /\ PairAt # PixelsAt
  /\ \A m \in Machines :
       /\ RomAt(m) # Nil /\ PathAt(m) # Nil /\ RomAt(m) # PairAt /\ PathAt(m) # PairAt
       /\ RomAt(m) # PixelsAt /\ PathAt(m) # PixelsAt
       /\ \A n \in Machines : /\ RomAt(m) # PathAt(n)
                              /\ RomAt(m) = RomAt(n) => m = n
                              /\ PathAt(m) = PathAt(n) => m = n
  <1>1. PairAt # Nil /\ PixelsAt # Nil /\ PairAt # PixelsAt
    BY DEF PairAt, PixelsAt, Nil
  <1>2. ASSUME NEW m \in Machines
        PROVE  /\ RomAt(m) # Nil /\ PathAt(m) # Nil /\ RomAt(m) # PairAt /\ PathAt(m) # PairAt
               /\ RomAt(m) # PixelsAt /\ PathAt(m) # PixelsAt
    BY DEF RomAt, PathAt, PairAt, PixelsAt, Nil
  <1>3. ASSUME NEW m \in Machines, NEW n \in Machines
        PROVE  /\ RomAt(m) # PathAt(n)
               /\ RomAt(m) = RomAt(n) => m = n
               /\ PathAt(m) = PathAt(n) => m = n
    BY DEF RomAt, PathAt
  <1> QED BY <1>1, <1>2, <1>3

LEMMA BorrowedFacts ==
  /\ Nil \notin Borrowed /\ PairAt \notin Borrowed /\ PixelsAt \notin Borrowed
  /\ \A m \in Machines : RomAt(m) \notin Borrowed /\ PathAt(m) \notin Borrowed
  /\ \A m \in Machines : CallerAt(m) \in Borrowed /\ BytesAt(m) \in Borrowed
  /\ Callers = {CallerAt(m) : m \in Machines} /\ Bytes = {BytesAt(m) : m \in Machines}
  <1>1. ASSUME NEW m \in Machines
        PROVE  /\ Nil # CallerAt(m) /\ PairAt # CallerAt(m) /\ PixelsAt # CallerAt(m)
               /\ Nil # BytesAt(m) /\ PairAt # BytesAt(m) /\ PixelsAt # BytesAt(m)
    BY DEF CallerAt, BytesAt, PairAt, PixelsAt, Nil
  <1>2. ASSUME NEW m \in Machines, NEW n \in Machines
        PROVE  /\ RomAt(m) # CallerAt(n) /\ RomAt(m) # BytesAt(n)
               /\ PathAt(m) # CallerAt(n) /\ PathAt(m) # BytesAt(n)
    BY DEF RomAt, PathAt, CallerAt, BytesAt
  <1>3. Callers = {CallerAt(m) : m \in Machines} /\ Bytes = {BytesAt(m) : m \in Machines}
    BY DEF Callers, Bytes, CallerAt, BytesAt
  <1> QED BY <1>1, <1>2, <1>3 DEF Borrowed

LEMMA ZeroAndOne == 0 \in Machines /\ 1 \in Machines /\ \A m \in Machines : m = 0 \/ m = 1
  BY DEF Machines

\* Growing and shrinking the heap.
LEMMA WithFacts ==
  \A h, blocks :
         /\ DOMAIN With(h, blocks) = DOMAIN h \cup DOMAIN blocks
         /\ \A a \in DOMAIN blocks : With(h, blocks)[a] = blocks[a]
         /\ \A a \in DOMAIN h : a \notin DOMAIN blocks => With(h, blocks)[a] = h[a]
  BY DEF With

LEMMA WithoutFacts ==
  \A h, dead :
         /\ DOMAIN Without(h, dead) = DOMAIN h \ dead
         /\ \A a \in DOMAIN h \ dead : Without(h, dead)[a] = h[a]
  BY DEF Without

LEMMA OneBlock ==
  \A a, x :
         DOMAIN Block(a, x) = {a} /\ Block(a, x)[a] = x
  BY DEF Block

\* One block more.
Extends(new, old, a, x) ==
  /\ DOMAIN new = DOMAIN old \cup {a} /\ new[a] = x
  /\ \A b \in DOMAIN old : b # a => new[b] = old[b]

LEMMA OneMoreBlock ==
  ASSUME NEW h, NEW a, NEW x
  PROVE  Extends(With(h, Block(a, x)), h, a, x)
  BY DEF With, Block, Extends

LEMMA SessionFields ==
  ASSUME NEW s \in Sessions
  PROVE  /\ s.pair \in {Nil, PairAt} /\ s.pixels \in {Nil, PixelsAt}
         /\ s.loaded \in BOOLEAN /\ s.engine \in Families
         /\ \A m \in Machines : /\ s.data[m] \in {Nil, RomAt(0), RomAt(1)}
                                /\ s.owned[m] \in {Nil, RomAt(m)}
                                /\ s.path[m] \in {Nil, PathAt(m)}
                                /\ s.platform[m] \in Text
  BY DEF Sessions

LEMMA NoSessionFields ==
  /\ NoSession \in Sessions /\ NoSession.pair = Nil /\ NoSession.pixels = Nil
  /\ ~NoSession.loaded
  /\ \A m \in Machines : /\ NoSession.owned[m] = Nil /\ NoSession.path[m] = Nil
                         /\ NoSession.data[m] = Nil
  <1>1. "none" \in Text
    BY DEF Text
  <1> QED BY <1>1 DEF NoSession, Sessions, Families

\* What unloading frees.
LEMMA FreedOnce ==
  ASSUME NEW live, session \in Sessions, Own \subseteq live
  PROVE  /\ ~BadFree(Freed(session), live)
         /\ Range(Freed(session)) \ {Nil} = Own
         /\ Range(Freed(session)) \subseteq Own \cup {Nil}
  <1> DEFINE list == Freed(session)
  <1>1. /\ Len(list) = 6 /\ DOMAIN list = 1..6
        /\ list[1] = session.pair /\ list[2] = session.owned[0]
        /\ list[3] = session.path[0] /\ list[4] = session.owned[1]
        /\ list[5] = session.path[1] /\ list[6] = session.pixels
    BY DEF Freed
  <1> HIDE DEF list
  <1>2. /\ list[1] \in {Nil, PairAt} /\ list[2] \in {Nil, RomAt(0)}
        /\ list[3] \in {Nil, PathAt(0)} /\ list[4] \in {Nil, RomAt(1)}
        /\ list[5] \in {Nil, PathAt(1)} /\ list[6] \in {Nil, PixelsAt}
    BY <1>1, SessionFields, ZeroAndOne
  <1>3. \A i \in 1..6 : list[i] # Nil => list[i] \in Own
    BY <1>1 DEF Own
  <1>4. \A i, j \in 1..6 : list[i] # Nil /\ list[i] = list[j] => i = j
    <2>1. ASSUME NEW i \in 1..6, NEW j \in 1..6, list[i] # Nil, list[i] = list[j]
          PROVE  i = j
      BY <1>2, <2>1, AddressFacts, ZeroAndOne
    <2> QED BY <2>1
  <1>5. ~BadFree(list, live)
    <2> SUFFICES ASSUME NEW i \in 1..6, list[i] # Nil
                 PROVE  list[i] \in live /\ \A j \in 1..(i - 1) : list[j] # list[i]
      BY <1>1 DEF BadFree
    <2> QED BY <1>3, <1>4
  <1>6. Range(list) = {list[i] : i \in 1..6}
    BY <1>1 DEF Range
  <1>7. Own \subseteq Range(list) /\ Nil \notin Own
    BY <1>1, <1>6 DEF Own
  <1> QED BY <1>3, <1>5, <1>6, <1>7 DEF list

\* Families, platforms and the fallback path.
LEMMA DetectFacts ==
  ASSUME NEW rom
  PROVE  Detect(rom) \in Text
  BY DEF Detect, Text

LEMMA FamilyFacts ==
  ASSUME NEW platform
  PROVE  Family(platform) \in Families
  <1>2. CASE platform \in {"gb", "gbc"}
    <2>1. platform # "gba" /\ platform # "nds"
      BY <1>2
    <2> QED BY <1>2, <2>1 DEF Family, Families
  <1>3. CASE platform = "gba"
    BY <1>3 DEF Family, Families
  <1>4. CASE platform = "nds"
    BY <1>4 DEF Family, Families
  <1>5. CASE platform \notin {"gb", "gbc", "gba", "nds"}
    BY <1>5 DEF Family, Families
  <1> QED BY <1>2, <1>3, <1>4, <1>5

LEMMA FallbackFacts ==
  ASSUME NEW rom, rom.hash \in Text
  PROVE  FallbackPath(rom) \in Routes /\ FallbackPath(rom) # NoPath
  <1> DEFINE name == <<rom.hash, Detect(rom)>>
             p == <<name>>
  <1>1. name \in Component
    BY DetectFacts DEF Component
  <1> HIDE DEF name
  <1>2. p \in Words(Component)
    BY <1>1 DEF Words
  <1> HIDE DEF p
  <1>3. "relative" \in Text /\ "relative" # "none"
    BY DEF Text
  <1> QED BY <1>2, <1>3 DEF FallbackPath, Path, NoPath, Routes, p, name

-----------------------------------------------------------------------------
(* What a step leaves as it is.                                            *)

LEMMA LoadFields ==
  ASSUME NEW l \in Loads
  PROVE  /\ l.at \in Stages /\ l.roms \in [Machines -> Carts]
         /\ l = [at |-> l.at, roms |-> l.roms]
         /\ \A m \in Machines : /\ l.roms[m] \in Carts /\ l.roms[m].path \in Routes
                                /\ l.roms[m].data \in {Nil} \cup Borrowed
  BY DEF Loads, Carts

LEMMA GotoFacts ==
  ASSUME load \in Loads, NEW at \in Stages, Goto(at)
  PROVE  load' \in Loads /\ load'.at = at /\ load'.roms = load.roms
  <1>1. load' = [load EXCEPT !.at = at]
    BY DEF Goto
  <1> QED BY <1>1 DEF Loads

LEMMA CartStays ==
  ASSUME NEW m \in Machines, Cart(m), load'.roms[m].data = load.roms[m].data,
         given' = given, Means(load'.roms[m].path, given[m]),
         load.roms[m].data \in Live',
         heap'[load.roms[m].data] = heap[load.roms[m].data]
  PROVE  Cart(m)' /\ Held(m)' = Held(m)
  <1>1. Held(m)' = Held(m)
    BY DEF Held
  <1>2. Means(load'.roms[m].path, given'[m])
    OBVIOUS
  <1> QED BY <1>1, <1>2 DEF Cart, Means

LEMMA KeptStays ==
  ASSUME NEW m \in Machines, Kept(m), session'.data[m] = session.data[m],
         session'.path[m] = session.path[m], session'.engine = session.engine,
         session'.platform[m] = session.platform[m], given' = given,
         session.data[m] \in Own',
         heap'[session.data[m]] = heap[session.data[m]],
         heap'[PathAt(m)] = heap[PathAt(m)]
  PROVE  Kept(m)'
  <1>1. Means(heap'[PathAt(m)], given'[m])
    BY DEF Kept
  <1>2. PathAt(m)' = PathAt(m)
    BY DEF PathAt
  <1> QED BY <1>1, <1>2 DEF Kept, Means

LEMMA HeapGrows ==
  ASSUME HeapInv, NEW blocks, heap' = With(heap, blocks), corrupt' = corrupt,
         load'.at # "idle", Own \subseteq Own', Own' \subseteq Own \cup DOMAIN blocks,
         DOMAIN blocks \subseteq Own' \cup Borrowed
  PROVE  HeapInv'
  <1>1. Live' = Live \cup DOMAIN blocks
    BY WithFacts DEF Live
  <1>2. Borrowed' = Borrowed
    BY DEF Borrowed, Callers, Bytes
  <1> QED BY <1>1, <1>2 DEF HeapInv, InCall

LEMMA NothingOwned ==
  ASSUME session' = NoSession
  PROVE  Own' = {}
  BY NoSessionFields, ZeroAndOne DEF Own

\* A step that fails releases everything the session has taken so far.
LEMMA FailsHeap ==
  ASSUME LoadTypes, HeapInv, Unloaded(heap), load'.at # "idle"
  PROVE  HeapInv' /\ Fresh' /\ session' \in Sessions
  <1>1. ~BadFree(Freed(session), Live) /\ Range(Freed(session)) \ {Nil} = Own
    BY FreedOnce DEF LoadTypes, HeapInv
  <1>2. ~corrupt'
    BY <1>1 DEF Unloaded, HeapInv, Live
  <1>3. session' = NoSession /\ saves' = NoFiles
    BY DEF Unloaded
  <1>4. Live' = Live \ Range(Freed(session))
    BY WithoutFacts DEF Unloaded, Live
  <1>5. Own' = {}
    BY <1>3, NothingOwned
  <1>6. Live' \subseteq Borrowed
    BY <1>1, <1>4, BorrowedFacts DEF HeapInv
  <1>7. Borrowed' = Borrowed
    BY DEF Borrowed, Callers, Bytes
  <1> QED BY <1>2, <1>3, <1>5, <1>6, <1>7, NoSessionFields DEF HeapInv, Fresh, InCall

LEMMA FailsLoad ==
  ASSUME LoadTypes, HeapInv, Fails
  PROVE  LoadInv'
  <1>1. "cleanup" \in Stages /\ "cleanup" # "idle"
    BY DEF Stages
  <1>2. load' \in Loads /\ load'.at = "cleanup"
    BY <1>1, GotoFacts DEF Fails, LoadTypes
  <1>3. HeapInv' /\ Fresh' /\ session' \in Sessions
    BY <1>1, <1>2, FailsHeap DEF Fails
  <1>4. Sessions' = Sessions /\ Loads' = Loads
    BY DEF Sessions, Loads, Carts, Borrowed, Callers, Bytes, Stages, Families, Routes,
           Machines, Nil, PairAt, PixelsAt, RomAt, PathAt, Words, Component, Text
  <1>5. StageInv'
    BY <1>2, <1>3 DEF StageInv
  <1> QED BY <1>2, <1>3, <1>4, <1>5 DEF LoadInv, LoadTypes

LEMMA SameKinds ==
  /\ Sessions' = Sessions /\ Loads' = Loads /\ Borrowed' = Borrowed
  BY DEF Sessions, Loads, Carts, Borrowed, Callers, Bytes, Stages, Families, Routes,
         Machines, Nil, PairAt, PixelsAt, RomAt, PathAt, Words, Component, Text

LEMMA MeansPlace ==
  ASSUME NEW path \in Routes, path # NoPath, NEW asked,
         asked.place = {Reached(Cwd, path)}
  PROVE  Means(path, asked)
  <1>1. Cwd \in Words(Component)
    BY ContentConstants
  <1>2. Stem(path) # NoName => Stem(Path("absolute", Reached(Cwd, path))) = Stem(path)
    BY <1>1, PlaceStem
  <1> QED BY <1>2 DEF Means

LEMMA MeansNothing ==
  ASSUME NEW path, NEW asked, asked.place = {}
  PROVE  Means(path, asked)
  BY DEF Means

LEMMA ReadFields ==
  ASSUME load \in Loads, NEW m \in Machines, NEW data \in Borrowed, NEW next \in Stages,
         load' = [load EXCEPT !.at = next, !.roms[m].data = data]
  PROVE  /\ load' \in Loads /\ load'.at = next /\ load'.roms[m].data = data
         /\ load'.roms[m].path = load.roms[m].path
         /\ \A n \in Machines : n # m => load'.roms[n] = load.roms[n]
  <1> DEFINE roms == [load.roms EXCEPT ![m].data = data]
             rom == [load.roms[m] EXCEPT !.data = data]
  <1>1. load.roms \in [Machines -> Carts] /\ load.roms[m] \in Carts
    BY LoadFields
  <1>2. rom \in Carts /\ rom.data = data /\ rom.path = load.roms[m].path
    BY <1>1 DEF Carts
  <1>3. load'.at = next /\ load'.roms = roms /\ load' = [at |-> next, roms |-> roms]
    BY DEF Loads
  <1>4. /\ roms[m] = rom /\ \A n \in Machines : n # m => roms[n] = load.roms[n]
        /\ roms \in [Machines -> Carts]
    <2>1. roms = [load.roms EXCEPT ![m] = rom]
      BY <1>1
    <2> HIDE DEF roms, rom
    <2> QED BY <1>1, <1>2, <2>1
  <1> HIDE DEF roms, rom
  <1> QED BY <1>2, <1>3, <1>4 DEF Loads

\* A step that gives up before the session is touched.
LEMMA GivesUp ==
  ASSUME LoadTypes, HeapInv, Fresh, InCall, Goto("cleanup"),
         UNCHANGED <<heap, corrupt, session, saves, given>>
  PROVE  LoadInv'
  <1>1. "cleanup" \in Stages /\ "cleanup" # "idle"
    BY DEF Stages
  <1>2. load' \in Loads /\ load'.at = "cleanup"
    BY <1>1, GotoFacts DEF LoadTypes
  <1>3. Own' = Own /\ Live' = Live
    BY DEF Own, Live
  <1>4. HeapInv'
    BY <1>1, <1>2, <1>3, SameKinds DEF HeapInv, InCall
  <1>5. StageInv'
    BY <1>2 DEF StageInv, Fresh
  <1> QED BY <1>2, <1>4, <1>5, SameKinds DEF LoadInv, LoadTypes

LEMMA ReadLoad ==
  ASSUME LoadInv, NEW m \in Machines, ReadRomFile(m)
  PROVE  LoadInv'
  <1> DEFINE path == load.roms[m].path
             place == Reached(Cwd, path)
             next == IF m = 0 THEN "read1" ELSE "detect"
  <1>1. LoadTypes /\ HeapInv
    BY DEF LoadInv
  <1>2. /\ load.at = (IF m = 0 THEN "read0" ELSE "read1")
        /\ UNCHANGED <<corrupt, session, saves, given>>
    BY DEF ReadRomFile
  <1>3. Fresh /\ Awaited(m) /\ (m = 0 => Awaited(1)) /\ InCall
        /\ (m = 1 => Cart(0) /\ load.roms[0].data = BytesAt(0))
    <2>1. StageInv /\ (m = 0 \/ m = 1)
      BY ZeroAndOne DEF LoadInv
    <2>2. CASE m = 0
      BY <1>2, <2>1, <2>2 DEF StageInv, InCall
    <2>3. CASE m = 1
      BY <1>2, <2>1, <2>3 DEF StageInv, InCall
    <2> QED BY <2>1, <2>2, <2>3
  <1>4. CASE heap' = heap /\ load' = [load EXCEPT !.at = "cleanup"]
    BY <1>1, <1>2, <1>3, <1>4, GivesUp DEF Goto
  <1>5. CASE /\ place \in DOMAIN Files
             /\ heap' = With(heap, Block(BytesAt(m), Files[place]))
             /\ load' = [load EXCEPT !.at = next, !.roms[m].data = BytesAt(m)]
    <2> DEFINE block == Block(BytesAt(m), Files[place])
    <2>1. BytesAt(m) \in Borrowed /\ next \in Stages /\ next # "idle"
      BY BorrowedFacts DEF Stages
    <2>2. /\ load' \in Loads /\ load'.at = next /\ load'.roms[m].data = BytesAt(m)
          /\ load'.roms[m].path = load.roms[m].path
          /\ \A n \in Machines : n # m => load'.roms[n] = load.roms[n]
      <3> HIDE DEF next
      <3> QED BY <1>1, <1>5, <2>1, ReadFields DEF LoadTypes
    <2>3. DOMAIN block = {BytesAt(m)} /\ block[BytesAt(m)] = Files[place]
      BY OneBlock
    <2>10. heap' = With(heap, block)
      BY <1>5
    <2> HIDE DEF block
    <2>4. /\ Live' = Live \cup {BytesAt(m)} /\ heap'[BytesAt(m)] = Files[place]
          /\ \A a \in Live : a # BytesAt(m) => heap'[a] = heap[a]
      <3>1. Extends(heap', heap, BytesAt(m), Files[place])
        BY <1>5, OneMoreBlock
      <3> QED BY <3>1 DEF Live, Extends
    <2>5. Own' = Own
      BY <1>2 DEF Own
    <2>6. HeapInv'
      BY <1>1, <1>2, <2>1, <2>2, <2>3, <2>5, <2>10, HeapGrows
    <2>7. Cart(m)'
      <3>1. /\ path \in Routes /\ path # NoPath
            /\ given[m].rom = {Files[place]} /\ given[m].place = {place}
        BY <1>3, <1>5 DEF Awaited, Promised
      <3>2. Means(path, given[m])
        BY <3>1, MeansPlace
      <3>3. Files[place].hash \in Text
        BY <1>5, ContentConstants
      <3>4. Held(m)' = Files[place]
        BY <2>2, <2>4 DEF Held
      <3>5. Means(load'.roms[m].path, given'[m])
        BY <1>2, <2>2, <3>2
      <3> HIDE DEF path, place
      <3> QED BY <1>2, <2>1, <2>2, <2>4, <3>1, <3>3, <3>4, <3>5, SameKinds DEF Cart, Means
    <2>8. CASE m = 0
      <3>1. Awaited(1)'
        BY <1>2, <1>3, <2>2, <2>8, ZeroAndOne DEF Awaited, Promised
      <3>2. load'.roms[0].data = BytesAt(0)'
        BY <2>2, <2>8 DEF BytesAt
      <3> QED BY <1>2, <1>3, <2>2, <2>6, <2>7, <2>8, <3>1, <3>2, SameKinds, <1>1
              DEF LoadInv, LoadTypes, StageInv, Fresh
    <2>9. CASE m = 1
      <3>1. Cart(0) /\ 0 \in Machines /\ load'.roms[0] = load.roms[0]
        BY <1>3, <2>2, <2>9, ZeroAndOne
      <3>2. load.roms[0].data \in Live /\ Means(load.roms[0].path, given[0])
        BY <3>1 DEF Cart
      <3>3. heap'[load.roms[0].data] = heap[load.roms[0].data]
        <4>1. BytesAt(0) # BytesAt(1)
          BY DEF BytesAt
        <4> QED BY <1>3, <2>4, <2>9, <3>2, <4>1
      <3>4. Cart(0)'
        BY <1>2, <2>4, <3>1, <3>2, <3>3, CartStays
      <3> QED BY <1>2, <1>3, <2>2, <2>6, <2>7, <2>9, <3>4, SameKinds, <1>1
              DEF LoadInv, LoadTypes, StageInv, Fresh
    <2> QED BY <2>8, <2>9, ZeroAndOne
  <1> QED BY <1>4, <1>5 DEF ReadRomFile, BytesAt

\* The path that stands for a cartridge names the file that was asked for.
LEMMA IdentityFacts ==
  ASSUME load \in Loads, NEW m \in Machines, Cart(m)
  PROVE  LET path == IdentityPath(load.roms, m)
         IN path \in Routes /\ Means(path, given[m])
  <1> DEFINE own == load.roms[m].path
             shared == SharedPath(load.roms, m)
             path == IdentityPath(load.roms, m)
  <1>1. 1 - m \in Machines
    BY ZeroAndOne
  <1>2. own \in Routes /\ shared \in {own, load.roms[1 - m].path} /\ shared \in Routes
    BY <1>1, LoadFields DEF SharedPath
  <1>3. FallbackPath(Held(m)) \in Routes
    BY FallbackFacts DEF Cart
  <1>4. path \in {shared, FallbackPath(Held(m))}
    BY DEF IdentityPath, Held
  <1>5. CASE own = NoPath
    <2>1. given[m].place = {}
      BY <1>5 DEF Cart, Means
    <2> HIDE DEF path, own, shared
    <2> QED BY <1>2, <1>3, <1>4, <2>1, MeansNothing DEF path
  <1>6. CASE own # NoPath
    <2>1. path = own
      BY <1>6 DEF SharedPath, IdentityPath
    <2> QED BY <1>2, <2>1 DEF Cart
  <1> QED BY <1>5, <1>6

LEMMA PathFieldsChange ==
  ASSUME load \in Loads, NEW at \in Stages, NEW P \in [Machines -> Routes],
         load' = [load EXCEPT !.at = at,
                    !.roms = [m \in Machines |-> [load.roms[m] EXCEPT !.path = P[m]]]]
  PROVE  /\ load' \in Loads /\ load'.at = at
         /\ \A m \in Machines : /\ load'.roms[m].data = load.roms[m].data
                                /\ load'.roms[m].path = P[m]
  <1> DEFINE roms == [m \in Machines |-> [load.roms[m] EXCEPT !.path = P[m]]]
  <1>1. load.roms \in [Machines -> Carts] /\ \A m \in Machines : load.roms[m] \in Carts
    BY LoadFields
  <1>2. \A m \in Machines : /\ roms[m] \in Carts /\ roms[m].path = P[m]
                            /\ roms[m].data = load.roms[m].data
    BY <1>1 DEF Carts
  <1>3. roms \in [Machines -> Carts]
    BY <1>2
  <1>4. load'.at = at /\ load'.roms = roms /\ load' = [at |-> at, roms |-> roms]
    BY DEF Loads
  <1> HIDE DEF roms
  <1> QED BY <1>2, <1>3, <1>4 DEF Loads

LEMMA DetectLoad ==
  ASSUME LoadInv, DetectPair
  PROVE  LoadInv'
  <1>1. LoadTypes /\ HeapInv /\ load.at = "detect"
    BY DEF LoadInv, DetectPair
  <1>2. UNCHANGED <<heap, corrupt, session, saves, given>>
    BY DEF DetectPair
  <1>3. Fresh /\ Cart(0) /\ Cart(1) /\ InCall
    BY <1>1 DEF LoadInv, StageInv, InCall
  <1>4. CASE Goto("cleanup")
    BY <1>1, <1>2, <1>3, <1>4, GivesUp
  <1>5. CASE /\ Alike
             /\ load' = [load EXCEPT !.at = "pixels",
                           !.roms = [m \in Machines |->
                             [load.roms[m] EXCEPT !.path = IdentityPath(load.roms, m)]]]
    <2> DEFINE P == [m \in Machines |-> IdentityPath(load.roms, m)]
    <2>1. P \in [Machines -> Routes] /\ \A m \in Machines : Means(P[m], given[m])
      <3>1. ASSUME NEW m \in Machines
            PROVE  /\ IdentityPath(load.roms, m) \in Routes
                   /\ Means(IdentityPath(load.roms, m), given[m])
        BY <1>1, <1>3, IdentityFacts, ZeroAndOne DEF LoadTypes
      <3> QED BY <3>1
    <2>2. "pixels" \in Stages /\ "pixels" # "idle"
      BY DEF Stages
    <2>3. load' = [load EXCEPT !.at = "pixels",
                     !.roms = [m \in Machines |-> [load.roms[m] EXCEPT !.path = P[m]]]]
      BY <1>5
    <2> HIDE DEF P
    <2>4. /\ load' \in Loads /\ load'.at = "pixels"
          /\ \A m \in Machines : /\ load'.roms[m].data = load.roms[m].data
                                 /\ load'.roms[m].path = P[m]
      BY <1>1, <2>1, <2>2, <2>3, PathFieldsChange DEF LoadTypes
    <2>5. Own' = Own /\ Live' = Live
      BY <1>2 DEF Own, Live
    <2>6. HeapInv'
      BY <1>1, <1>2, <2>2, <2>4, <2>5, SameKinds DEF HeapInv, InCall
    <2>7. ASSUME NEW m \in Machines PROVE Cart(m)' /\ Held(m)' = Held(m)
      <3>1. Cart(m)
        BY <1>3, ZeroAndOne
      <3>2. load.roms[m].data \in Live
        BY <3>1 DEF Cart
      <3> QED BY <1>2, <2>1, <2>4, <2>5, <2>7, <3>1, <3>2, CartStays
    <2>8. Alike'
      BY <1>5, <2>7, ZeroAndOne DEF Alike
    <2>9. StageInv'
      BY <1>2, <1>3, <2>4, <2>7, <2>8, ZeroAndOne DEF StageInv, Fresh
    <2> QED BY <1>1, <1>2, <2>4, <2>6, <2>9, SameKinds DEF LoadInv, LoadTypes
  <1>6. Goto("cleanup")
          \/ /\ Alike
             /\ load' = [load EXCEPT !.at = "pixels",
                           !.roms = [m \in Machines |->
                             [load.roms[m] EXCEPT !.path = IdentityPath(load.roms, m)]]]
    BY DEF DetectPair, Alike, Held
  <1> QED BY <1>4, <1>5, <1>6

\* Every step of dualboy_session_load adds its blocks or fails.
LEMMA PixelsLoad ==
  ASSUME LoadInv, AllocatePixels
  PROVE  LoadInv'
  <1>1. LoadTypes /\ HeapInv /\ load.at = "pixels"
    BY DEF LoadInv, AllocatePixels
  <1>2. Fresh /\ Cart(0) /\ Cart(1) /\ Alike
    BY <1>1 DEF LoadInv, StageInv
  <1>3. CASE Fails
    BY <1>1, <1>3, FailsLoad
  <1>4. CASE /\ heap' = With(heap, Block(PixelsAt, "black"))
             /\ session' = [session EXCEPT !.pixels = PixelsAt,
                              !.engine = Family(Detect(Held(0)))]
             /\ Goto("rom0") /\ UNCHANGED <<corrupt, saves, given>>
    <2>1. "rom0" \in Stages /\ "rom0" # "idle"
      BY DEF Stages
    <2>2. load' \in Loads /\ load'.at = "rom0" /\ load'.roms = load.roms
      BY <1>1, <1>4, <2>1, GotoFacts DEF LoadTypes
    <2>3. /\ session' \in Sessions /\ session'.pixels = PixelsAt
          /\ session'.engine = Family(Detect(Held(0)))
          /\ session'.loaded = session.loaded /\ session'.owned = session.owned
          /\ session'.path = session.path /\ session'.pair = session.pair
      BY <1>1, <1>4, FamilyFacts DEF LoadTypes, Sessions
    <2>4. Extends(heap', heap, PixelsAt, "black")
      BY <1>4, OneMoreBlock
    <2>5. PixelsAt # Nil /\ PixelsAt \notin Borrowed
      BY AddressFacts, BorrowedFacts
    <2>6. Own \subseteq Own' /\ Own' \subseteq Own \cup {PixelsAt} /\ PixelsAt \in Own'
      BY <1>2, <2>3, <2>5, NoSessionFields DEF Own, Fresh
    <2>7. HeapInv'
      <3>1. DOMAIN Block(PixelsAt, "black") = {PixelsAt}
        BY OneBlock
      <3> QED BY <1>1, <1>4, <2>1, <2>2, <2>6, <3>1, HeapGrows
    <2>8. ASSUME NEW m \in Machines PROVE Cart(m)' /\ Held(m)' = Held(m)
      <3>1. Cart(m)
        BY <1>2, ZeroAndOne
      <3>2. /\ load.roms[m].data \in Live \cap Borrowed
            /\ Means(load.roms[m].path, given[m])
        BY <3>1 DEF Cart
      <3>3. load.roms[m].data \in Live' /\ heap'[load.roms[m].data] = heap[load.roms[m].data]
        BY <2>4, <2>5, <3>2 DEF Extends, Live
      <3> QED BY <1>4, <2>2, <3>1, <3>2, <3>3, CartStays
    <2>9. Taking'
      <3>1. Cart(0)' /\ Cart(1)' /\ Held(0)' = Held(0) /\ Held(1)' = Held(1)
        BY <2>8, ZeroAndOne
      <3>2. Alike'
        BY <1>2, <3>1 DEF Alike
      <3>3. ~session'.loaded /\ session'.owned[1] = Nil /\ saves' = NoFiles
        BY <1>2, <1>4, <2>3, NoSessionFields, ZeroAndOne DEF Fresh
      <3> QED BY <2>3, <3>1, <3>2, <3>3 DEF Taking, Opening
    <2>10. StageInv'
      BY <2>2, <2>9 DEF StageInv
    <2> QED BY <2>2, <2>3, <2>7, <2>10, SameKinds DEF LoadInv, LoadTypes
  <1> QED BY <1>3, <1>4 DEF AllocatePixels, PixelsAt, Held

\* What own_rom changes of the session.
Took(m, platform, owned, data) ==
  /\ session' \in Sessions /\ session'.pair = session.pair
  /\ session'.pixels = session.pixels /\ session'.engine = session.engine
  /\ session'.loaded = session.loaded
  /\ session'.path[m] = PathAt(m) /\ session'.platform[m] = platform
  /\ session'.owned[m] = owned /\ session'.data[m] = data
  /\ \A n \in Machines : n # m =>
       /\ session'.path[n] = session.path[n] /\ session'.data[n] = session.data[n]
       /\ session'.owned[n] = session.owned[n]
       /\ session'.platform[n] = session.platform[n]

LEMMA OwnFields ==
  ASSUME session \in Sessions, NEW m \in Machines, NEW platform \in Text,
         NEW owned \in {Nil, RomAt(m)}, NEW data \in {Nil, RomAt(0), RomAt(1)},
         session' = [session EXCEPT !.path[m] = PathAt(m), !.platform[m] = platform,
                                    !.owned[m] = owned, !.data[m] = data]
  PROVE  Took(m, platform, owned, data)
  <1> DEFINE paths == [session.path EXCEPT ![m] = PathAt(m)]
             platforms == [session.platform EXCEPT ![m] = platform]
             owneds == [session.owned EXCEPT ![m] = owned]
             datas == [session.data EXCEPT ![m] = data]
             t == [engine |-> session.engine, pair |-> session.pair,
                   pixels |-> session.pixels, loaded |-> session.loaded,
                   platform |-> platforms, data |-> datas, owned |-> owneds,
                   path |-> paths]
  <1>1. session' = t
    BY DEF Sessions
  <1>2. /\ session.path \in [Machines -> {Nil, PathAt(0), PathAt(1)}]
        /\ session.owned \in [Machines -> {Nil, RomAt(0), RomAt(1)}]
        /\ session.data \in [Machines -> {Nil, RomAt(0), RomAt(1)}]
        /\ session.platform \in [Machines -> Text]
        /\ \A n \in Machines : /\ session.owned[n] \in {Nil, RomAt(n)}
                               /\ session.path[n] \in {Nil, PathAt(n)}
    BY DEF Sessions
  <1>3. PathAt(m) \in {PathAt(0), PathAt(1)} /\ RomAt(m) \in {RomAt(0), RomAt(1)}
    BY ZeroAndOne
  <1>4. /\ paths \in [Machines -> {Nil, PathAt(0), PathAt(1)}] /\ paths[m] = PathAt(m)
        /\ \A n \in Machines : n # m => paths[n] = session.path[n]
    BY <1>2, <1>3
  <1>5. /\ owneds \in [Machines -> {Nil, RomAt(0), RomAt(1)}] /\ owneds[m] = owned
        /\ \A n \in Machines : n # m => owneds[n] = session.owned[n]
    BY <1>2, <1>3
  <1>6. /\ datas \in [Machines -> {Nil, RomAt(0), RomAt(1)}] /\ datas[m] = data
        /\ \A n \in Machines : n # m => datas[n] = session.data[n]
    BY <1>2
  <1>7. /\ platforms \in [Machines -> Text] /\ platforms[m] = platform
        /\ \A n \in Machines : n # m => platforms[n] = session.platform[n]
    BY <1>2
  <1> HIDE DEF paths, platforms, owneds, datas
  <1>8. \A n \in Machines : owneds[n] \in {Nil, RomAt(n)} /\ paths[n] \in {Nil, PathAt(n)}
    BY <1>2, <1>4, <1>5
  <1>9. t \in Sessions
    BY <1>4, <1>5, <1>6, <1>7, <1>8, SessionFields DEF Sessions
  <1>10. /\ t.engine = session.engine /\ t.pair = session.pair
         /\ t.pixels = session.pixels /\ t.loaded = session.loaded
         /\ t.platform = platforms /\ t.data = datas /\ t.owned = owneds
         /\ t.path = paths
    OBVIOUS
  <1> HIDE DEF t
  <1>11. /\ session'.engine = session.engine /\ session'.pair = session.pair
         /\ session'.pixels = session.pixels /\ session'.loaded = session.loaded
         /\ session'.platform = platforms /\ session'.data = datas
         /\ session'.owned = owneds /\ session'.path = paths /\ session' \in Sessions
    BY <1>1, <1>9, <1>10
  <1> QED BY <1>4, <1>5, <1>6, <1>7, <1>11 DEF Took

\* What own_rom allocates.
Copied(new, old, m, path, rom, shares) ==
  /\ DOMAIN new = DOMAIN old \cup {PathAt(m)} \cup (IF shares THEN {} ELSE {RomAt(m)})
  /\ new[PathAt(m)] = path /\ (~shares => new[RomAt(m)] = rom)
  /\ \A a \in DOMAIN old :
       a # PathAt(m) /\ (shares \/ a # RomAt(m)) => new[a] = old[a]

LEMMA OwnHeap ==
  ASSUME NEW old, NEW m \in Machines, NEW path, NEW rom, NEW shares \in BOOLEAN
  PROVE  Copied(With(old, With(Block(PathAt(m), path),
                               IF shares THEN << >> ELSE Block(RomAt(m), rom))),
                old, m, path, rom, shares)
  <1>1. RomAt(m) # PathAt(m)
    BY AddressFacts
  <1> DEFINE copy == IF shares THEN << >> ELSE Block(RomAt(m), rom)
             blocks == With(Block(PathAt(m), path), copy)
  <1>2. DOMAIN copy = IF shares THEN {} ELSE {RomAt(m)}
    BY DEF Block
  <1>3. ~shares => copy[RomAt(m)] = rom
    BY DEF Block
  <1> HIDE DEF copy
  <1>4. /\ DOMAIN blocks = {PathAt(m)} \cup (IF shares THEN {} ELSE {RomAt(m)})
        /\ blocks[PathAt(m)] = path
        /\ ~shares => blocks[RomAt(m)] = rom
    BY <1>1, <1>2, <1>3 DEF With, Block
  <1> HIDE DEF blocks
  <1>5. Copied(With(old, blocks), old, m, path, rom, shares)
    BY <1>4 DEF With, Copied
  <1> QED BY <1>5 DEF blocks, copy

LEMMA HeapGrowsBy ==
  ASSUME HeapInv, NEW new, Live' = Live \cup new, corrupt' = corrupt,
         load'.at # "idle", Own \subseteq Own', Own' \subseteq Own \cup new,
         new \subseteq Own' \cup Borrowed
  PROVE  HeapInv'
  BY SameKinds DEF HeapInv, InCall

LEMMA OwnRomLoad ==
  ASSUME LoadInv, NEW m \in Machines, OwnRom(m)
  PROVE  LoadInv'
  <1> DEFINE shares == Shares(m)
             data == IF shares THEN SharedData(m) ELSE RomAt(m)
             owned == IF shares THEN Nil ELSE RomAt(m)
             next == IF m = 0 THEN "rom1" ELSE "create"
             new == {PathAt(m)} \cup (IF shares THEN {} ELSE {RomAt(m)})
  <1>1. LoadTypes /\ HeapInv /\ load.at = (IF m = 0 THEN "rom0" ELSE "rom1")
    BY DEF LoadInv, OwnRom
  <1>2. /\ Taking /\ Cart(0) /\ Cart(1) /\ Alike /\ Opening
        /\ m = 1 => Kept(0) /\ session.data[0] = RomAt(0)
    <2>1. StageInv /\ (m = 0 \/ m = 1)
      BY ZeroAndOne DEF LoadInv
    <2>2. CASE m = 0
      BY <1>1, <2>1, <2>2 DEF StageInv, Taking
    <2>3. CASE m = 1
      BY <1>1, <2>1, <2>3 DEF StageInv, Taking
    <2> QED BY <2>1, <2>2, <2>3
  <1>3. CASE Fails
    BY <1>1, <1>3, FailsLoad
  <1>4. CASE /\ heap' = With(heap, With(Block(PathAt(m), load.roms[m].path),
                                        IF shares THEN << >> ELSE Block(RomAt(m), Held(m))))
             /\ session' = [session EXCEPT !.path[m] = PathAt(m),
                              !.platform[m] = Detect(Held(m)),
                              !.owned[m] = owned, !.data[m] = data]
             /\ Goto(next) /\ UNCHANGED <<corrupt, saves, given>>
    <2>1. next \in Stages /\ next # "idle"
      BY DEF Stages
    <2>2. shares \in BOOLEAN /\ (shares => m = 1 /\ load.roms[1].data = load.roms[0].data)
      BY DEF Shares
    <2>3. /\ owned \in {Nil, RomAt(m)} /\ data \in {Nil, RomAt(0), RomAt(1)}
          /\ shares => owned = Nil /\ data = RomAt(0)
          /\ ~shares => owned = RomAt(m) /\ data = RomAt(m)
      BY <1>2, <2>2, ZeroAndOne DEF SharedData
    <2>4. new = {PathAt(m)} \cup (IF shares THEN {} ELSE {RomAt(m)})
      OBVIOUS
    <2> HIDE DEF data, owned, next, new, shares
    <2>5. load' \in Loads /\ load'.at = next /\ load'.roms = load.roms
      BY <1>1, <1>4, <2>1, GotoFacts DEF LoadTypes
    <2>6. /\ session' \in Sessions /\ session'.pair = session.pair
          /\ session'.pixels = session.pixels /\ session'.engine = session.engine
          /\ session'.loaded = session.loaded
          /\ session'.path[m] = PathAt(m) /\ session'.platform[m] = Detect(Held(m))
          /\ session'.owned[m] = owned /\ session'.data[m] = data
          /\ \A n \in Machines : n # m =>
               /\ session'.path[n] = session.path[n] /\ session'.data[n] = session.data[n]
               /\ session'.owned[n] = session.owned[n]
               /\ session'.platform[n] = session.platform[n]
      <3> DEFINE platform == Detect(Held(m))
      <3>1. session \in Sessions /\ platform \in Text
        BY <1>1, DetectFacts DEF LoadTypes
      <3>2. session' = [session EXCEPT !.path[m] = PathAt(m), !.platform[m] = platform,
                                       !.owned[m] = owned, !.data[m] = data]
        BY <1>4
      <3> HIDE DEF platform
      <3>3. Took(m, platform, owned, data)
        BY <2>3, <3>1, <3>2, OwnFields
      <3> QED BY <3>3 DEF platform, Took
    <2>7. Copied(heap', heap, m, load.roms[m].path, Held(m), shares)
      BY <1>4, <2>2, OwnHeap
    <2>8. /\ Live' = Live \cup new /\ heap'[PathAt(m)] = load.roms[m].path
          /\ ~shares => heap'[RomAt(m)] = Held(m)
          /\ \A a \in Live : a \notin new => heap'[a] = heap[a]
      BY <2>4, <2>7 DEF Copied, Live
    <2>9. new \subseteq Own' /\ Own \subseteq Own' /\ Own' \subseteq Own \cup new
      <3>1. PathAt(m) # Nil /\ RomAt(m) # Nil
        BY AddressFacts
      <3>2. /\ session.path[m] \in {Nil, PathAt(m)} /\ session.owned[m] \in {Nil, RomAt(m)}
            /\ shares => session.owned[m] = Nil
        BY <1>1, <1>2, <2>2, SessionFields DEF LoadTypes, Taking
      <3>3. CASE m = 0
        BY <2>3, <2>4, <2>6, <3>1, <3>2, <3>3, ZeroAndOne DEF Own
      <3>4. CASE m = 1
        BY <2>3, <2>4, <2>6, <3>1, <3>2, <3>4, ZeroAndOne DEF Own
      <3> QED BY <3>3, <3>4, ZeroAndOne
    <2>10. HeapInv'
      BY <1>1, <1>4, <2>1, <2>5, <2>8, <2>9, HeapGrowsBy
    <2>11. new \cap Borrowed = {}
      BY <2>4, BorrowedFacts
    <2>12. ASSUME NEW n \in Machines PROVE Cart(n)' /\ Held(n)' = Held(n)
      <3>1. Cart(n)
        BY <1>2, ZeroAndOne
      <3>2. /\ load.roms[n].data \in Live \cap Borrowed
            /\ Means(load.roms[n].path, given[n])
        BY <3>1 DEF Cart
      <3>3. load.roms[n].data \in Live' /\ heap'[load.roms[n].data] = heap[load.roms[n].data]
        BY <2>8, <2>11, <3>2
      <3> QED BY <1>4, <2>5, <3>1, <3>2, <3>3, CartStays
    <2>13. Kept(m)'
      <3>1. Cart(m)
        BY <1>2, ZeroAndOne
      <3>2. session'.data[m] \in Own'
        <4>1. CASE shares
          BY <1>2, <2>2, <2>3, <2>6, <2>9, <4>1 DEF Kept
        <4>2. CASE ~shares
          BY <2>3, <2>4, <2>6, <2>9, <4>2
        <4> QED BY <2>2, <4>1, <4>2
      <3>3. given'[m].rom = {heap'[session'.data[m]]}
        <4>1. given[m].rom = {Held(m)} /\ given' = given
          BY <1>4, <3>1 DEF Cart
        <4>2. CASE shares
          <5>1. RomAt(0) # PathAt(1) /\ RomAt(0) \in Live /\ m = 1
            BY <1>1, <1>2, <2>2, <4>2, AddressFacts, ZeroAndOne DEF Kept, HeapInv
          <5>2. heap'[RomAt(0)] = heap[RomAt(0)]
            BY <2>4, <2>8, <4>2, <5>1
          <5>3. given[0].rom = {heap[RomAt(0)]} /\ given[0].rom = {Held(0)}
            BY <1>2, <5>1 DEF Kept, Cart
          <5>4. Held(1) = Held(0)
            BY <2>2, <4>2 DEF Held
          <5> QED BY <2>3, <2>6, <4>1, <4>2, <5>1, <5>2, <5>3, <5>4
        <4>3. CASE ~shares
          BY <2>3, <2>6, <2>8, <4>1, <4>3
        <4> QED BY <2>2, <4>2, <4>3
      <3>4. load.roms[m].path \in Routes
        BY <1>1, LoadFields DEF LoadTypes
      <3>5. Means(heap'[PathAt(m)], given'[m])
        BY <1>4, <2>8, <3>1 DEF Cart
      <3>6. session'.engine = Family(session'.platform[m])
        BY <1>2, <2>6, ZeroAndOne DEF Taking, Alike
      <3>7. Routes' = Routes /\ PathAt(m)' = PathAt(m)
        BY DEF Routes, PathAt, Words, Component, Text
      <3> QED BY <2>6, <2>8, <3>2, <3>3, <3>4, <3>5, <3>6, <3>7 DEF Kept, Means
    <2>14. Opening'
      BY <1>2, <1>4, <2>6 DEF Opening
    <2>15. CASE m = 0
      <3>1. Cart(0)' /\ Cart(1)' /\ Held(0)' = Held(0) /\ Held(1)' = Held(1)
        BY <2>12, ZeroAndOne
      <3>2. Alike'
        BY <1>2, <3>1 DEF Alike
      <3>3. session'.engine = Family(Detect(Held(0)')) /\ session'.owned[1] = Nil
        BY <1>2, <2>6, <2>15, <3>1, ZeroAndOne DEF Taking
      <3>4. Taking'
        BY <2>14, <3>1, <3>2, <3>3 DEF Taking
      <3>5. ~shares /\ session'.data[0] = RomAt(0)
        BY <2>2, <2>3, <2>6, <2>15
      <3>6. StageInv'
        BY <2>5, <2>13, <2>15, <3>4, <3>5 DEF StageInv, next, RomAt
      <3> QED BY <2>5, <2>6, <2>10, <3>6, SameKinds DEF LoadInv, LoadTypes
    <2>16. CASE m = 1
      <3>1. /\ Kept(0) /\ session.data[0] \in Own
            /\ session.path[0] = PathAt(0) /\ RomAt(0) = session.data[0]
        BY <1>2, <2>16 DEF Kept
      <3>2. PathAt(0) \in Own /\ PathAt(0) \notin new /\ RomAt(0) \notin new
        BY <2>4, <2>16, <3>1, AddressFacts, ZeroAndOne DEF Own
      <3>3. heap'[PathAt(0)] = heap[PathAt(0)] /\ heap'[RomAt(0)] = heap[RomAt(0)]
        BY <1>1, <2>8, <3>1, <3>2 DEF HeapInv
      <3>4. Kept(0)'
        BY <1>4, <2>6, <2>9, <2>16, <3>1, <3>3, ZeroAndOne, KeptStays
      <3>5. StageInv'
        BY <2>5, <2>13, <2>14, <2>16, <3>4 DEF StageInv, next
      <3> QED BY <2>5, <2>6, <2>10, <3>5, SameKinds DEF LoadInv, LoadTypes
    <2> QED BY <2>15, <2>16, ZeroAndOne
  <1> QED BY <1>3, <1>4 DEF OwnRom, PathAt, RomAt, Held

\* Both cartridges stay kept when the heap only grows by other blocks.
LEMMA BothKept ==
  ASSUME LoadTypes, HeapInv, Kept(0), Kept(1), given' = given,
         session'.data = session.data, session'.path = session.path,
         session'.engine = session.engine, session'.platform = session.platform,
         Own \subseteq Own', \A a \in Own : a # PairAt => heap'[a] = heap[a]
  PROVE  Kept(0)' /\ Kept(1)'
  <1>1. ASSUME NEW m \in Machines PROVE Kept(m)'
    <2>1. Kept(m)
      BY ZeroAndOne
    <2>2. session.data[m] \in Own /\ session.path[m] = PathAt(m) /\ PathAt(m) # Nil
      BY <2>1, AddressFacts DEF Kept
    <2>3. PathAt(m) \in Own /\ PathAt(m) # PairAt
      BY <2>2, ZeroAndOne, AddressFacts DEF Own
    <2>4. session.data[m] # PairAt
      <3>1. session.data[m] \in {Nil, RomAt(0), RomAt(1)}
        BY SessionFields DEF LoadTypes
      <3> QED BY <3>1, AddressFacts, ZeroAndOne
    <2> QED BY <2>1, <2>2, <2>3, <2>4, KeptStays
  <1>2. Kept(0)'
    BY <1>1, ZeroAndOne
  <1>3. Kept(1)'
    BY <1>1, ZeroAndOne
  <1> QED BY <1>2, <1>3

LEMMA CreateLoad ==
  ASSUME LoadInv, CreatePair
  PROVE  LoadInv'
  <1>1. LoadTypes /\ HeapInv /\ load.at = "create"
    BY DEF LoadInv, CreatePair
  <1>2. Opening /\ Kept(0) /\ Kept(1)
    BY <1>1 DEF LoadInv, StageInv
  <1>3. CASE Fails
    BY <1>1, <1>3, FailsLoad
  <1>4. CASE /\ heap' = With(heap, Block(PairAt, session.engine))
             /\ session' = [session EXCEPT !.pair = PairAt]
             /\ Goto("start") /\ UNCHANGED <<corrupt, saves, given>>
    <2>1. "start" \in Stages /\ "start" # "idle"
      BY DEF Stages
    <2>2. load' \in Loads /\ load'.at = "start"
      BY <1>1, <1>4, <2>1, GotoFacts DEF LoadTypes
    <2>3. /\ session' \in Sessions /\ session'.pair = PairAt
          /\ session'.pixels = session.pixels /\ session'.engine = session.engine
          /\ session'.loaded = session.loaded /\ session'.owned = session.owned
          /\ session'.path = session.path /\ session'.data = session.data
          /\ session'.platform = session.platform
      BY <1>1, <1>4 DEF LoadTypes, Sessions
    <2>4. Extends(heap', heap, PairAt, session.engine)
      BY <1>4, OneMoreBlock
    <2>5. session.pair \in {Nil, PairAt} /\ PairAt # Nil
      BY <1>1, SessionFields, AddressFacts DEF LoadTypes
    <2>6. Own \subseteq Own' /\ Own' \subseteq Own \cup {PairAt} /\ PairAt \in Own'
      BY <2>3, <2>5 DEF Own
    <2>7. HeapInv'
      <3>1. Live' = Live \cup {PairAt}
        BY <2>4 DEF Extends, Live
      <3>2. {PairAt} \subseteq Own' \cup Borrowed
        BY <2>6
      <3> QED BY <1>1, <1>4, <2>1, <2>2, <2>6, <3>1, <3>2, HeapGrowsBy
    <2>8. \A a \in Own : a # PairAt => heap'[a] = heap[a]
      BY <1>1, <2>4 DEF Extends, HeapInv, Live
    <2>9. Kept(0)' /\ Kept(1)'
      BY <1>1, <1>2, <1>4, <2>3, <2>6, <2>8, BothKept
    <2>10. StageInv'
      BY <1>2, <1>4, <2>2, <2>3, <2>9 DEF StageInv, Opening
    <2> QED BY <2>2, <2>3, <2>7, <2>10, SameKinds DEF LoadInv, LoadTypes
  <1> QED BY <1>3, <1>4 DEF CreatePair, PairAt

LEMMA StartLoads ==
  ASSUME LoadInv, StartPair
  PROVE  LoadInv'
  <1>1. LoadTypes /\ HeapInv /\ load.at = "start"
    BY DEF LoadInv, StartPair
  <1>2. Opening /\ Kept(0) /\ Kept(1)
    BY <1>1 DEF LoadInv, StageInv
  <1>3. CASE Fails
    BY <1>1, <1>3, FailsLoad
  <1>4. CASE /\ session' = [session EXCEPT !.loaded = TRUE]
             /\ Goto("saves") /\ UNCHANGED <<heap, corrupt, saves, given>>
    <2>1. "saves" \in Stages /\ "saves" # "idle"
      BY DEF Stages
    <2>2. load' \in Loads /\ load'.at = "saves"
      BY <1>1, <1>4, <2>1, GotoFacts DEF LoadTypes
    <2>3. /\ session' \in Sessions /\ session'.pair = session.pair
          /\ session'.pixels = session.pixels /\ session'.engine = session.engine
          /\ session'.loaded = TRUE /\ session'.owned = session.owned
          /\ session'.path = session.path /\ session'.data = session.data
          /\ session'.platform = session.platform
      BY <1>1, <1>4 DEF LoadTypes, Sessions
    <2>4. Own' = Own /\ Live' = Live
      BY <1>4, <2>3 DEF Own, Live
    <2>5. HeapInv'
      BY <1>1, <1>4, <2>1, <2>2, <2>4, SameKinds DEF HeapInv, InCall
    <2>6. Kept(0)' /\ Kept(1)'
      BY <1>1, <1>2, <1>4, <2>3, <2>4, BothKept
    <2>7. StageInv'
      BY <1>2, <1>4, <2>2, <2>3, <2>6 DEF StageInv, Opening
    <2> QED BY <2>2, <2>3, <2>5, <2>7, SameKinds DEF LoadInv, LoadTypes
  <1> QED BY <1>3, <1>4 DEF StartPair

\* A step that leaves the session and the heap alone.
LEMMA WholeStays ==
  ASSUME LoadTypes, HeapInv, Whole, UNCHANGED <<heap, session, saves, given>>
  PROVE  Whole'
  <1>1. Own' = Own
    BY DEF Own
  <1>2. Kept(0)' /\ Kept(1)'
    BY <1>1, BothKept DEF Whole
  <1>3. PathAt(0)' = PathAt(0) /\ PathAt(1)' = PathAt(1)
    BY DEF PathAt
  <1> QED BY <1>2, <1>3 DEF Whole

LEMMA SavesLoad ==
  ASSUME LoadInv, OpenSaves
  PROVE  LoadInv'
  <1>1. LoadTypes /\ HeapInv /\ load.at = "saves"
    BY DEF LoadInv, OpenSaves
  <1>2. session.loaded /\ Kept(0) /\ Kept(1)
    BY <1>1 DEF LoadInv, StageInv
  <1>3. CASE Fails
    BY <1>1, <1>3, FailsLoad
  <1>4. CASE /\ saves' = BuildSavePaths(heap[session.path[0]], heap[session.path[1]],
                                        session.engine = "melonds")
             /\ saves' # NoFiles
             /\ Goto("renderer") /\ UNCHANGED <<heap, corrupt, session, given>>
    <2>1. "renderer" \in Stages /\ "renderer" # "idle"
      BY DEF Stages
    <2>2. load' \in Loads /\ load'.at = "renderer"
      BY <1>1, <1>4, <2>1, GotoFacts DEF LoadTypes
    <2>3. Own' = Own /\ Live' = Live
      BY <1>4 DEF Own, Live
    <2>4. HeapInv'
      BY <1>1, <1>4, <2>1, <2>2, <2>3, SameKinds DEF HeapInv, InCall
    <2>5. Kept(0)' /\ Kept(1)'
      BY <1>1, <1>2, <1>4, <2>3, BothKept
    <2>6. session.path[0] = PathAt(0) /\ session.path[1] = PathAt(1)
      BY <1>2 DEF Kept
    <2>7. Whole'
      <3>1. PathAt(0)' = PathAt(0) /\ PathAt(1)' = PathAt(1)
        BY DEF PathAt
      <3> QED BY <1>2, <1>4, <2>5, <2>6, <3>1 DEF Whole
    <2>8. StageInv'
      BY <2>2, <2>7 DEF StageInv
    <2> QED BY <1>1, <1>4, <2>2, <2>4, <2>8, SameKinds DEF LoadInv, LoadTypes
  <1> QED BY <1>3, <1>4 DEF OpenSaves

LEMMA RendererLoad ==
  ASSUME LoadInv, InstallRenderer
  PROVE  LoadInv'
  <1>1. LoadTypes /\ HeapInv /\ load.at = "renderer"
    BY DEF LoadInv, InstallRenderer
  <1>2. Whole
    BY <1>1 DEF LoadInv, StageInv
  <1>3. CASE Fails
    BY <1>1, <1>3, FailsLoad
  <1>4. CASE Goto("cleanup") /\ UNCHANGED <<heap, corrupt, session, saves, given>>
    <2>1. "cleanup" \in Stages /\ "cleanup" # "idle"
      BY DEF Stages
    <2>2. load' \in Loads /\ load'.at = "cleanup"
      BY <1>1, <1>4, <2>1, GotoFacts DEF LoadTypes
    <2>3. Own' = Own /\ Live' = Live
      BY <1>4 DEF Own, Live
    <2>4. HeapInv'
      BY <1>1, <1>4, <2>1, <2>2, <2>3, SameKinds DEF HeapInv, InCall
    <2>5. Whole'
      BY <1>1, <1>2, <1>4, WholeStays
    <2>6. StageInv'
      BY <2>2, <2>5 DEF StageInv
    <2> QED BY <1>1, <1>4, <2>2, <2>4, <2>6, SameKinds DEF LoadInv, LoadTypes
  <1> QED BY <1>3, <1>4 DEF InstallRenderer

LEMMA OwnApart ==
  ASSUME LoadTypes
  PROVE  Own \cap Borrowed = {}
  <1>1. /\ session.pair \in {Nil, PairAt} /\ session.pixels \in {Nil, PixelsAt}
        /\ session.owned[0] \in {Nil, RomAt(0)} /\ session.owned[1] \in {Nil, RomAt(1)}
        /\ session.path[0] \in {Nil, PathAt(0)} /\ session.path[1] \in {Nil, PathAt(1)}
    BY SessionFields, ZeroAndOne DEF LoadTypes
  <1> QED BY <1>1, BorrowedFacts, ZeroAndOne DEF Own

LEMMA IdleFacts == Idle \in Loads /\ Idle.at = "idle" /\ NoRom \in Carts
  <1>1. NoPath \in Routes
    BY RouteFacts
  <1>2. NoRom \in Carts
    BY <1>1 DEF NoRom, Carts
  <1>3. [m \in Machines |-> NoRom] \in [Machines -> Carts]
    BY <1>2
  <1>4. "idle" \in Stages
    BY DEF Stages
  <1> QED BY <1>2, <1>3, <1>4 DEF Idle, Loads

LEMMA ReturnLoad ==
  ASSUME LoadInv, Return
  PROVE  LoadInv'
  <1>1. /\ LoadTypes /\ HeapInv /\ (Fresh \/ Whole)
        /\ heap' = Without(heap, Borrowed) /\ load' = Idle
        /\ given' = (IF session.loaded THEN given ELSE NotGiven)
        /\ UNCHANGED <<corrupt, session, saves>>
    BY DEF LoadInv, StageInv, Return, Borrowed
  <1>2. load' \in Loads /\ load'.at = "idle"
    BY <1>1, IdleFacts
  <1>3. Own' = Own /\ Own \cap Borrowed = {}
    BY <1>1, OwnApart DEF Own
  <1>4. Live' = Live \ Borrowed /\ \A a \in Live \ Borrowed : heap'[a] = heap[a]
    BY <1>1, WithoutFacts DEF Live
  <1>5. HeapInv'
    BY <1>1, <1>3, <1>4, SameKinds DEF HeapInv
  <1>6. CASE Fresh
    <2>1. StageInv'
      BY <1>1, <1>2, <1>6 DEF StageInv, Fresh
    <2> QED BY <1>1, <1>2, <1>5, <2>1, SameKinds DEF LoadInv, LoadTypes
  <1>7. CASE Whole
    <2>1. given' = given /\ \A a \in Own : heap'[a] = heap[a]
      BY <1>1, <1>3, <1>4, <1>7 DEF Whole, HeapInv
    <2>2. Kept(0)' /\ Kept(1)'
      BY <1>1, <1>3, <1>7, <2>1, BothKept DEF Whole
    <2>3. heap'[PathAt(0)] = heap[PathAt(0)] /\ heap'[PathAt(1)] = heap[PathAt(1)]
      <3>1. session.path[0] = PathAt(0) /\ session.path[1] = PathAt(1)
        BY <1>7 DEF Whole, Kept
      <3>2. PathAt(0) \in Own /\ PathAt(1) \in Own
        BY <3>1, AddressFacts, ZeroAndOne DEF Own
      <3> QED BY <2>1, <3>2
    <2>4. PathAt(0)' = PathAt(0) /\ PathAt(1)' = PathAt(1)
      BY DEF PathAt
    <2>5. Whole'
      BY <1>1, <1>7, <2>2, <2>3, <2>4 DEF Whole
    <2>6. StageInv'
      BY <1>2, <2>5 DEF StageInv
    <2> QED BY <1>1, <1>2, <1>5, <2>6, SameKinds DEF LoadInv, LoadTypes
  <1> QED BY <1>1, <1>6, <1>7

LEMMA UnloadLoad ==
  ASSUME LoadInv, Unload
  PROVE  LoadInv'
  <1>1. /\ LoadTypes /\ HeapInv /\ ~InCall /\ load' = load /\ given' = NotGiven
        /\ Unloaded(heap)
    BY DEF LoadInv, Unload
  <1>2. ~BadFree(Freed(session), Live) /\ Range(Freed(session)) \ {Nil} = Own
    BY <1>1, FreedOnce DEF LoadTypes, HeapInv
  <1>3. ~corrupt' /\ session' = NoSession /\ saves' = NoFiles
    BY <1>1, <1>2 DEF Unloaded, HeapInv, Live
  <1>4. Live' = Live \ Range(Freed(session))
    BY <1>1, WithoutFacts DEF Unloaded, Live
  <1>5. Own' = {} /\ Live' = {}
    BY <1>1, <1>2, <1>3, <1>4, NothingOwned DEF HeapInv
  <1>6. HeapInv'
    BY <1>3, <1>5 DEF HeapInv
  <1>7. StageInv'
    BY <1>1, <1>3 DEF StageInv, InCall, Fresh
  <1> QED BY <1>1, <1>3, <1>6, <1>7, SameKinds, NoSessionFields DEF LoadInv, LoadTypes

\* What a load begins with: nothing but what it is given.
LEMMA BeginFacts ==
  ASSUME LoadInv, NEW blocks, NEW roms \in [Machines -> Carts],
         NEW at \in {"cleanup", "detect", "read0"}, NEW asked,
         Begin(blocks, roms, at, asked), DOMAIN blocks \subseteq Borrowed
  PROVE  /\ LoadTypes' /\ HeapInv' /\ Fresh' /\ load'.at = at /\ load'.roms = roms
         /\ given' = asked /\ Live' = DOMAIN blocks
         /\ \A a \in DOMAIN blocks : heap'[a] = blocks[a]
  <1>1. /\ LoadTypes /\ HeapInv /\ ~InCall
        /\ heap' = With(Without(heap, Range(Freed(session))), blocks)
        /\ corrupt' = (corrupt \/ BadFree(Freed(session), Live))
        /\ session' = NoSession /\ saves' = NoFiles
        /\ load' = [at |-> at, roms |-> roms] /\ given' = asked
    BY DEF LoadInv, Begin
  <1>2. ~BadFree(Freed(session), Live) /\ Range(Freed(session)) \ {Nil} = Own
    BY <1>1, FreedOnce DEF LoadTypes, HeapInv
  <1>3. DOMAIN Without(heap, Range(Freed(session))) = {}
    <2>1. DOMAIN Without(heap, Range(Freed(session))) = Live \ Range(Freed(session))
      BY WithoutFacts DEF Live
    <2>2. Live \subseteq Own
      BY <1>1 DEF HeapInv
    <2> QED BY <1>2, <2>1, <2>2
  <1>4. /\ DOMAIN heap' = DOMAIN blocks
        /\ \A a \in DOMAIN blocks : heap'[a] = blocks[a]
    <2> DEFINE h == Without(heap, Range(Freed(session)))
    <2>1. DOMAIN h = {} /\ heap' = With(h, blocks)
      BY <1>1, <1>3
    <2> HIDE DEF h
    <2> QED BY <2>1 DEF With
  <1>5. Own' = {}
    BY <1>1, NothingOwned
  <1>6. load' \in Loads /\ load'.at = at /\ load'.roms = roms /\ at # "idle"
    BY <1>1 DEF Loads, Stages
  <1>7. HeapInv'
    BY <1>1, <1>2, <1>4, <1>5, <1>6, SameKinds DEF HeapInv, Live, InCall
  <1> QED BY <1>1, <1>4, <1>6, <1>7, NoSessionFields, SameKinds DEF LoadTypes, Fresh, Live

LEMMA AskedMeans ==
  ASSUME NEW g \in Games
  PROVE  /\ g.path \in Routes /\ g.rom.hash \in Text
         /\ Asked(g).rom = {g.rom} /\ Means(g.path, Asked(g))
  <1>1. g.path \in Routes /\ g.rom.hash \in Text
    BY ContentConstants
  <1>2. /\ Asked(g).rom = {g.rom}
        /\ Asked(g).place = IF g.path = NoPath THEN {} ELSE {Reached(Cwd, g.path)}
    BY DEF Asked
  <1> DEFINE asked == Asked(g)
  <1> HIDE DEF asked
  <1>3. CASE g.path = NoPath
    BY <1>1, <1>2, <1>3, MeansNothing DEF asked
  <1>4. CASE g.path # NoPath
    BY <1>1, <1>2, <1>4, MeansPlace DEF asked
  <1> QED BY <1>1, <1>2, <1>3, <1>4

\* A load that begins with the cartridges of the frontend.
BeginsWith(blocks, g, from, at) ==
  Begin(blocks, [m \in Machines |-> [data |-> from[m], path |-> g[m].path]], at,
        [m \in Machines |-> Asked(g[m])])

LEMMA BeginCarts ==
  ASSUME LoadInv, NEW blocks, NEW g \in [Machines -> Games], NEW from \in [Machines -> Borrowed],
         NEW at \in {"cleanup", "detect"},
         BeginsWith(blocks, g, from, at),
         DOMAIN blocks \subseteq Borrowed,
         \A m \in Machines : from[m] \in DOMAIN blocks /\ blocks[from[m]] = g[m].rom
  PROVE  LoadInv'
  <1> DEFINE roms == [m \in Machines |-> [data |-> from[m], path |-> g[m].path]]
             asked == [m \in Machines |-> Asked(g[m])]
  <1>1. \A m \in Machines : g[m] \in Games
    OBVIOUS
  <1>2. \A m \in Machines : [data |-> from[m], path |-> g[m].path] \in Carts
    <2>1. ASSUME NEW m \in Machines
          PROVE  [data |-> from[m], path |-> g[m].path] \in Carts
      <3>1. g[m].path \in Routes
        BY <1>1, AskedMeans
      <3> QED BY <3>1 DEF Carts
    <2> QED BY <2>1
  <1>3. roms \in [Machines -> Carts]
    BY <1>2
  <1>4. \A m \in Machines : roms[m].data = from[m] /\ roms[m].path = g[m].path
    OBVIOUS
  <1>5. \A m \in Machines : asked[m] = Asked(g[m])
    OBVIOUS
  <1>6. Begin(blocks, roms, at, asked)
    BY DEF BeginsWith
  <1> HIDE DEF roms, asked
  <1>7. /\ LoadTypes' /\ HeapInv' /\ Fresh' /\ load'.at = at /\ load'.roms = roms
        /\ given' = asked /\ Live' = DOMAIN blocks
        /\ \A a \in DOMAIN blocks : heap'[a] = blocks[a]
    BY <1>3, <1>6, BeginFacts
  <1>8. ASSUME NEW m \in Machines PROVE Cart(m)'
    <2>1. /\ g[m].path \in Routes /\ g[m].rom.hash \in Text
          /\ Asked(g[m]).rom = {g[m].rom} /\ Means(g[m].path, Asked(g[m]))
      BY <1>1, AskedMeans
    <2>2. load'.roms[m].data = from[m] /\ from[m] \in Live' /\ Held(m)' = g[m].rom
      BY <1>4, <1>7 DEF Held
    <2>3. Means(load'.roms[m].path, given'[m])
      BY <1>4, <1>5, <1>7, <2>1
    <2>4. given'[m].rom = {g[m].rom}
      BY <1>5, <1>7, <2>1
    <2> QED BY <2>1, <2>2, <2>3, <2>4, SameKinds DEF Cart, Means
  <1>9. Cart(0)' /\ Cart(1)'
    BY <1>8, ZeroAndOne
  <1>10. StageInv'
    BY <1>7, <1>9 DEF StageInv
  <1> QED BY <1>7, <1>10 DEF LoadInv

LEMMA GameLoad ==
  ASSUME LoadInv, LoadGame
  PROVE  LoadInv'
  <1>7. PICK x \in Games :
         Begin(Block(CallerAt(0), x.rom),
               [m \in Machines |-> [data |-> CallerAt(0), path |-> x.path]],
               IF x.rom.size = 0 THEN "cleanup" ELSE "detect",
               [m \in Machines |-> Asked(x)])
    BY DEF LoadGame, CallerAt
  <1> DEFINE g == [m \in Machines |-> x]
             from == [m \in Machines |-> CallerAt(0)]
             blocks == Block(CallerAt(0), x.rom)
             at == IF x.rom.size = 0 THEN "cleanup" ELSE "detect"
  <1>1. CallerAt(0) \in Borrowed
    BY BorrowedFacts, ZeroAndOne
  <1>2. DOMAIN blocks = {CallerAt(0)} /\ blocks[CallerAt(0)] = x.rom
    BY OneBlock
  <1>3. /\ g \in [Machines -> Games] /\ from \in [Machines -> Borrowed]
        /\ \A m \in Machines : g[m] = x /\ from[m] = CallerAt(0)
        /\ at \in {"cleanup", "detect"}
    BY <1>1
  <1>4. /\ [m \in Machines |-> [data |-> CallerAt(0), path |-> x.path]]
            = [m \in Machines |-> [data |-> from[m], path |-> g[m].path]]
        /\ [m \in Machines |-> Asked(x)] = [m \in Machines |-> Asked(g[m])]
    BY <1>3
  <1>5. BeginsWith(blocks, g, from, at)
    BY <1>4, <1>7 DEF BeginsWith
  <1> HIDE DEF g, from, blocks, at
  <1> QED BY <1>1, <1>2, <1>3, <1>5, BeginCarts

LEMMA SpecialLoad ==
  ASSUME LoadInv, LoadSpecial
  PROVE  LoadInv'
  <1>7. PICK g \in [Machines -> Games] :
         Begin([a \in {CallerAt(m) : m \in Machines} |-> g[a[2]].rom],
               [m \in Machines |-> [data |-> CallerAt(m), path |-> g[m].path]],
               IF \E m \in Machines : g[m].rom.size = 0 THEN "cleanup" ELSE "detect",
               [m \in Machines |-> Asked(g[m])])
    BY DEF LoadSpecial, CallerAt
  <1> DEFINE from == [m \in Machines |-> CallerAt(m)]
             blocks == [a \in {CallerAt(m) : m \in Machines} |-> g[a[2]].rom]
             at == IF \E m \in Machines : g[m].rom.size = 0 THEN "cleanup" ELSE "detect"
  <1>1. \A m \in Machines : CallerAt(m) \in Borrowed /\ CallerAt(m)[2] = m
    BY BorrowedFacts DEF CallerAt
  <1>2. /\ DOMAIN blocks \subseteq Borrowed
        /\ \A m \in Machines : /\ CallerAt(m) \in DOMAIN blocks
                               /\ blocks[CallerAt(m)] = g[m].rom
    BY <1>1
  <1>3. /\ from \in [Machines -> Borrowed]
        /\ \A m \in Machines : from[m] = CallerAt(m)
        /\ at \in {"cleanup", "detect"}
    BY <1>1
  <1>4. [m \in Machines |-> [data |-> CallerAt(m), path |-> g[m].path]]
          = [m \in Machines |-> [data |-> from[m], path |-> g[m].path]]
    BY <1>3
  <1>5. BeginsWith(blocks, g, from, at)
    BY <1>4, <1>7 DEF BeginsWith
  <1> HIDE DEF from, blocks, at
  <1>6. \A m \in Machines : from[m] \in DOMAIN blocks /\ blocks[from[m]] = g[m].rom
    BY <1>2, <1>3
  <1> QED BY <1>2, <1>3, <1>5, <1>6, BeginCarts

LEMMA ListLoad ==
  ASSUME LoadInv, LoadPlaylist
  PROVE  LoadInv'
  <1> PICK p \in Playlists :
         \E entries \in {Parse(p.path, p), <<Failed>>} :
           Begin(<< >>,
                 [m \in Machines |->
                    [data |-> Nil,
                     path |-> IF entries = <<Failed>> THEN NoPath ELSE entries[m + 1]]],
                 IF entries = <<Failed>> THEN "cleanup" ELSE "read0",
                 Meant(p))
    BY DEF LoadPlaylist
  <1> PICK entries \in {Parse(p.path, p), <<Failed>>} :
         Begin(<< >>,
               [m \in Machines |->
                  [data |-> Nil,
                   path |-> IF entries = <<Failed>> THEN NoPath ELSE entries[m + 1]]],
               IF entries = <<Failed>> THEN "cleanup" ELSE "read0",
               Meant(p))
    OBVIOUS
  <1> DEFINE path(m) == IF entries = <<Failed>> THEN NoPath ELSE entries[m + 1]
             roms == [m \in Machines |-> [data |-> Nil, path |-> path(m)]]
             at == IF entries = <<Failed>> THEN "cleanup" ELSE "read0"
             asked == Meant(p)
  <1>1. ASSUME NEW m \in Machines, entries # <<Failed>>
        PROVE  Promised(m, entries[m + 1], asked)
    BY <1>1, PlaylistPromises
  <1>2. ASSUME NEW m \in Machines PROVE path(m) \in Routes
    BY <1>1, RouteFacts DEF Promised
  <1>3. Begin(<< >>, roms, at, asked)
    OBVIOUS
  <1> HIDE DEF asked
  <1>4. roms \in [Machines -> Carts] /\ \A m \in Machines : roms[m].path = path(m)
    BY <1>2 DEF Carts
  <1>5. at \in {"cleanup", "detect", "read0"}
    OBVIOUS
  <1> HIDE DEF roms
  <1>6. /\ LoadTypes' /\ HeapInv' /\ Fresh' /\ load'.at = at /\ load'.roms = roms
        /\ given' = asked
    <2>1. DOMAIN << >> \subseteq Borrowed
      OBVIOUS
    <2> QED BY <1>3, <1>4, <1>5, <2>1, BeginFacts
  <1>7. CASE entries = <<Failed>>
    BY <1>6, <1>7 DEF LoadInv, StageInv
  <1>8. CASE entries # <<Failed>>
    <2>1. ASSUME NEW m \in Machines PROVE Awaited(m)'
      BY <1>1, <1>4, <1>6, <1>8 DEF Awaited, Promised
    <2> QED BY <1>6, <1>8, <2>1, ZeroAndOne DEF LoadInv, StageInv
  <1> QED BY <1>7, <1>8

-----------------------------------------------------------------------------
(* The two theorems about a load.                                          *)

LEMMA LoadInvStarts == Init => LoadInv
  <1> SUFFICES ASSUME Init PROVE LoadInv
    OBVIOUS
  <1>1. /\ heap = << >> /\ ~corrupt /\ session = NoSession /\ saves = NoFiles
        /\ load = Idle
    BY DEF Init, LoadInit
  <1>2. session \in Sessions /\ load \in Loads /\ load.at = "idle"
    BY <1>1, NoSessionFields, IdleFacts
  <1>3. Live = {} /\ Own = {}
    BY <1>1, NoSessionFields, ZeroAndOne DEF Live, Own
  <1> QED BY <1>1, <1>2, <1>3 DEF LoadInv, LoadTypes, HeapInv, StageInv, Fresh

LEMMA LoadInvStutters ==
  ASSUME LoadInv, UNCHANGED loadVars
  PROVE  LoadInv'
  <1>1. UNCHANGED <<heap, corrupt, session, saves, load, given>>
    BY DEF loadVars
  <1>2. Own' = Own /\ Live' = Live
    BY <1>1 DEF Own, Live
  <1>3. LoadTypes' /\ HeapInv'
    BY <1>1, <1>2, SameKinds DEF LoadInv, LoadTypes, HeapInv, InCall
  <1>4. ASSUME NEW m \in Machines
        PROVE  /\ Cart(m) => Cart(m)'
               /\ Kept(m) => Kept(m)'
               /\ Awaited(m) => Awaited(m)'
               /\ Held(m)' = Held(m)
               /\ RomAt(m)' = RomAt(m) /\ BytesAt(m)' = BytesAt(m)
               /\ PathAt(m)' = PathAt(m)
    <2>1. Held(m)' = Held(m) /\ RomAt(m)' = RomAt(m) /\ PathAt(m)' = PathAt(m)
          /\ BytesAt(m)' = BytesAt(m)
      BY <1>1 DEF Held, RomAt, PathAt, BytesAt
    <2>2. Awaited(m) => Awaited(m)'
      BY <1>1 DEF Awaited, Promised
    <2>3. Routes' = Routes
      BY DEF Routes, Words, Component, Text
    <2>4. Kept(m) => Kept(m)'
      BY <1>1, <1>2, <2>1, <2>3 DEF Kept, Means
    <2>5. Cart(m) => Cart(m)'
      BY <1>1, <1>2, <2>1, SameKinds DEF Cart, Means
    <2> QED BY <2>1, <2>2, <2>4, <2>5
  <1>5. /\ Cart(0) => Cart(0)'
        /\ Cart(1) => Cart(1)'
        /\ Kept(0) => Kept(0)'
        /\ Kept(1) => Kept(1)'
        /\ Awaited(0) => Awaited(0)'
        /\ Awaited(1) => Awaited(1)'
        /\ Held(0)' = Held(0) /\ Held(1)' = Held(1)
        /\ RomAt(0)' = RomAt(0) /\ BytesAt(0)' = BytesAt(0)
        /\ PathAt(0)' = PathAt(0) /\ PathAt(1)' = PathAt(1)
    BY <1>4, ZeroAndOne
  <1>6. /\ Fresh => Fresh'
        /\ Opening => Opening'
        /\ Alike => Alike'
        /\ Taking => Taking'
        /\ Whole => Whole'
    BY <1>1, <1>5 DEF Fresh, Opening, Alike, Taking, Whole
  <1>7. StageInv'
    BY <1>1, <1>5, <1>6 DEF LoadInv, StageInv
  <1> QED BY <1>3, <1>7 DEF LoadInv

LEMMA LoadInvKept == LoadInv /\ [Next]_vars => LoadInv'
  <1> SUFFICES ASSUME LoadInv, [Next]_vars PROVE LoadInv'
    OBVIOUS
  <1>1. CASE StartLoad
    <2>1. LoadGame \/ LoadSpecial \/ LoadPlaylist
      BY <1>1 DEF StartLoad, BeginLoad
    <2> QED BY <2>1, GameLoad, SpecialLoad, ListLoad
  <1>2. CASE ContinueLoad
    <2>1. \/ \E m \in Machines : ReadRomFile(m) \/ OwnRom(m)
          \/ DetectPair \/ AllocatePixels \/ CreatePair \/ StartPair \/ OpenSaves
          \/ InstallRenderer
      BY <1>2 DEF ContinueLoad, LoadStep
    <2> QED BY <2>1, ReadLoad, OwnRomLoad, DetectLoad, PixelsLoad, CreateLoad,
               StartLoads, SavesLoad, RendererLoad
  <1>3. CASE EndLoad
    BY <1>3, ReturnLoad DEF EndLoad
  <1>4. CASE EndSession
    BY <1>4, UnloadLoad DEF EndSession
  <1>5. CASE Run \/ Reset \/ Restore \/ UNCHANGED vars
    <2>1. UNCHANGED loadVars
      BY <1>5 DEF Run, StartRun, EndRun, Reset, Restore, vars
    <2> QED BY <2>1, LoadInvStutters
  <1> QED BY <1>1, <1>2, <1>3, <1>4, <1>5 DEF Next

LEMMA LoadInvWhole == LoadInv => LoadWhole
  <1> SUFFICES ASSUME LoadInv PROVE LoadWhole
    OBVIOUS
  <1>1. ~corrupt /\ Own \subseteq Live /\ LoadTypes
    BY DEF LoadInv, HeapInv
  <1>2. ASSUME ~InCall
        PROVE  /\ Live = Own /\ load.at = "idle" /\ (Fresh \/ Whole)
               /\ Range(Freed(session)) \ {Nil} = Own
    <2>1. Live = Own /\ load.at = "idle"
      BY <1>2 DEF LoadInv, HeapInv, InCall
    <2>2. Fresh \/ Whole
      BY <2>1 DEF LoadInv, StageInv
    <2>3. Range(Freed(session)) \ {Nil} = Own
      BY <1>1, FreedOnce DEF LoadTypes
    <2> QED BY <2>1, <2>2, <2>3
  <1>3. ASSUME ~InCall, Fresh
        PROVE  /\ ~session.loaded /\ Live = {} /\ session = NoSession /\ saves = NoFiles
    <2>1. Own = {}
      BY <1>3, NoSessionFields, ZeroAndOne DEF Fresh, Own
    <2> QED BY <1>2, <1>3, <2>1, NoSessionFields DEF Fresh
  <1>4. ASSUME ~InCall, Whole
        PROVE  /\ session.loaded
               /\ \A m \in Machines :
                    /\ session.data[m] \in Live /\ session.path[m] \in Live
                    /\ {heap[session.data[m]]} = given[m].rom
                    /\ session.engine = Family(session.platform[m])
               /\ Live = Range(Freed(session)) \ {Nil} /\ saves # NoFiles
    <2>1. ASSUME NEW m \in Machines
          PROVE  /\ session.data[m] \in Live /\ session.path[m] \in Live
                 /\ {heap[session.data[m]]} = given[m].rom
                 /\ session.engine = Family(session.platform[m])
      <3>1. Kept(m)
        BY <1>4, ZeroAndOne DEF Whole
      <3>2. session.path[m] \in Own
        BY <3>1, AddressFacts, ZeroAndOne DEF Kept, Own
      <3> QED BY <1>1, <3>1, <3>2 DEF Kept
    <2> QED BY <1>2, <1>4, <2>1 DEF Whole
  <1> QED BY <1>1, <1>2, <1>3, <1>4 DEF LoadWhole

\* dualboy_session_load and dualboy_session_unload: a load takes effect as a
\* whole or not at all, and nothing is leaked or freed twice.
THEOREM LoadsAreWhole == Spec => []LoadWhole
  <1>1. Init => LoadInv
    BY LoadInvStarts
  <1>2. LoadInv /\ [Next]_vars => LoadInv'
    BY LoadInvKept
  <1>3. LoadInv => LoadWhole
    BY LoadInvWhole
  <1> QED BY <1>1, <1>2, <1>3, PTL DEF Spec

LEMMA LoadInvOwners == LoadInv => SavesHaveOneOwner
  <1> SUFFICES ASSUME LoadInv, session.loaded, saves # NoFiles
               PROVE  /\ IsInjective(Names(saves[1]) \o Names(saves[2]))
                      /\ \A m \in Machines : \A place \in given[m].place :
                           LET stem == Stem(Path("absolute", place))
                           IN saves[m + 1].sram \in {stem \o <<"srm">>, stem \o <<"srm", "2">>}
    BY DEF SavesHaveOneOwner
  <1>1. Whole
    BY NoSessionFields DEF LoadInv, StageInv, Fresh, Opening, Taking
  <1> DEFINE first == heap[PathAt(0)]
             second == heap[PathAt(1)]
             firmware == session.engine = "melonds"
  <1>2. /\ first \in Routes /\ second \in Routes /\ firmware \in BOOLEAN
        /\ Means(first, given[0]) /\ Means(second, given[1])
        /\ saves = BuildSavePaths(first, second, firmware)
    BY <1>1 DEF Whole, Kept
  <1> HIDE DEF first, second, firmware
  <1>3. Apart(saves, Stem(first), Stem(second))
    BY <1>2, NamesDiffer
  <1>4. ASSUME NEW m \in Machines, NEW place \in given[m].place
        PROVE  LET stem == Stem(Path("absolute", place))
               IN saves[m + 1].sram \in {stem \o <<"srm">>, stem \o <<"srm", "2">>}
    <2>1. CASE m = 0
      <3>1. Stem(Path("absolute", place)) = Stem(first)
        BY <1>2, <1>3, <1>4, <2>1 DEF Means, Apart
      <3> QED BY <1>3, <2>1, <3>1 DEF Apart
    <2>2. CASE m = 1
      <3>1. Stem(Path("absolute", place)) = Stem(second)
        BY <1>2, <1>3, <1>4, <2>2 DEF Means, Apart
      <3> QED BY <1>3, <2>2, <3>1 DEF Apart
    <2> QED BY <2>1, <2>2, ZeroAndOne
  <1> QED BY <1>3, <1>4 DEF Apart

\* dualboy_build_save_paths over dualboy_playlist_parse: whatever the spelling
\* of the paths, every save file belongs to one machine and is named after the
\* file that its player means.
THEOREM SavesAreOwned == Spec => []SavesHaveOneOwner
  <1>1. Init => LoadInv
    BY LoadInvStarts
  <1>2. LoadInv /\ [Next]_vars => LoadInv'
    BY LoadInvKept
  <1>3. LoadInv => SavesHaveOneOwner
    BY LoadInvOwners
  <1> QED BY <1>1, <1>2, <1>3, PTL DEF Spec
=============================================================================
